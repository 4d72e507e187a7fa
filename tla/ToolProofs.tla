----------------------------- MODULE ToolProofs -----------------------------
(***************************************************************************)
(* Why the look-ups never make an answer look better than it is, and why   *)
(* the critique asks about what they could not give: for any turns, any    *)
(* catalog and whatever the Places API, the router and the seed script do  *)
(* meanwhile; and that the budget pays for the trip that was drafted.      *)
(* Then why a route out of the catalog comes whole: for any                *)
(* files the registry accepts, however requests share the segment cache.   *)
(* Last that the day plans of such a route are the best splits of it, that *)
(* the critique lets them through as they are, and that the GPX tracks cut *)
(* out of it join up.                                                      *)
(*                                                                         *)
(* Lists that the code builds in loops come first: induction is over a set *)
(* of numbers (AllUpTo), since the induction theorems of the library take  *)
(* an operator.  A sum over a list is a fold, a recursive function inside  *)
(* LET: its running sums are had the same way, one element at a time.      *)
(***************************************************************************)
EXTENDS TripReview, PlanReview, SequenceTheorems, FiniteSetTheorems, FunctionTheorems,
        WellFoundedInduction, TLAPS

-----------------------------------------------------------------------------
\* Lists

LEMMA LeastNumber ==
    ASSUME NEW T, T \subseteq Nat, T # {}
    PROVE  \E x \in T : \A y \in T : ~ (y < x)
<1>1. \E x \in T : \A y \in T : ~ (<<y, x>> \in OpToRel(<, Nat))
    BY NatLessThanWellFounded, WFMin
<1>2. QED
    BY <1>1 DEF OpToRel

\* Induction up to n over the set of numbers for which a claim holds.
LEMMA AllUpTo ==
    ASSUME NEW n \in Nat, NEW good, 0 \in good,
           \A k \in 1..n : k - 1 \in good => k \in good
    PROVE  \A k \in 0..n : k \in good
<1> DEFINE wrong == {k \in 0..n : k \notin good}
<1>1. ASSUME NEW k \in wrong, \A j \in wrong : ~ (j < k) PROVE FALSE
    <2>1. k \in 1..n /\ k - 1 \in 0..n /\ k - 1 < k
        OBVIOUS
    <2>2. k - 1 \in good
        BY <1>1, <2>1
    <2>3. QED
        BY <2>1, <2>2
<1>2. wrong \subseteq Nat
    OBVIOUS
<1> HIDE DEF wrong
<1>3. wrong = {}
    BY <1>1, <1>2, LeastNumber
<1>4. QED
    BY <1>3 DEF wrong

\* A function on the numbers up to n is a list of n elements.
LEMMA FunctionIsList ==
    ASSUME NEW S, NEW n \in Nat, NEW f \in [1..n -> S]
    PROVE  f \in Seq(S) /\ Len(f) = n
<1>1. f \in Seq(S)
    BY SeqDef, Zenon
<1>2. QED
    BY <1>1

LEMMA MinOfSome ==
    ASSUME NEW S, S \subseteq Nat, S # {}
    PROVE  Min(S) \in S /\ \A y \in S : Min(S) <= y
<1>1. PICK x \in S : \A y \in S : ~ (y < x)
    BY LeastNumber
<1>2. \A y \in S : x <= y
    BY <1>1
<1>3. QED
    BY <1>2 DEF Min

LEMMA MaxOfSome ==
    ASSUME NEW n \in Nat, NEW S, S \subseteq 1..n, S # {}
    PROVE  Max(S) \in S
<1> DEFINE D == {n - x : x \in S}
<1>1. D \subseteq Nat /\ D # {}
    <2>1. \A x \in S : n - x \in Nat
        OBVIOUS
    <2>2. QED
        BY <2>1
<1>2. PICK d \in D : \A y \in D : ~ (y < d)
    <2> HIDE DEF D
    <2>1. QED
        BY <1>1, LeastNumber
<1>3. PICK x \in S : d = n - x
    OBVIOUS
<1>4. \A y \in S : x >= y
    <2> TAKE y \in S
    <2>1. n - y \in D
        OBVIOUS
    <2>2. ~ (n - y < n - x)
        BY <1>2, <1>3, <2>1
    <2>3. QED
        BY <2>2
<1>5. QED
    BY <1>4 DEF Max

\* The results of a loop of n rounds, after each of them.
Loops(T, base, n, step) ==
    {f \in [0..n -> T] : f[0] = base /\ \A k \in 1..n : f[k] = step[<<k, f[k - 1]>>]}

LEMMA LoopExists ==
    ASSUME NEW T, NEW base \in T, NEW n \in Nat, NEW step \in [(1..n) \X T -> T]
    PROVE  Loops(T, base, n, step) # {}
<1> DEFINE good == {m \in 0..n : \E f \in [0..m -> T] :
                       f[0] = base /\ \A k \in 1..m : f[k] = step[<<k, f[k - 1]>>]}
<1>1. 0 \in good
    <2> DEFINE f == [k \in 0..0 |-> base]
    <2>1. f \in [0..0 -> T] /\ f[0] = base
        OBVIOUS
    <2> HIDE DEF f
    <2>2. QED
        BY <2>1
<1>2. ASSUME NEW m \in 1..n, m - 1 \in good PROVE m \in good
    <2>1. PICK g \in [0..(m - 1) -> T] :
             g[0] = base /\ \A k \in 1..(m - 1) : g[k] = step[<<k, g[k - 1]>>]
        BY <1>2
    <2> DEFINE f == [k \in 0..m |-> IF k = m THEN step[<<m, g[m - 1]>>] ELSE g[k]]
    <2>2. m - 1 \in 0..(m - 1) /\ g[m - 1] \in T
        OBVIOUS
    <2>3. step[<<m, g[m - 1]>>] \in T
        BY <2>2
    <2>4. f \in [0..m -> T]
        BY <2>3
    <2>5. f[0] = base /\ \A k \in 1..m : f[k] = step[<<k, f[k - 1]>>]
        <3>1. \A k \in 0..(m - 1) : f[k] = g[k]
            OBVIOUS
        <3>2. f[m] = step[<<m, g[m - 1]>>]
            OBVIOUS
        <3>3. f[m - 1] = g[m - 1]
            BY <2>2, <3>1
        <3> HIDE DEF f
        <3>4. \A k \in 1..(m - 1) : f[k] = step[<<k, f[k - 1]>>]
            BY <2>1, <3>1
        <3>5. f[0] = base
            BY <2>1, <3>1
        <3>6. \A k \in 1..m : k = m \/ k \in 1..(m - 1)
            OBVIOUS
        <3>7. QED
            BY <3>2, <3>3, <3>4, <3>5, <3>6
    <2> HIDE DEF f
    <2>6. QED
        BY <2>4, <2>5
<1> HIDE DEF good
<1>3. n \in good
    BY <1>1, <1>2, AllUpTo
<1>4. QED
    BY <1>3 DEF good, Loops

\* What is picked from a list is a list of elements at those positions.
LEMMA PickedIsList ==
    ASSUME NEW S, NEW seq, NEW positions, Len(seq) \in Nat,
           \A i \in 1..Len(seq) : i \in positions => seq[i] \in S
    PROVE  Picked(seq, positions) \in Seq(S)
<1> DEFINE n == Len(seq)
           next(f) ==
               [k \in 0..n |->
                   IF k = 0 THEN <<>>
                   ELSE IF k \in positions THEN Append(f[k - 1], seq[k]) ELSE f[k - 1]]
           upTo == CHOOSE f : f = next(f)
           step == [x \in (1..n) \X Seq(S) |->
                       IF x[1] \in positions THEN Append(x[2], seq[x[1]]) ELSE x[2]]
<1>1. Picked(seq, positions) = upTo[n]
    BY DEF Picked
<1>2. <<>> \in Seq(S) /\ step \in [(1..n) \X Seq(S) -> Seq(S)]
    <2>1. ASSUME NEW k \in 1..n, NEW s \in Seq(S), k \in positions
          PROVE  Append(s, seq[k]) \in Seq(S)
        BY <2>1, AppendProperties
    <2>2. QED
        BY <2>1
<1>3. PICK g \in [0..n -> Seq(S)] :
          g[0] = <<>> /\ \A k \in 1..n : g[k] = step[<<k, g[k - 1]>>]
    <2>1. n \in Nat
        OBVIOUS
    <2> HIDE DEF step, n
    <2>2. Loops(Seq(S), <<>>, n, step) # {}
        BY <1>2, <2>1, LoopExists
    <2>3. QED
        BY <2>2 DEF Loops
<1>4. g = next(g)
    <2>1. ASSUME NEW k \in 0..n PROVE g[k] = next(g)[k]
        <3>1. CASE k = 0
            BY <1>3, <3>1
        <3>2. CASE k # 0
            <4>1. k \in 1..n /\ g[k - 1] \in Seq(S)
                BY <3>2
            <4>2. step[<<k, g[k - 1]>>] =
                     IF k \in positions THEN Append(g[k - 1], seq[k]) ELSE g[k - 1]
                BY <4>1
            <4>3. next(g)[k] = IF k \in positions THEN Append(g[k - 1], seq[k]) ELSE g[k - 1]
                BY <3>2
            <4> HIDE DEF step, next
            <4>4. QED
                BY <1>3, <4>1, <4>2, <4>3
        <3>3. QED
            BY <3>1, <3>2
    <2>2. g = [k \in 0..n |-> g[k]] /\ next(g) = [k \in 0..n |-> next(g)[k]]
        OBVIOUS
    <2> HIDE DEF next
    <2>3. QED
        BY <2>1, <2>2
<1>5. upTo = next(upTo)
    <2> HIDE DEF next
    <2>1. QED
        BY <1>4
<1> HIDE DEF upTo
<1> DEFINE good == {k \in 0..n : upTo[k] \in Seq(S)}
<1>6. 0 \in good
    BY <1>5
<1>7. ASSUME NEW k \in 1..n, k - 1 \in good PROVE k \in good
    <2>1. upTo[k] = IF k \in positions THEN Append(upTo[k - 1], seq[k]) ELSE upTo[k - 1]
        <3>1. next(upTo)[k] =
                 IF k \in positions THEN Append(upTo[k - 1], seq[k]) ELSE upTo[k - 1]
            OBVIOUS
        <3> HIDE DEF next
        <3>2. QED
            BY <1>5, <3>1
    <2>2. upTo[k - 1] \in Seq(S)
        BY <1>7
    <2>3. CASE k \in positions
        <3>1. upTo[k] \in Seq(S)
            BY <2>1, <2>2, <2>3, AppendProperties
        <3>2. QED
            BY <3>1
    <2>4. CASE k \notin positions
        <3>1. upTo[k] \in Seq(S)
            BY <2>1, <2>2, <2>4
        <3>2. QED
            BY <3>1
    <2>5. QED
        BY <2>3, <2>4
<1>8. n \in good
    <2>1. n \in Nat /\ n \in 0..n
        OBVIOUS
    <2> HIDE DEF good, n
    <2>2. QED
        BY <1>6, <1>7, <2>1, AllUpTo
<1>9. QED
    BY <1>1, <1>8 DEF good

-----------------------------------------------------------------------------
\* Sums

LEMMA MaxIsLast ==
    ASSUME NEW k \in Nat, NEW S, S \subseteq 1..k, k \in S
    PROVE  Max(S) = k
<1>1. k \in S /\ \A y \in S : k >= y
    OBVIOUS
<1>2. \A x \in S : (\A y \in S : x >= y) => x = k
    OBVIOUS
<1>3. QED
    BY <1>1, <1>2 DEF Max

\* The recursive function by which a fold adds up n values, on all sets of positions.
Adds(f, n, val) ==
    \A s \in SUBSET (1..n) :
        f[s] = IF s = {} THEN 0 ELSE f[s \ {Max(s)}] + val[Max(s)]

Adders(n, val) == {f \in [SUBSET (1..n) -> Int] : Adds(f, n, val)}

LEMMA AdderExists ==
    ASSUME NEW n \in Nat, NEW val \in [1..n -> Int]
    PROVE  Adders(n, val) # {}
<1> DEFINE good == {k \in 0..n : Adders(k, val) # {}}
<1>1. 0 \in good
    <2> DEFINE f == [s \in SUBSET (1..0) |-> 0]
    <2>1. SUBSET (1..0) = {{}}
        OBVIOUS
    <2>2. f \in Adders(0, val)
        BY <2>1 DEF Adders, Adds
    <2>3. QED
        BY <2>2
<1>2. ASSUME NEW k \in 1..n, k - 1 \in good PROVE k \in good
    <2>1. PICK f : f \in Adders(k - 1, val)
        BY <1>2
    <2>2. f \in [SUBSET (1..(k - 1)) -> Int] /\ Adds(f, k - 1, val)
        BY <2>1 DEF Adders
    <2> DEFINE g == [s \in SUBSET (1..k) |->
                        IF k \in s THEN f[s \ {k}] + val[k] ELSE f[s]]
    <2>3. ASSUME NEW s \in SUBSET (1..k)
          PROVE  s \ {k} \in SUBSET (1..(k - 1)) /\ (k \notin s => s \in SUBSET (1..(k - 1)))
        OBVIOUS
    <2>4. g \in [SUBSET (1..k) -> Int]
        <3>1. ASSUME NEW s \in SUBSET (1..k) PROVE g[s] \in Int
            <4>1. val[k] \in Int
                OBVIOUS
            <4>2. CASE k \in s
                <5>1. f[s \ {k}] \in Int
                    BY <2>2, <2>3
                <5>2. g[s] = f[s \ {k}] + val[k]
                    BY <4>2
                <5> HIDE DEF g
                <5>3. QED
                    BY <4>1, <5>1, <5>2
            <4>3. CASE k \notin s
                BY <2>2, <2>3, <4>3
            <4>4. QED
                BY <4>2, <4>3
        <3>2. QED
            BY <3>1
    <2>5. ASSUME NEW s \in SUBSET (1..k)
          PROVE  g[s] = IF s = {} THEN 0 ELSE g[s \ {Max(s)}] + val[Max(s)]
        <3>1. CASE k \in s
            <4>1. Max(s) = k
                <5>1. k \in Nat /\ s \subseteq 1..k
                    OBVIOUS
                <5> HIDE DEF g
                <5>2. QED
                    BY <3>1, <5>1, MaxIsLast
            <4>2. s \ {k} \in SUBSET (1..k) /\ k \notin s \ {k} /\ s # {}
                BY <3>1
            <4>3. g[s \ {k}] = f[s \ {k}] /\ g[s] = f[s \ {k}] + val[k]
                BY <3>1, <4>2
            <4> HIDE DEF g
            <4>4. QED
                BY <4>1, <4>2, <4>3
        <3>2. CASE k \notin s
            <4>1. s \in SUBSET (1..(k - 1)) /\ k - 1 \in Nat
                BY <2>3, <3>2
            <4>2. g[s] = f[s] /\ f[s] = IF s = {} THEN 0 ELSE f[s \ {Max(s)}] + val[Max(s)]
                BY <2>2, <3>2, <4>1 DEF Adds
            <4>3. s \ {Max(s)} \in SUBSET (1..k) /\ k \notin s \ {Max(s)}
                BY <3>2
            <4>4. g[s \ {Max(s)}] = f[s \ {Max(s)}]
                BY <4>3
            <4> HIDE DEF g
            <4>5. QED
                BY <4>2, <4>4
        <3>3. QED
            BY <3>1, <3>2
    <2> HIDE DEF g
    <2>6. g \in Adders(k, val)
        BY <2>4, <2>5 DEF Adders, Adds
    <2>7. QED
        BY <2>6
<1>3. n \in 0..n
    OBVIOUS
<1> HIDE DEF good
<1>4. n \in good
    BY <1>1, <1>2, <1>3, AllUpTo
<1>5. QED
    BY <1>4 DEF good

\* The sums of the first k values, for each k.
Running(n, val) ==
    {f \in [0..n -> Int] : f[0] = 0 /\ \A k \in 1..n : f[k] = f[k - 1] + val[k]}

LEMMA RunningExists ==
    ASSUME NEW n \in Nat, NEW val \in [1..n -> Int]
    PROVE  Running(n, val) # {}
<1> DEFINE step == [x \in (1..n) \X Int |-> x[2] + val[x[1]]]
<1>1. step \in [(1..n) \X Int -> Int]
    OBVIOUS
<1>2. \A k \in 1..n, m \in Int : step[<<k, m>>] = m + val[k]
    OBVIOUS
<1> HIDE DEF step
<1>3. PICK f \in [0..n -> Int] : f[0] = 0 /\ \A k \in 1..n : f[k] = step[<<k, f[k - 1]>>]
    <2>1. PICK T : T = Int
        OBVIOUS
    <2>2. 0 \in T /\ step \in [(1..n) \X T -> T]
        BY <1>1, <2>1
    <2>3. Loops(T, 0, n, step) # {}
        BY <2>2, LoopExists
    <2>4. QED
        BY <2>1, <2>3 DEF Loops
<1>4. ASSUME NEW k \in 1..n PROVE f[k] = f[k - 1] + val[k]
    <2>1. k - 1 \in 0..n
        OBVIOUS
    <2>2. f[k - 1] \in Int /\ f[k] = step[<<k, f[k - 1]>>]
        BY <1>3, <2>1
    <2>3. QED
        BY <1>2, <1>4, <2>2
<1>5. f \in Running(n, val)
    BY <1>3, <1>4 DEF Running
<1>6. QED
    BY <1>5

\* What such a function makes of all positions.
LEMMA AdderRuns ==
    ASSUME NEW n \in Nat, NEW val, NEW f, Adds(f, n, val), NEW r \in Running(n, val)
    PROVE  f[1..n] = r[n]
<1> DEFINE good == {k \in 0..n : f[1..k] = r[k]}
<1>1. 0 \in good
    <2>1. 1..0 = {} /\ {} \in SUBSET (1..n)
        OBVIOUS
    <2>2. f[{}] = 0
        BY <2>1 DEF Adds
    <2>3. r[0] = 0
        BY DEF Running
    <2>4. QED
        BY <2>1, <2>2, <2>3
<1>2. ASSUME NEW k \in 1..n, k - 1 \in good PROVE k \in good
    <2>1. 1..k \in SUBSET (1..n) /\ 1..k # {} /\ (1..k) \ {k} = 1..(k - 1)
        OBVIOUS
    <2>2. Max(1..k) = k
        BY MaxIsLast
    <2>3. f[1..k] = f[1..(k - 1)] + val[k]
        BY <2>1, <2>2 DEF Adds
    <2>4. r[k] = r[k - 1] + val[k]
        BY DEF Running
    <2>5. f[1..(k - 1)] = r[k - 1]
        BY <1>2
    <2>6. QED
        BY <2>3, <2>4, <2>5
<1>3. n \in 0..n
    OBVIOUS
<1> HIDE DEF good
<1>4. n \in good
    BY <1>1, <1>2, <1>3, AllUpTo
<1>5. QED
    BY <1>4 DEF good

LEMMA TotalIsSum ==
    ASSUME NEW n \in Nat, NEW ns \in [1..n -> Int], NEW r \in Running(n, ns)
    PROVE  Total(ns) = r[n]
<1> DEFINE F(f) == [s \in SUBSET (1..n) |->
                       IF s = {} THEN 0 ELSE f[s \ {Max(s)}] + ns[Max(s)]]
           iter == CHOOSE f : f = F(f)
<1>1. Total(ns) = iter[1..n]
    BY DEF Total, FoldLeft, MapThenFoldSet
<1>2. PICK f \in [SUBSET (1..n) -> Int] : Adds(f, n, ns)
    BY AdderExists DEF Adders
<1>3. f = F(f)
    BY <1>2 DEF Adds
<1>4. iter = F(iter)
    <2> HIDE DEF F
    <2>1. QED
        BY <1>3
<1> HIDE DEF iter
<1>5. Adds(iter, n, ns)
    BY <1>4 DEF Adds
<1>6. QED
    BY <1>1, <1>5, AdderRuns

-----------------------------------------------------------------------------
\* Lists put together

\* What the lists up to each position make, put together.
Flats(S, seqs) ==
    {g \in [0..Len(seqs) -> Seq(S)] :
        g[0] = <<>> /\ \A k \in 1..Len(seqs) : g[k] = g[k - 1] \o seqs[k]}

LEMMA FlattenSeqIsFlat ==
    ASSUME NEW S, NEW seqs \in Seq(Seq(S))
    PROVE  {g \in Flats(S, seqs) : FlattenSeq(seqs) = g[Len(seqs)]} # {}
<1> DEFINE n == Len(seqs)
           next(f) ==
               [i \in 1..n |-> IF i = 1 THEN seqs[i] ELSE f[i - 1] \o seqs[i]]
           flatten == CHOOSE f : f = next(f)
           step == [x \in (1..n) \X Seq(S) |-> x[2] \o seqs[x[1]]]
<1>1. n \in Nat /\ \A i \in 1..n : seqs[i] \in Seq(S)
    OBVIOUS
<1>2. <<>> \in Seq(S) /\ step \in [(1..n) \X Seq(S) -> Seq(S)]
    <2>1. ASSUME NEW i \in 1..n, NEW s \in Seq(S) PROVE s \o seqs[i] \in Seq(S)
        BY <1>1, ConcatProperties
    <2>2. QED
        BY <2>1
<1>3. PICK g \in [0..n -> Seq(S)] :
          g[0] = <<>> /\ \A k \in 1..n : g[k] = step[<<k, g[k - 1]>>]
    <2> HIDE DEF step, n
    <2>1. Loops(Seq(S), <<>>, n, step) # {}
        BY <1>1, <1>2, LoopExists
    <2>2. QED
        BY <2>1 DEF Loops
<1>4. ASSUME NEW k \in 1..n
      PROVE  /\ k - 1 \in 0..n /\ g[k - 1] \in Seq(S) /\ seqs[k] \in Seq(S)
             /\ g[k] = g[k - 1] \o seqs[k]
    <2>1. k - 1 \in 0..n
        BY <1>1
    <2>2. g[k - 1] \in Seq(S)
        <3> HIDE DEF n
        <3>1. QED
            BY <1>3, <2>1
    <2>3. step[<<k, g[k - 1]>>] = g[k - 1] \o seqs[k]
        BY <2>2
    <2>4. QED
        <3> HIDE DEF step, n
        <3>1. QED
            BY <1>1, <1>3, <2>1, <2>2, <2>3
<1>5. g \in Flats(S, seqs)
    <2> HIDE DEF step
    <2>1. QED
        BY <1>3, <1>4 DEF Flats
<1>6. CASE n = 0
    <2>1. seqs = <<>> /\ g[n] = <<>>
        BY <1>3, <1>6
    <2>2. FlattenSeq(seqs) = seqs
        BY <1>6 DEF FlattenSeq
    <2>3. FlattenSeq(seqs) = g[Len(seqs)]
        BY <2>1, <2>2
    <2>4. QED
        BY <1>5, <2>3
<1>7. CASE n # 0
    <2>1. FlattenSeq(seqs) = flatten[n]
        BY <1>7 DEF FlattenSeq
    <2> DEFINE h == [k \in 1..n |-> g[k]]
    <2>2. h = next(h)
        <3>1. ASSUME NEW k \in 1..n PROVE h[k] = next(h)[k]
            <4>1. CASE k = 1
                <5>1. g[1] = <<>> \o seqs[1] /\ seqs[1] \in Seq(S)
                    <6>1. 1 \in 1..n /\ g[1 - 1] = <<>>
                        BY <1>3, <4>1
                    <6> HIDE DEF n, step, h, next, flatten
                    <6>2. QED
                        BY <1>4, <6>1
                <5>2. <<>> \o seqs[1] = seqs[1]
                    BY <5>1, ConcatEmptySeq
                <5>3. next(h)[k] = seqs[1] /\ h[k] = g[1]
                    BY <4>1
                <5> HIDE DEF step, h, next, n
                <5>4. QED
                    BY <5>1, <5>2, <5>3
            <4>2. CASE k # 1
                <5>1. k - 1 \in 1..n
                    BY <1>1, <4>2
                <5>2. next(h)[k] = h[k - 1] \o seqs[k] /\ h[k] = g[k]
                    BY <4>2
                <5>3. h[k - 1] = g[k - 1]
                    BY <5>1
                <5> HIDE DEF h, next, step, n
                <5>4. QED
                    BY <1>4, <5>2, <5>3
            <4>3. QED
                BY <4>1, <4>2
        <3>2. h = [k \in 1..n |-> h[k]] /\ next(h) = [k \in 1..n |-> next(h)[k]]
            OBVIOUS
        <3> HIDE DEF h, next
        <3>3. QED
            BY <3>1, <3>2
    <2>3. flatten = next(flatten)
        <3> HIDE DEF next, h
        <3>1. QED
            BY <2>2
    <2> HIDE DEF flatten, h
    <2> DEFINE good == {k \in 0..n : k # 0 => flatten[k] = g[k]}
    <2>4. 0 \in good
        BY <1>1
    <2>5. ASSUME NEW k \in 1..n, k - 1 \in good PROVE k \in good
        <3>1. CASE k = 1
            <4>1. 1 \in 1..n /\ g[1 - 1] = <<>>
                BY <1>3, <3>1
            <4>2. g[1] = <<>> \o seqs[1] /\ seqs[1] \in Seq(S)
                <5> HIDE DEF n, step, next, good
                <5>1. QED
                    BY <1>4, <4>1
            <4>3. <<>> \o seqs[1] = seqs[1]
                BY <4>2, ConcatEmptySeq
            <4>4. flatten[1] = seqs[1]
                <5>1. next(flatten)[1] = seqs[1]
                    BY <4>1
                <5> HIDE DEF next
                <5>2. QED
                    BY <2>3, <5>1
            <4>5. flatten[k] = g[k]
                BY <3>1, <4>2, <4>3, <4>4
            <4>6. QED
                BY <4>5
        <3>2. CASE k # 1
            <4>1. k - 1 \in 1..n /\ k - 1 # 0
                BY <1>1, <3>2
            <4>2. flatten[k - 1] = g[k - 1]
                BY <2>5, <4>1
            <4>3. flatten[k] = flatten[k - 1] \o seqs[k]
                <5>1. next(flatten)[k] = flatten[k - 1] \o seqs[k]
                    BY <3>2
                <5> HIDE DEF next
                <5>2. QED
                    BY <2>3, <5>1
            <4>4. g[k] = g[k - 1] \o seqs[k]
                <5> HIDE DEF n, step, next, good
                <5>1. QED
                    BY <1>4
            <4>5. flatten[k] = g[k]
                BY <4>2, <4>3, <4>4
            <4>6. QED
                BY <4>5
        <3>3. QED
            BY <3>1, <3>2
    <2>6. n \in good
        <3>1. n \in 0..n
            BY <1>1
        <3> HIDE DEF good, n, next, step
        <3>2. QED
            BY <1>1, <2>4, <2>5, <3>1, AllUpTo
    <2>7. flatten[n] = g[n]
        BY <1>7, <2>6
    <2>8. QED
        BY <1>5, <2>1, <2>7
<1>8. QED
    BY <1>6, <1>7

\* Lists put together make a list.
LEMMA FlattenSeqIsList ==
    ASSUME NEW S, NEW seqs \in Seq(Seq(S))
    PROVE  FlattenSeq(seqs) \in Seq(S)
<1>1. PICK g \in Flats(S, seqs) : FlattenSeq(seqs) = g[Len(seqs)]
    BY FlattenSeqIsFlat
<1>2. Len(seqs) \in 0..Len(seqs) /\ g \in [0..Len(seqs) -> Seq(S)]
    BY DEF Flats
<1>3. QED
    BY <1>1, <1>2

\* They stand one after the other: those up to each position are as long as the lists
\* there are, and each list follows on those before.
LEMMA FlatsAreLaidOut ==
    ASSUME NEW S, NEW seqs \in Seq(Seq(S)), NEW g \in Flats(S, seqs),
           NEW r \in Running(Len(seqs), [k \in 1..Len(seqs) |-> Len(seqs[k])])
    PROVE  \A k \in 0..Len(seqs) :
              /\ Len(g[k]) = r[k]
              /\ \A i \in 1..k : /\ r[i - 1] \in Nat /\ r[i] \in Nat /\ r[i] <= r[k]
                                 /\ r[i] = r[i - 1] + Len(seqs[i])
                                 /\ \A j \in 1..Len(seqs[i]) : g[k][r[i - 1] + j] = seqs[i][j]
<1>1. PICK n \in Nat : n = Len(seqs)
    OBVIOUS
<1>2. /\ g \in [0..n -> Seq(S)] /\ g[0] = <<>> /\ \A k \in 1..n : g[k] = g[k - 1] \o seqs[k]
      /\ \A k \in 1..n : seqs[k] \in Seq(S)
    <2>1. \A k \in 1..n : seqs[k] \in Seq(S)
        BY <1>1
    <2>2. g \in [0..n -> Seq(S)] /\ g[0] = <<>> /\ \A k \in 1..n : g[k] = g[k - 1] \o seqs[k]
        BY <1>1, Zenon DEF Flats
    <2>3. QED
        BY <2>1, <2>2
<1>3. r[0] = 0 /\ \A k \in 1..n : r[k] = r[k - 1] + Len(seqs[k])
    <2>1. PICK lens : lens = [k \in 1..n |-> Len(seqs[k])]
        OBVIOUS
    <2>2. r[0] = 0 /\ \A k \in 1..n : r[k] = r[k - 1] + lens[k]
        BY <1>1, <2>1 DEF Running
    <2>3. QED
        BY <2>1, <2>2
<1> DEFINE Fits(k) ==
              /\ Len(g[k]) = r[k]
              /\ \A i \in 1..k : /\ r[i - 1] \in Nat /\ r[i] \in Nat /\ r[i] <= r[k]
                                 /\ r[i] = r[i - 1] + Len(seqs[i])
                                 /\ \A j \in 1..Len(seqs[i]) : g[k][r[i - 1] + j] = seqs[i][j]
           good == {k \in 0..n : Fits(k)}
<1>4. 0 \in good
    BY <1>2, <1>3
<1>5. ASSUME NEW k \in 1..n, k - 1 \in good PROVE k \in good
    <2>1. Fits(k - 1)
        BY <1>5
    <2>2. PICK before \in Seq(S), own \in Seq(S), all \in Seq(S) : before = g[k - 1] /\ own = seqs[k] /\ all = g[k]
        BY <1>2
    <2>3. PICK lb, lo \in Nat : lb = Len(before) /\ lo = Len(own)
        OBVIOUS
    <2>4. /\ all \in Seq(S) /\ Len(all) = lb + lo
          /\ \A x \in 1..lb : all[x] = before[x]
          /\ \A x \in 1..lo : all[lb + x] = own[x]
        <3>1. all = before \o own
            BY <1>2, <2>2
        <3>2. all \in Seq(S) /\ Len(all) = lb + lo
            BY <2>3, <3>1, ConcatProperties
        <3>3. \A x \in 1..(lb + lo) : all[x] = IF x <= lb THEN before[x] ELSE own[x - lb]
            BY <2>3, <3>1, ConcatProperties
        <3>4. \A x \in 1..lb : x \in 1..(lb + lo) /\ x <= lb
            OBVIOUS
        <3>5. \A x \in 1..lo : lb + x \in 1..(lb + lo) /\ ~ (lb + x <= lb) /\ (lb + x) - lb = x
            OBVIOUS
        <3>6. QED
            BY <3>2, <3>3, <3>4, <3>5
    <2>5. r[k - 1] = lb /\ r[k] = lb + lo
        <3>1. r[k - 1] = lb
            BY <2>1, <2>2, <2>3
        <3>2. QED
            BY <1>3, <2>2, <2>3, <3>1
    <2>6. Len(g[k]) = r[k]
        BY <2>2, <2>4, <2>5
    <2>7. ASSUME NEW i \in 1..k
          PROVE  /\ r[i - 1] \in Nat /\ r[i] \in Nat /\ r[i] <= r[k]
                 /\ r[i] = r[i - 1] + Len(seqs[i])
                 /\ \A j \in 1..Len(seqs[i]) : g[k][r[i - 1] + j] = seqs[i][j]
        <3>1. CASE i = k
            <4>1. r[i - 1] = lb /\ r[i] = lb + lo /\ Len(seqs[i]) = lo
                BY <2>2, <2>3, <2>5, <3>1
            <4>2. \A j \in 1..lo : g[k][lb + j] = seqs[i][j]
                BY <2>2, <2>4, <3>1
            <4>3. QED
                BY <2>5, <4>1, <4>2
        <3>2. CASE i # k
            <4>1. i \in 1..(k - 1)
                BY <3>2
            <4>2. /\ r[i - 1] \in Nat /\ r[i] \in Nat /\ r[i] <= lb
                  /\ r[i] = r[i - 1] + Len(seqs[i])
                  /\ \A j \in 1..Len(seqs[i]) : before[r[i - 1] + j] = seqs[i][j]
                BY <2>1, <2>2, <2>5, <4>1
            <4>3. r[i] <= r[k]
                BY <2>5, <4>2
            <4>4. PICK len \in Nat : len = Len(seqs[i])
                <5>1. seqs[i] \in Seq(S)
                    BY <1>2
                <5>2. QED
                    BY <5>1
            <4>5. ASSUME NEW j \in 1..len PROVE g[k][r[i - 1] + j] = seqs[i][j]
                <5>1. r[i - 1] + j \in 1..lb
                    BY <4>2, <4>4, SMTT(30)
                <5>2. QED
                    BY <2>2, <2>4, <4>2, <4>4, <5>1
            <4>6. QED
                BY <4>2, <4>3, <4>4, <4>5
        <3>3. QED
            BY <3>1, <3>2
    <2>8. Fits(k)
        BY <2>6, <2>7
    <2> HIDE DEF Fits
    <2>9. QED
        BY <2>8
<1> HIDE DEF good, Fits
<1>6. \A k \in 0..n : k \in good
    BY <1>4, <1>5, AllUpTo
<1>7. \A k \in 0..n : Fits(k)
    BY <1>6 DEF good
<1>8. QED
    BY <1>1, <1>7 DEF Fits

-----------------------------------------------------------------------------
\* The searches of a call make a list.

Places == {"find_accommodation", "get_points_of_interest"}

\* Kinds of lodging have lists of types; a type two of them share is searched once.
LEMMA LodgingSearchesAreListed ==
    ASSUME NEW call, ValidCall(call), IsList(call.wanted),
           call.tool = "find_accommodation", call.wanted # <<>>
    PROVE  \E S : Searches(call) \in Seq(S)
<1> DEFINE T == {"campground", "rv_park", "lodging"}
           lists == [i \in DOMAIN call.wanted |-> PlaceTypes[call.wanted[i]]]
           types == FlattenSeq(lists)
           U == {SearchFor({x}, Inferred) : x \in T}
<1>1. ASSUME NEW i \in DOMAIN call.wanted PROVE PlaceTypes[call.wanted[i]] \in Seq(T)
    <2>1. call.wanted[i] \in {"camping", "hostel", "hotel", "guesthouse"}
        BY DEF ValidCall, PlaceTypes
    <2>2. <<"campground", "rv_park">> \in Seq(T) /\ <<"lodging">> \in Seq(T)
        OBVIOUS
    <2>3. PlaceTypes[call.wanted[i]] = <<"campground", "rv_park">>
             \/ PlaceTypes[call.wanted[i]] = <<"lodging">>
        BY <2>1 DEF PlaceTypes
    <2> HIDE DEF T
    <2>4. QED
        BY <2>2, <2>3
<1>2. lists \in Seq(Seq(T))
    <2> HIDE DEF T
    <2>1. DOMAIN call.wanted = 1..Len(call.wanted) /\ Len(call.wanted) \in Nat
        BY DEF IsList
    <2>2. PICK L : L = Seq(T)
        OBVIOUS
    <2>3. lists \in [1..Len(call.wanted) -> L]
        BY <1>1, <2>1, <2>2
    <2> HIDE DEF lists
    <2>4. lists \in Seq(L)
        BY <2>1, <2>3, FunctionIsList
    <2>5. QED
        BY <2>2, <2>4
<1>3. types \in Seq(T)
    <2> HIDE DEF T, lists
    <2>1. QED
        BY <1>2, FlattenSeqIsList
<1> HIDE DEF types
<1>4. Once(types) \in Seq(T)
    <2>1. Len(types) \in Nat /\ \A i \in 1..Len(types) : types[i] \in T
        <3> HIDE DEF T
        <3>1. QED
            BY <1>3
    <2> HIDE DEF T
    <2>2. QED
        BY <2>1, PickedIsList DEF Once
<1>5. Searches(call) = [i \in DOMAIN Once(types) |-> SearchFor({Once(types)[i]}, Inferred)]
    BY DEF Searches, types
<1>6. PICK once : once = Once(types)
    OBVIOUS
<1>7. Searches(call) \in Seq(U)
    <2>1. DOMAIN once = 1..Len(once) /\ Len(once) \in Nat /\ \A i \in DOMAIN once : once[i] \in T
        <3> HIDE DEF T
        <3>1. QED
            BY <1>4, <1>6
    <2> HIDE DEF T
    <2>2. [i \in DOMAIN once |-> SearchFor({once[i]}, Inferred)] \in [1..Len(once) -> U]
        BY <2>1
    <2>3. [i \in DOMAIN once |-> SearchFor({once[i]}, Inferred)] \in Seq(U)
        BY <2>1, <2>2, FunctionIsList
    <2>4. QED
        BY <1>5, <1>6, <2>3
<1>8. QED
    BY <1>7

\* Categories the API does not know are left out.
LEMMA PoiSearchesAreListed ==
    ASSUME NEW call, IsList(call.wanted), call.tool = "get_points_of_interest"
    PROVE  \E S : Searches(call) \in Seq(S)
<1> DEFINE asks == IF call.wanted = <<>> THEN SearchedCategories ELSE call.wanted
           real == Picked(asks, {i \in DOMAIN asks : asks[i] \in DOMAIN CategoryTypes})
           search == [i \in DOMAIN real |-> SearchFor(CategoryTypes[real[i]], real[i])]
<1>1. Searches(call) = search
    BY DEF Searches
<1>2. \E S : asks \in Seq(S)
    <2>1. SearchedCategories \in
             Seq({"bike_shop", "bike_rental", "pub", "cafe", "hospital", "market",
                  "scenic_viewpoint"})
        BY DEF SearchedCategories
    <2>2. QED
        BY <2>1 DEF IsList
<1> HIDE DEF asks
<1>3. PICK S : asks \in Seq(S)
    BY <1>2
<1>4. Len(asks) \in Nat /\ \A i \in 1..Len(asks) : asks[i] \in S
    BY <1>3
<1>5. real \in Seq(S)
    BY <1>4, PickedIsList
<1> HIDE DEF real
<1> DEFINE U == {SearchFor(CategoryTypes[x], x) : x \in S}
<1>6. DOMAIN real = 1..Len(real) /\ Len(real) \in Nat /\ \A i \in DOMAIN real : real[i] \in S
    BY <1>5
<1>7. search \in [1..Len(real) -> U]
    BY <1>6
<1> HIDE DEF search, U
<1>8. search \in Seq(U)
    BY <1>6, <1>7, FunctionIsList
<1>9. QED
    BY <1>1, <1>8

LEMMA SearchesAreListed ==
    ASSUME NEW call, ValidCall(call), IsList(call.wanted), call.tool \in Places
    PROVE  \E S : Searches(call) \in Seq(S)
<1>1. CASE call.tool = "find_accommodation" /\ call.wanted = <<>>
    <2>1. Searches(call) = <<SearchFor({"lodging", "campground"}, Inferred)>>
        BY <1>1 DEF Searches
    <2>2. <<SearchFor({"lodging", "campground"}, Inferred)>>
             \in Seq({SearchFor({"lodging", "campground"}, Inferred)})
        OBVIOUS
    <2>3. QED
        BY <2>1, <2>2
<1>2. QED
    BY <1>1, LodgingSearchesAreListed, PoiSearchesAreListed DEF Places

-----------------------------------------------------------------------------
\* Rounding

\* Division leaves a quotient and a remainder that give the number back.
LEMMA Division ==
    ASSUME NEW a \in Nat, NEW b \in Nat \ {0}
    PROVE  /\ a \div b \in Nat
           /\ a % b \in Nat
           /\ a % b < b
           /\ a = b * (a \div b) + (a % b)
    OBVIOUS

\* Python's round: the rounded ratio of a and b, taken b times, lies at most half
\* of b off a.
LEMMA RoundedRatioIsNearest ==
    ASSUME NEW a \in Nat, NEW b \in Nat \ {0}
    PROVE  /\ RoundedRatio(a, b) \in Nat
           /\ 2 * (RoundedRatio(a, b) * b) <= 2 * a + b
           /\ 2 * a <= 2 * (RoundedRatio(a, b) * b) + b
<1> DEFINE q == a \div b
           r == a % b
<1>1. q \in Nat /\ r \in Nat /\ r < b /\ a = b * q + r
    BY Division
<1>2. CASE RoundedRatio(a, b) = q
    <2>1. 2 * r <= b
        BY <1>1, <1>2 DEF RoundedRatio
    <2>2. QED
        BY <1>1, <1>2, <2>1
<1>3. CASE RoundedRatio(a, b) = q + 1
    <2>1. 2 * r >= b
        BY <1>1, <1>3 DEF RoundedRatio
    <2>2. (q + 1) * b = b * q + b
        BY <1>1
    <2>3. QED
        BY <1>1, <1>3, <2>1, <2>2
<1>4. QED
    BY <1>2, <1>3 DEF RoundedRatio

-----------------------------------------------------------------------------
\* What holds while the look-ups run.

\* The turn stays as it was made, and the seed script takes no table away.
TurnInv ==
    /\ turn \in Turns
    /\ DOMAIN pc = Calls /\ DOMAIN todo = Calls /\ DOMAIN found = Calls /\ DOMAIN answer = Calls
    /\ known \subseteq tables

\* A call waits only where its tool does, and asks BRouter only about a stretch that is
\* not in the catalog.
WaitsRight(c) ==
    /\ pc[c] # "done" => ValidCall(turn[c]) /\ answer[c] = NoAnswer
    /\ pc[c] \in {"geocode", "search"} => turn[c].tool \in Places
    /\ pc[c] = "search" => todo[c] # <<>>
    /\ pc[c] = "archive" => turn[c].tool = "get_weather"
    /\ pc[c] = "database" =>
          turn[c].tool \in {"find_accommodation", "get_weather", "get_elevation_profile"}
    /\ pc[c] \in {"pair", "brouter"} =>
          turn[c].tool = "get_elevation_profile" /\ ~ InCatalog(turn[c])

\* What the i-th search of the call found is among its places.
Covered(c, i) ==
    \E new \in Nearby(turn[c].town, Searches(turn[c])[i].types) : Ids(new) \subseteq Ids(found[c])

\* The searches still to make are the last ones; the others are covered.
SearchedRight(c) ==
    ValidCall(turn[c]) /\ turn[c].tool \in Places =>
        \E k \in 0..Len(Searches(turn[c])) :
            /\ todo[c] = SubSeq(Searches(turn[c]), k + 1, Len(Searches(turn[c])))
            /\ \A i \in 1..k : Covered(c, i)

\* An estimate knows no climb, and its difficulty tells a long day.
Questionable(a) ==
    a.source = "estimate" =>
        /\ a.km \in Nat /\ a.gain = 0
        /\ a.km > 1200 => a.difficulty \in {"hard", "extreme"}

Whole(c) ==
    answer[c].source = "live" =>
        \A i \in DOMAIN Searches(turn[c]) : Covered(c, i)

NotStubbed(call, a) ==
    ValidCall(call) /\ InCatalog(call) => a.source \in {"none", "live", "catalog", "tool_exception"}

CallInv(c) ==
    /\ WaitsRight(c)
    /\ SearchedRight(c)
    /\ Whole(c)
    /\ NotStubbed(turn[c], answer[c])
    /\ Questionable(answer[c])

LookupInv == TurnInv /\ \A c \in Calls : CallInv(c)

USE TurnsAssumption DEF TurnsAssumption

LEMMA CallsAreListed ==
    ASSUME NEW t \in Turns, NEW c \in DOMAIN t, ValidCall(t[c]), t[c].tool \in Places
    PROVE  \E S : Searches(t[c]) \in Seq(S)
    BY SearchesAreListed DEF Places

-----------------------------------------------------------------------------
\* A step answers a call, or moves it on.

\* A search that answers adds what it found and takes nothing away.
LEMMA MergeKeeps ==
    ASSUME NEW places, NEW new, NEW label
    PROVE  Ids(places) \cup Ids(new) \subseteq Ids(Merge(places, new, label))
<1>1. ASSUME NEW x \in Ids(new) PROVE x \in Ids(Merge(places, new, label))
    <2>1. PICK q \in new : x = q.id
        BY DEF Ids
    <2> DEFINE p == [id |-> q.id, kind |-> IF label = Inferred THEN InferAccommodationType(q.types)
                                           ELSE label]
    <2>2. p \in Merge(places, new, label) /\ p.id = x
        BY <2>1 DEF Merge
    <2> HIDE DEF p
    <2>3. QED
        BY <2>2 DEF Ids
<1>2. ASSUME NEW x \in Ids(places), x \notin Ids(new)
      PROVE  x \in Ids(Merge(places, new, label))
    <2>1. PICK p \in places : x = p.id
        BY DEF Ids
    <2>2. p \in Merge(places, new, label)
        BY <1>2, <2>1 DEF Merge, Ids
    <2>3. QED
        BY <2>1, <2>2 DEF Ids
<1>3. QED
    BY <1>1, <1>2

\* The other calls are left alone.
Moves(c) ==
    /\ c \in Calls
    /\ UNCHANGED <<asked, database>>
    /\ DOMAIN pc' = Calls /\ DOMAIN todo' = Calls /\ DOMAIN found' = Calls
    /\ DOMAIN answer' = Calls
    /\ \A d \in Calls \ {c} :
          pc'[d] = pc[d] /\ todo'[d] = todo[d] /\ found'[d] = found[d] /\ answer'[d] = answer[d]

LEMMA MovesKeep ==
    ASSUME LookupInv, NEW c, Moves(c), CallInv(c)'
    PROVE  LookupInv'
<1>1. turn' = turn /\ known' = known /\ tables' = tables /\ Calls' = Calls
    BY DEF Moves, asked, database, Calls
<1>2. TurnInv'
    BY <1>1 DEF LookupInv, TurnInv, Moves, Calls
<1>3. ASSUME NEW d \in Calls, d # c PROVE CallInv(d)'
    <2>1. CallInv(d)
        BY DEF LookupInv
    <2>2. pc'[d] = pc[d] /\ todo'[d] = todo[d] /\ found'[d] = found[d] /\ answer'[d] = answer[d]
        BY <1>3 DEF Moves
    <2>3. InCatalog(turn[d])' = InCatalog(turn[d])
        BY <1>1 DEF InCatalog
    <2>4. WaitsRight(d)'
        BY <1>1, <2>1, <2>2, <2>3 DEF CallInv, WaitsRight
    <2>5. \A i : Covered(d, i)' = Covered(d, i)
        BY <1>1, <2>2 DEF Covered
    <2>6. SearchedRight(d)' /\ Whole(d)'
        BY <1>1, <2>1, <2>2, <2>5 DEF CallInv, SearchedRight, Whole
    <2>7. NotStubbed(turn[d], answer[d])' /\ Questionable(answer[d])'
        BY <1>1, <2>1, <2>2, <2>3 DEF CallInv, NotStubbed, Questionable
    <2>8. QED
        BY <2>4, <2>6, <2>7 DEF CallInv
<1>4. QED
    BY <1>1, <1>2, <1>3 DEF LookupInv

LEMMA AnswerKeeps ==
    ASSUME LookupInv, NEW c \in Calls, NEW what,
           Answer(c, what), UNCHANGED <<asked, database, todo, found>>,
           NotStubbed(turn[c], what), Questionable(what),
           what.source = "live" => \A i \in DOMAIN Searches(turn[c]) : Covered(c, i)
    PROVE  LookupInv'
<1>1. /\ turn' = turn /\ known' = known /\ Calls' = Calls
      /\ todo' = todo /\ found' = found
    BY DEF asked, Calls
<1>2. CallInv(c) /\ TurnInv
    BY DEF LookupInv
<1>3. pc'[c] = "done" /\ answer'[c] = what /\ Moves(c)
    BY <1>1, <1>2 DEF TurnInv, Moves, Answer
<1>4. InCatalog(turn[c])' = InCatalog(turn[c])
    BY <1>1 DEF InCatalog
<1>5. \A i : Covered(c, i)' = Covered(c, i)
    BY <1>1 DEF Covered
<1>6. WaitsRight(c)'
    BY <1>3 DEF WaitsRight
<1>7. SearchedRight(c)' /\ Whole(c)'
    BY <1>1, <1>2, <1>3, <1>5 DEF CallInv, SearchedRight, Whole
<1>8. NotStubbed(turn[c], answer[c])' /\ Questionable(answer[c])'
    BY <1>1, <1>3, <1>4 DEF NotStubbed, Questionable
<1>9. QED
    BY <1>3, <1>6, <1>7, <1>8, MovesKeep DEF CallInv

LEMMA WaitKeeps ==
    ASSUME LookupInv, NEW c \in Calls, NEW where, pc[c] # "done",
           Wait(c, where), UNCHANGED <<asked, database, todo, found>>,
           \/ where = "search" /\ turn[c].tool \in Places /\ todo[c] # <<>>
           \/ /\ where = "database"
              /\ turn[c].tool \in {"find_accommodation", "get_weather", "get_elevation_profile"}
           \/ /\ where \in {"pair", "brouter"}
              /\ turn[c].tool = "get_elevation_profile" /\ ~ InCatalog(turn[c])
    PROVE  LookupInv'
<1>1. /\ turn' = turn /\ known' = known /\ Calls' = Calls
      /\ todo' = todo /\ found' = found /\ answer' = answer
    BY DEF asked, Calls, Wait
<1>2. CallInv(c) /\ TurnInv
    BY DEF LookupInv
<1>3. pc'[c] = where /\ Moves(c)
    BY <1>1, <1>2 DEF TurnInv, Moves, Wait
<1>4. InCatalog(turn[c])' = InCatalog(turn[c])
    BY <1>1 DEF InCatalog
<1>5. \A i : Covered(c, i)' = Covered(c, i)
    BY <1>1 DEF Covered
<1>6. WaitsRight(c)'
    BY <1>1, <1>2, <1>3, <1>4 DEF CallInv, WaitsRight
<1>7. SearchedRight(c)' /\ Whole(c)'
    BY <1>1, <1>2, <1>5 DEF CallInv, SearchedRight, Whole
<1>8. NotStubbed(turn[c], answer[c])' /\ Questionable(answer[c])'
    BY <1>1, <1>2, <1>4 DEF CallInv, NotStubbed, Questionable
<1>9. QED
    BY <1>3, <1>6, <1>7, <1>8, MovesKeep DEF CallInv

\* What the code lists itself is never a stub for a town it knows.
LEMMA PoiAnswerIsFair ==
    ASSUME NEW call, call.tool = "get_points_of_interest"
    PROVE  /\ NotStubbed(call, PoiAnswer(call)) /\ Questionable(PoiAnswer(call))
           /\ PoiAnswer(call).source # "live"
<1>1. PoiAnswer(call).source = IF call.town \in DOMAIN PoiCatalog THEN "catalog" ELSE "stub"
    BY DEF PoiAnswer, ListedAnswer
<1>2. InCatalog(call) => call.town \in DOMAIN PoiCatalog
    BY DEF InCatalog
<1>3. QED
    BY <1>1, <1>2 DEF NotStubbed, Questionable

LEMMA GiveUpPlacesKeeps ==
    ASSUME LookupInv, NEW c \in Calls, pc[c] \in {"geocode", "search"},
           GiveUpPlaces(c), UNCHANGED <<asked, database, todo, found>>
    PROVE  LookupInv'
<1>1. turn[c].tool \in Places
    BY DEF LookupInv, CallInv, WaitsRight
<1>2. CASE turn[c].tool = "find_accommodation"
    BY <1>2, WaitKeeps DEF GiveUpPlaces
<1>3. CASE turn[c].tool = "get_points_of_interest"
    <2>1. Answer(c, PoiAnswer(turn[c]))
        BY <1>3 DEF GiveUpPlaces
    <2>2. QED
        BY <1>3, <2>1, AnswerKeeps, PoiAnswerIsFair
<1>4. QED
    BY <1>1, <1>2, <1>3 DEF Places

LEMMA GeocodedKeeps ==
    ASSUME LookupInv, NEW c \in Calls, Geocoded(c) PROVE LookupInv'
<1>1. CASE todo[c] = <<>>
    BY <1>1, GiveUpPlacesKeeps DEF Geocoded
<1>2. CASE todo[c] # <<>>
    <2>1. turn[c].tool \in Places
        BY DEF LookupInv, CallInv, WaitsRight, Geocoded
    <2>2. QED
        BY <1>2, <2>1, WaitKeeps DEF Geocoded
<1>3. QED
    BY <1>1, <1>2

LEMMA PlacesFailKeeps ==
    ASSUME LookupInv, NEW c \in Calls, GeocodeFails(c) \/ SearchFails(c) PROVE LookupInv'
    BY GiveUpPlacesKeeps DEF GeocodeFails, SearchFails, searched

LEMMA ArchiveKeeps ==
    ASSUME LookupInv, NEW c \in Calls, ArchiveAnswers(c) PROVE LookupInv'
<1>1. turn[c].tool = "get_weather"
    BY DEF LookupInv, CallInv, WaitsRight, ArchiveAnswers
<1>2. CASE Answer(c, [source |-> "live"])
    <2>1. Searches(turn[c]) = <<>>
        BY <1>1 DEF Searches
    <2>2. QED
        BY <1>2, <2>1, AnswerKeeps DEF ArchiveAnswers, NotStubbed, Questionable, searched
<1>3. CASE Wait(c, "database")
    BY <1>1, <1>3, WaitKeeps DEF ArchiveAnswers, searched
<1>4. QED
    BY <1>2, <1>3 DEF ArchiveAnswers

\* The tables had the catalog when the call was made, and have it still.
LEMMA RowsReadKeeps ==
    ASSUME LookupInv, NEW c \in Calls, RowsRead(c) PROVE LookupInv'
<1> DEFINE call == turn[c]
<1>1. /\ pc[c] = "database" /\ UNCHANGED <<asked, database, todo, found>>
      /\ known \subseteq tables
    BY DEF LookupInv, TurnInv, RowsRead, searched
<1>2. call.tool \in {"find_accommodation", "get_weather", "get_elevation_profile"}
    BY <1>1 DEF LookupInv, CallInv, WaitsRight
<1>3. CASE call.tool = "find_accommodation"
    <2>1. Answer(c, LodgingAnswer(call))
        BY <1>3 DEF RowsRead
    <2>2. LodgingAnswer(call).source =
             IF "accommodations" \in tables /\ call.town \in DOMAIN LodgingCatalog
             THEN "catalog" ELSE "stub"
        BY DEF LodgingAnswer, ListedAnswer
    <2>3. InCatalog(call) => "accommodations" \in known /\ call.town \in DOMAIN LodgingCatalog
        BY <1>3 DEF InCatalog
    <2>4. NotStubbed(call, LodgingAnswer(call)) /\ Questionable(LodgingAnswer(call))
        BY <1>1, <2>2, <2>3 DEF NotStubbed, Questionable
    <2>5. QED
        BY <1>1, <2>1, <2>2, <2>4, AnswerKeeps
<1>4. CASE call.tool = "get_weather"
    <2>1. Answer(c, WeatherAnswer(call))
        BY <1>4 DEF RowsRead
    <2>2. InCatalog(call) => "weather_norms" \in known /\ <<call.town, call.month>> \in Climate
        BY <1>4 DEF InCatalog
    <2>3. NotStubbed(call, WeatherAnswer(call)) /\ Questionable(WeatherAnswer(call))
          /\ WeatherAnswer(call).source # "live"
        BY <1>1, <2>2 DEF NotStubbed, Questionable, WeatherAnswer
    <2>4. QED
        BY <1>1, <2>1, <2>3, AnswerKeeps
<1>5. CASE call.tool = "get_elevation_profile"
    <2>1. CASE SegmentRow(call) = {} /\ Wait(c, "pair")
        <3>1. ~ InCatalog(call)
            BY <1>1, <1>5, <2>1 DEF InCatalog, SegmentRow
        <3>2. QED
            BY <1>1, <1>5, <2>1, <3>1, WaitKeeps
    <2>2. ASSUME NEW s \in SegmentRow(call),
                 Answer(c, Terrain("catalog", s.km, s.gain, s.loss, s.grade, s.difficulty))
          PROVE  LookupInv'
        BY <1>1, <2>2, AnswerKeeps DEF NotStubbed, Questionable, Terrain
    <2>3. QED
        BY <1>5, <2>1, <2>2 DEF RowsRead
<1>6. QED
    BY <1>2, <1>3, <1>4, <1>5

LEMMA RaisesKeeps ==
    ASSUME LookupInv, NEW c \in Calls, Raises(c) PROVE LookupInv'
    BY AnswerKeeps DEF Raises, NotStubbed, Questionable, searched

\* Where nothing is known of a stretch, it was not in the catalog.
LEMMA PairGeocodedKeeps ==
    ASSUME LookupInv, NEW c \in Calls, PairGeocoded(c) PROVE LookupInv'
<1>1. pc[c] = "pair" /\ turn[c].tool = "get_elevation_profile" /\ ~ InCatalog(turn[c])
    BY DEF LookupInv, CallInv, WaitsRight, PairGeocoded
<1>2. CASE Wait(c, "brouter")
    BY <1>1, <1>2, WaitKeeps DEF PairGeocoded, searched
<1>3. CASE Answer(c, Terrain("stub", 800, 150, 150, 30, "moderate"))
    BY <1>1, <1>3, AnswerKeeps DEF PairGeocoded, searched, NotStubbed, Questionable, Terrain
<1>4. QED
    BY <1>2, <1>3 DEF PairGeocoded

\* A length of 1.25 times the great circle, and no climb.
LEMMA EstimateIsFair ==
    ASSUME LookupInv, NEW c \in Calls, pc[c] = "brouter"
    PROVE  /\ NotStubbed(turn[c], Estimate(turn[c])) /\ Questionable(Estimate(turn[c]))
           /\ Estimate(turn[c]).source # "live"
<1> DEFINE circle == GreatCircle(turn[c].town, turn[c].to)
           km == RoundedRatio(5 * circle, 4)
<1>1. turn[c].tool = "get_elevation_profile" /\ ~ InCatalog(turn[c]) /\ turn \in Turns
    BY DEF LookupInv, CallInv, WaitsRight, TurnInv
<1>2. circle \in Nat
    BY <1>1, GreatCircleAssumption DEF GreatCircleAssumption, Calls
<1>3. 5 * circle \in Nat
    BY <1>2
<1>4. km \in Nat
    BY <1>3, RoundedRatioIsNearest
<1>5. Estimate(turn[c]) = Terrain("estimate", km, 0, 0, 0, DifficultyFromDistance(km))
    BY DEF Estimate
<1> HIDE DEF km
<1>6. km > 1200 => DifficultyFromDistance(km) \in {"hard", "extreme"}
    BY <1>4 DEF DifficultyFromDistance
<1>7. QED
    BY <1>1, <1>4, <1>5, <1>6 DEF Terrain, NotStubbed, Questionable

LEMMA RiddenKeeps ==
    ASSUME LookupInv, NEW c \in Calls, Ridden(c) PROVE LookupInv'
<1>1. pc[c] = "brouter" /\ ~ InCatalog(turn[c]) /\ UNCHANGED <<asked, database, todo, found>>
    BY DEF LookupInv, CallInv, WaitsRight, Ridden, searched
<1>2. CASE Answer(c, Estimate(turn[c]))
    BY <1>1, <1>2, EstimateIsFair, AnswerKeeps
<1>3. ASSUME NEW ride, Answer(c, RideAnswer(ride)) PROVE LookupInv'
    <2>1. RideAnswer(ride).source \in {"tool_exception", "brouter"}
        BY DEF RideAnswer, Terrain
    <2>2. NotStubbed(turn[c], RideAnswer(ride)) /\ Questionable(RideAnswer(ride))
          /\ RideAnswer(ride).source # "live"
        BY <1>1, <2>1 DEF NotStubbed, Questionable
    <2>3. QED
        BY <1>1, <1>3, <2>2, AnswerKeeps
<1>4. QED
    BY <1>2, <1>3 DEF Ridden

LEMMA RideFailsKeeps ==
    ASSUME LookupInv, NEW c \in Calls, RideFails(c) PROVE LookupInv'
    BY EstimateIsFair, AnswerKeeps DEF RideFails, searched

\* What a list of searches leaves to do when its first one is made.
LEMMA RestOfList ==
    ASSUME NEW S, NEW s \in Seq(S), NEW k \in 0..Len(s),
           SubSeq(s, k + 1, Len(s)) # <<>>
    PROVE  LET rest == SubSeq(s, k + 1, Len(s))
           IN  /\ k + 1 \in 1..Len(s)
               /\ Head(rest) = s[k + 1]
               /\ Tail(rest) = SubSeq(s, k + 2, Len(s))
               /\ Len(rest) = Len(s) - k
<1>1. k + 1 \in 1..Len(s)
    OBVIOUS
<1>2. Len(SubSeq(s, k + 1, Len(s))) = Len(s) - k
    BY <1>1
<1>3. Head(SubSeq(s, k + 1, Len(s))) = s[k + 1]
    BY <1>1
<1>4. Tail(SubSeq(s, k + 1, Len(s))) = SubSeq(s, k + 2, Len(s))
    <2> DEFINE rest == SubSeq(s, k + 1, Len(s))
               less == SubSeq(s, k + 2, Len(s))
    <2>1. \A i \in (k + 1)..Len(s) : s[i] \in S
        BY <1>1
    <2>2. /\ rest \in Seq(S) /\ rest # <<>>
          /\ \A i \in 1..(Len(s) - k) : rest[i] = s[k + i]
        <3>1. k + 1 \in Int /\ Len(s) \in Int
            BY <1>1
        <3>2. rest \in Seq(S) /\ \A i \in 1..(Len(s) - (k + 1) + 1) : rest[i] = s[(k + 1) + i - 1]
            BY <2>1, <3>1, SubSeqProperties
        <3> HIDE DEF rest
        <3>3. QED
            BY <1>1, <3>1, <3>2 DEF rest
    <2>3. /\ less \in Seq(S) /\ Len(less) = Len(s) - (k + 1)
          /\ \A i \in 1..(Len(s) - (k + 1)) : less[i] = s[k + 1 + i]
        <3>1. k + 2 \in Int /\ Len(s) \in Int /\ \A i \in (k + 2)..Len(s) : s[i] \in S
            BY <1>1
        <3>2. /\ less \in Seq(S)
              /\ Len(less) = IF k + 2 <= Len(s) THEN Len(s) - (k + 2) + 1 ELSE 0
              /\ \A i \in 1..(Len(s) - (k + 2) + 1) : less[i] = s[(k + 2) + i - 1]
            BY <3>1, SubSeqProperties
        <3> HIDE DEF less
        <3>3. QED
            BY <1>1, <3>1, <3>2
    <2>4. Len(rest) = Len(s) - k
        BY <1>2
    <2> HIDE DEF rest, less
    <2>5. /\ Tail(rest) \in Seq(S) /\ Len(Tail(rest)) = Len(s) - (k + 1)
          /\ \A i \in 1..Len(Tail(rest)) : Tail(rest)[i] = rest[i + 1]
        BY <1>1, <2>2, <2>4, HeadTailProperties
    <2>6. ASSUME NEW i \in 1..Len(Tail(rest)) PROVE Tail(rest)[i] = less[i]
        <3>1. i \in Int /\ i + 1 \in 1..(Len(s) - k) /\ i \in 1..(Len(s) - (k + 1))
            BY <1>1, <2>5
        <3>2. Tail(rest)[i] = s[k + (i + 1)] /\ less[i] = s[k + 1 + i]
            BY <2>2, <2>3, <2>5, <2>6, <3>1
        <3>3. k + (i + 1) = k + 1 + i
            BY <3>1
        <3>4. QED
            BY <3>2, <3>3
    <2>7. Tail(rest) = less
        BY <2>3, <2>5, <2>6, SeqEqual
    <2>8. QED
        BY <2>7 DEF rest, less
<1>5. QED
    BY <1>1, <1>2, <1>3, <1>4

\* The list gets shorter by one search, and the places found cover it.
LEMMA SearchAnswersKeeps ==
    ASSUME LookupInv, NEW c \in Calls, SearchAnswers(c) PROVE LookupInv'
<1> DEFINE S == Searches(turn[c])
<1>1. /\ pc[c] = "search" /\ UNCHANGED <<asked, database>>
      /\ turn' = turn /\ Calls' = Calls /\ known' = known
    BY DEF SearchAnswers, asked, Calls
<1>2. ValidCall(turn[c]) /\ turn[c].tool \in Places /\ todo[c] # <<>> /\ TurnInv
      /\ answer[c] = NoAnswer
    BY <1>1 DEF LookupInv, CallInv, WaitsRight
<1>3. PICK E : S \in Seq(E)
    BY <1>2, CallsAreListed DEF TurnInv, Calls
<1>4. PICK k \in 0..Len(S) : todo[c] = SubSeq(S, k + 1, Len(S)) /\ \A i \in 1..k : Covered(c, i)
    BY <1>2 DEF LookupInv, CallInv, SearchedRight
<1>5. PICK new \in Nearby(turn[c].town, Head(todo[c]).types) :
         found' = [found EXCEPT ![c] = Merge(@, new, Head(todo[c]).label)]
    BY DEF SearchAnswers
<1>6. todo'[c] = Tail(todo[c]) /\ found'[c] = Merge(found[c], new, Head(todo[c]).label)
    BY <1>2, <1>5 DEF SearchAnswers, TurnInv
<1> HIDE DEF S
<1>7. /\ k + 1 \in 1..Len(S) /\ Len(S) \in Nat
      /\ Head(todo[c]) = S[k + 1] /\ Tail(todo[c]) = SubSeq(S, k + 2, Len(S))
      /\ Len(todo[c]) = Len(S) - k
    <2>1. PICK s \in Seq(E) : s = S
        BY <1>3
    <2>2. PICK n \in Nat : n = k
        BY <1>3
    <2>3. n \in 0..Len(s) /\ SubSeq(s, n + 1, Len(s)) # <<>>
        BY <1>2, <1>4, <2>1, <2>2
    <2>4. /\ n + 1 \in 1..Len(s)
          /\ Head(SubSeq(s, n + 1, Len(s))) = s[n + 1]
          /\ Tail(SubSeq(s, n + 1, Len(s))) = SubSeq(s, n + 2, Len(s))
          /\ Len(SubSeq(s, n + 1, Len(s))) = Len(s) - n
        BY <2>3, RestOfList
    <2>5. Len(s) \in Nat
        OBVIOUS
    <2>6. QED
        BY <1>4, <2>1, <2>2, <2>4, <2>5
<1>8. Ids(found[c]) \cup Ids(new) \subseteq Ids(found'[c])
    BY <1>6, MergeKeeps
<1>9. \A i \in 1..(k + 1) : Covered(c, i)'
    <2>1. ASSUME NEW i \in 1..k PROVE Covered(c, i)'
        BY <1>1, <1>4, <1>8 DEF Covered
    <2>2. Covered(c, k + 1)'
        BY <1>1, <1>7, <1>8 DEF Covered, S
    <2>3. QED
        BY <2>1, <2>2, <1>7
<1>10. SearchedRight(c)'
    <2>1. k + 1 \in 0..Len(S) /\ todo'[c] = SubSeq(S, (k + 1) + 1, Len(S))
        <3>1. k + 1 \in 0..Len(S) /\ (k + 1) + 1 = k + 2
            BY <1>7
        <3>2. QED
            BY <1>6, <1>7, <3>1
    <2>2. S' = S
        BY <1>1 DEF S
    <2>3. QED
        BY <1>1, <1>9, <2>1, <2>2 DEF SearchedRight, S
<1>11. Moves(c)
    BY <1>1, <1>2, <1>5 DEF Moves, TurnInv, SearchAnswers, Wait, Answer
<1>12. CASE Len(todo[c]) > 1 /\ Wait(c, "search")
    <2>1. pc'[c] = "search" /\ answer'[c] = answer[c]
        BY <1>2, <1>12 DEF Wait, TurnInv
    <2>2. todo'[c] # <<>>
        <3>1. Len(todo'[c]) = Len(S) - (k + 1)
            BY <1>3, <1>6, <1>7
        <3>2. QED
            BY <3>1, <1>7, <1>12
    <2>3. WaitsRight(c)'
        BY <1>1, <1>2, <2>1, <2>2 DEF WaitsRight
    <2>4. Whole(c)' /\ NotStubbed(turn[c], answer[c])' /\ Questionable(answer[c])'
        BY <1>2, <2>1 DEF Whole, NotStubbed, Questionable, NoAnswer
    <2>5. QED
        BY <1>10, <1>11, <2>3, <2>4, MovesKeep DEF CallInv
<1>13. ASSUME ~ (Len(todo[c]) > 1),
              NEW what \in LiveAnswers(turn[c], found'[c]), Answer(c, what)
       PROVE  LookupInv'
    <2>1. pc'[c] = "done" /\ answer'[c] = what /\ what.source = "live"
        BY <1>2, <1>13 DEF Answer, TurnInv, LiveAnswers
    <2>2. WaitsRight(c)'
        BY <2>1 DEF WaitsRight
    <2>3. Whole(c)'
        <3>1. k + 1 = Len(S) /\ DOMAIN S = 1..(k + 1)
            BY <1>3, <1>7, <1>13
        <3>2. S' = S
            BY <1>1 DEF S
        <3>3. QED
            BY <1>9, <3>1, <3>2 DEF Whole, S
    <2>4. NotStubbed(turn[c], answer[c])' /\ Questionable(answer[c])'
        BY <2>1 DEF NotStubbed, Questionable
    <2>5. QED
        BY <1>10, <1>11, <2>2, <2>3, <2>4, MovesKeep DEF CallInv
<1>14. QED
    BY <1>12, <1>13 DEF SearchAnswers

LEMMA InitLookupInv == Init => LookupInv
<1> SUFFICES ASSUME Init PROVE LookupInv
    OBVIOUS
<1>1. TurnInv
    BY DEF Init, TurnInv, Calls
<1>2. ASSUME NEW c \in Calls PROVE CallInv(c)
    <2> DEFINE call == turn[c]
    <2>1. /\ pc[c] = FirstWait(call) /\ todo[c] = Searches(call)
          /\ answer[c] = IF pc[c] = "done" THEN AnswerAtOnce(call) ELSE NoAnswer
          /\ turn \in Turns
        BY DEF Init
    <2>2. WaitsRight(c)
        <3>1. CASE ~ ValidCall(call)
            BY <2>1, <3>1 DEF FirstWait, WaitsRight
        <3>2. CASE ValidCall(call) /\ call.tool \in Places
            <4>1. pc[c] = PlacesWait(call, IF call.tool = "find_accommodation"
                                            THEN "database" ELSE "done")
                BY <2>1, <3>2 DEF FirstWait, Places
            <4>2. pc[c] \in {"geocode", "search", "database", "done"}
                  /\ (pc[c] = "search" => Searches(call) # <<>>)
                  /\ (pc[c] = "database" => call.tool = "find_accommodation")
                BY <4>1 DEF PlacesWait
            <4>3. QED
                BY <2>1, <3>2, <4>2 DEF WaitsRight
        <3>3. CASE ValidCall(call) /\ call.tool \notin Places
            BY <2>1, <3>3 DEF FirstWait, WaitsRight, Places
        <3>4. QED
            BY <3>1, <3>2, <3>3
    <2>3. SearchedRight(c)
        <3>1. ASSUME ValidCall(call), call.tool \in Places
              PROVE  \E k \in 0..Len(Searches(call)) :
                        /\ todo[c] = SubSeq(Searches(call), k + 1, Len(Searches(call)))
                        /\ \A i \in 1..k : Covered(c, i)
            <4>1. PICK S : Searches(call) \in Seq(S)
                BY <2>1, <3>1, CallsAreListed DEF Calls
            <4>2. /\ 0 \in 0..Len(Searches(call)) /\ 1..0 = {} /\ 0 + 1 = 1
                  /\ SubSeq(Searches(call), 1, Len(Searches(call))) = Searches(call)
                BY <4>1, SubSeqFull
            <4>3. QED
                BY <2>1, <4>2
        <3>2. QED
            BY <3>1 DEF SearchedRight
    <2>4. CASE pc[c] # "done"
        BY <2>1, <2>2, <2>3, <2>4 DEF CallInv, Whole, NotStubbed, Questionable, NoAnswer
    <2>5. CASE pc[c] = "done"
        <3>1. CASE ~ ValidCall(call)
            <4>1. answer[c].source = "invalid_arguments"
                BY <2>1, <2>5, <3>1 DEF AnswerAtOnce
            <4>2. QED
                BY <2>2, <2>3, <3>1, <4>1 DEF CallInv, Whole, NotStubbed, Questionable
        <3>2. CASE ValidCall(call) /\ call.tool = "get_points_of_interest"
            <4>1. answer[c] = PoiAnswer(call)
                BY <2>1, <2>5, <3>2 DEF AnswerAtOnce
            <4>2. QED
                BY <2>2, <2>3, <3>2, <4>1, PoiAnswerIsFair DEF CallInv, Whole
        <3>3. CASE ValidCall(call) /\ call.tool # "get_points_of_interest"
            <4>1. call.tool \notin
                     {"find_accommodation", "get_weather", "get_elevation_profile"}
                BY <2>1, <2>5, <3>3 DEF FirstWait, PlacesWait
            <4>2. ~ InCatalog(call)
                BY <3>3, <4>1 DEF InCatalog
            <4>3. answer[c].source \notin {"live", "estimate"}
                BY <2>1, <2>5, <3>3 DEF AnswerAtOnce
            <4>4. QED
                BY <2>2, <2>3, <4>2, <4>3 DEF CallInv, Whole, NotStubbed, Questionable
        <3>4. QED
            BY <3>1, <3>2, <3>3
    <2>6. QED
        BY <2>4, <2>5
<1>3. QED
    BY <1>1, <1>2 DEF LookupInv

LEMMA ProgressKeeps ==
    ASSUME LookupInv, NEW c \in Calls, Progress(c) PROVE LookupInv'
    BY GeocodedKeeps, PlacesFailKeeps, SearchAnswersKeeps, ArchiveKeeps, RowsReadKeeps,
       RaisesKeeps, PairGeocodedKeeps, RiddenKeeps, RideFailsKeeps
    DEF Progress

\* The seed script only adds tables; no answer depends on the ones that were there.
LEMMA TablesGrow ==
    ASSUME LookupInv, UNCHANGED <<asked, todo, found, pc, answer>>, tables \subseteq tables'
    PROVE  LookupInv'
<1>1. /\ turn' = turn /\ known' = known /\ Calls' = Calls
      /\ todo' = todo /\ found' = found /\ pc' = pc /\ answer' = answer
    BY DEF asked, Calls
<1>2. TurnInv'
    BY <1>1 DEF LookupInv, TurnInv
<1>3. ASSUME NEW c \in Calls PROVE CallInv(c)'
    <2>1. CallInv(c)
        BY DEF LookupInv
    <2>2. InCatalog(turn[c])' = InCatalog(turn[c])
        BY <1>1 DEF InCatalog
    <2>3. \A i : Covered(c, i)' = Covered(c, i)
        BY <1>1 DEF Covered
    <2>4. WaitsRight(c)'
        BY <1>1, <2>1, <2>2 DEF CallInv, WaitsRight
    <2>5. SearchedRight(c)' /\ Whole(c)'
        BY <1>1, <2>1, <2>3 DEF CallInv, SearchedRight, Whole
    <2>6. NotStubbed(turn[c], answer[c])' /\ Questionable(answer[c])'
        BY <1>1, <2>1, <2>2 DEF CallInv, NotStubbed, Questionable
    <2>7. QED
        BY <2>4, <2>5, <2>6 DEF CallInv
<1>4. QED
    BY <1>1, <1>2, <1>3 DEF LookupInv

LEMMA SeedingKeeps ==
    ASSUME LookupInv, Seeding PROVE LookupInv'
    BY TablesGrow DEF Seeding, SeedStarts, SeedTable, SeedCrashes, searched

LEMMA LookupNext ==
    ASSUME LookupInv, [TripNext]_<<vars, review>> PROVE LookupInv'
<1>1. CASE UNCHANGED vars
    BY <1>1, TablesGrow DEF vars, asked
<1>2. ASSUME NEW c \in AllCalls, Step(c) PROVE LookupInv'
    BY <1>2, ProgressKeeps DEF Step
<1>3. QED
    BY <1>1, <1>2, SeedingKeeps DEF TripNext, Draft

LEMMA LookupsKeepInv == Spec => []LookupInv
<1>1. TripInit => LookupInv
    BY InitLookupInv DEF TripInit
<1>2. QED
    BY <1>1, LookupNext, PTL DEF Spec

-----------------------------------------------------------------------------
\* A live answer rests on all the searches of its call, however many of them fail or
\* are still to come for the other calls of the turn.
THEOREM LiveAnswersAreWhole == Spec => []LiveIsWhole
<1>1. LookupInv => LiveIsWhole
    BY DEF LookupInv, CallInv, Whole, Covered, LiveIsWhole
<1>2. QED
    BY <1>1, LookupsKeepInv, PTL

\* What was in the catalog is answered from it, from live data or with an error, never
\* with a stub or an estimate, while sources fail and the seed script runs.
THEOREM CatalogIsUsed == Spec => []CataloguedNeverStubbed
<1>1. LookupInv => CataloguedNeverStubbed
    BY DEF LookupInv, CallInv, NotStubbed, CataloguedNeverStubbed
<1>2. QED
    BY <1>1, LookupsKeepInv, PTL

-----------------------------------------------------------------------------
\* Drafts

\* The calls of a tool make a list.
LEMMA CallsOfTool ==
    ASSUME TurnInv, NEW tool
    PROVE  /\ CallsOf(tool) \in Seq(Calls)
           /\ DOMAIN CallsOf(tool) = 1..Len(CallsOf(tool)) /\ Len(CallsOf(tool)) \in Nat
<1> DEFINE all == [c \in Calls |-> c]
           these == {c \in Calls : turn[c].tool = tool}
<1>1. Calls = 1..Len(turn) /\ Len(turn) \in Nat
    BY DEF TurnInv, Calls, IsList
<1>2. PICK n \in Nat : Calls = 1..n
    BY <1>1
<1>3. Len(all) = n
    BY <1>2
<1>4. Len(all) \in Nat /\ \A i \in 1..Len(all) : all[i] \in Calls
    BY <1>2, <1>3
<1>5. CallsOf(tool) = Picked(all, these)
    BY DEF CallsOf
<1> HIDE DEF all, these
<1>6. CallsOf(tool) \in Seq(Calls)
    BY <1>4, <1>5, PickedIsList
<1>7. QED
    BY <1>6

\* What the two tools were given: one day for each stretch, each with a bed that was
\* offered.
DraftInv ==
    draft # <<>> =>
        /\ Answered
        /\ \E nights \in [DOMAIN Legs -> Lodgings \cup {NoLodging}] :
              /\ \A k \in DOMAIN Legs : nights[k] \in Beds(wish.preference, k)
              /\ draft = Drafted(nights)
        /\ issues = CritiqueTripPlan(draft, wish.target, wish.preference)

\* Once all calls are answered, nothing that a draft is made of changes.
LEMMA DraftNext ==
    ASSUME DraftInv, [TripNext]_<<vars, review>> PROVE DraftInv'
<1>1. ASSUME UNCHANGED <<turn, pc, answer>>
      PROVE  /\ Calls' = Calls /\ Legs' = Legs /\ Stays' = Stays
             /\ Answered' = Answered
             /\ \A k : BedsOffered(k)' = BedsOffered(k)
             /\ \A p, k : Beds(p, k)' = Beds(p, k)
             /\ \A leg : HasFerry(leg)' = HasFerry(leg)
             /\ \A nights : Drafted(nights)' = Drafted(nights)
    <2>1. Calls' = Calls
        BY <1>1 DEF Calls
    <2>2. Legs' = Legs /\ Stays' = Stays
        BY <1>1, <2>1 DEF Legs, Stays, CallsOf
    <2>3. Answered' = Answered
        BY <1>1, <2>1 DEF Answered
    <2>4. \A k : BedsOffered(k)' = BedsOffered(k)
        BY <1>1, <2>2 DEF BedsOffered
    <2>5. \A p, k : Beds(p, k)' = Beds(p, k)
        BY <2>2, <2>4 DEF Beds
    <2>6. \A leg : HasFerry(leg)' = HasFerry(leg)
        BY <1>1, <2>1 DEF HasFerry
    <2>7. \A nights : Drafted(nights)' = Drafted(nights)
        BY <1>1, <2>2, <2>6 DEF Drafted
    <2>8. QED
        BY <2>1, <2>2, <2>3, <2>4, <2>5, <2>6, <2>7
<1>2. ASSUME draft' = <<>> PROVE DraftInv'
    BY <1>2 DEF DraftInv
<1>3. CASE UNCHANGED <<vars, review>>
    <2>1. UNCHANGED <<turn, pc, answer>> /\ UNCHANGED review
        BY <1>3 DEF vars
    <2>2. QED
        BY <1>1, <2>1 DEF DraftInv, review
<1>4. ASSUME NEW c \in AllCalls, Step(c) PROVE DraftInv'
    <2>1. ~ Answered /\ draft' = draft
        BY <1>4 DEF Step, review, Answered, Progress, Geocoded, GeocodeFails, SearchAnswers,
                    SearchFails, ArchiveAnswers, RowsRead, PairGeocoded, Ridden,
                    RideFails, Raises
    <2>2. QED
        BY <1>2, <2>1 DEF DraftInv
<1>5. CASE ~ Answered /\ Seeding /\ UNCHANGED review
    BY <1>2, <1>5 DEF DraftInv, review
<1>6. ASSUME NEW w \in Wishes,
             NEW nights \in [DOMAIN Legs -> Lodgings \cup {NoLodging}], Draft(w, nights)
      PROVE  DraftInv'
    <2>1. UNCHANGED <<turn, pc, answer>>
        BY <1>6 DEF Draft, vars
    <2>2. /\ Answered /\ wish' = w /\ draft' = Drafted(nights)
          /\ \A k \in DOMAIN Legs : nights[k] \in Beds(w.preference, k)
          /\ issues' = CritiqueTripPlan(draft', w.target, w.preference)
        BY <1>6 DEF Draft
    <2>3. QED
        BY <1>1, <2>1, <2>2 DEF DraftInv
<1>7. QED
    BY <1>3, <1>4, <1>5, <1>6 DEF TripNext

LEMMA DraftsKeepInv == Spec => []DraftInv
<1>1. TripInit => DraftInv
    BY DEF TripInit, DraftInv
<1>2. QED
    BY <1>1, DraftNext, PTL DEF Spec

-----------------------------------------------------------------------------
\* The critique of a draft sees each of its days.

LEMMA InOrderHasAllDays ==
    ASSUME NEW n \in Nat, NEW drafted, DOMAIN drafted = 1..n,
           \A i \in 1..n : drafted[i].number = i
    PROVE  /\ DOMAIN InOrder(drafted) = 1..n /\ Len(InOrder(drafted)) = n
           /\ \A i \in 1..n : \E k \in 1..n : InOrder(drafted)[i] = drafted[k]
           /\ \A k \in 1..n : \E i \in 1..n : InOrder(drafted)[i] = drafted[k]
<1> DEFINE Sorts(p) == \A i, j \in DOMAIN drafted :
                          i < j => drafted[p[i]].number <= drafted[p[j]].number
           place == CHOOSE p \in Bijection(DOMAIN drafted, DOMAIN drafted) : Sorts(p)
           same == [i \in 1..n |-> i]
<1>1. same \in Bijection(1..n, 1..n)
    BY DEF Bijection, Injection, Surjection, IsInjective
<1>2. Sorts(same)
    <2>1. \A i \in 1..n : same[i] = i /\ i \in Nat
        OBVIOUS
    <2> HIDE DEF same
    <2>2. QED
        BY <2>1
<1> HIDE DEF same, Sorts
<1>3. place \in Bijection(1..n, 1..n)
    BY <1>1, <1>2
<1>4. InOrder(drafted) = [i \in 1..n |-> drafted[place[i]]]
    BY DEF InOrder, Sorts
<1> HIDE DEF place
<1>5. place \in [1..n -> 1..n] /\ \A k \in 1..n : \E i \in 1..n : place[i] = k
    BY <1>3 DEF Bijection, Surjection
<1>6. DOMAIN InOrder(drafted) = 1..n /\ Len(InOrder(drafted)) = n
    BY <1>4
<1>7. PICK sorted : sorted = InOrder(drafted)
    OBVIOUS
<1>8. \A i \in 1..n : sorted[i] = drafted[place[i]] /\ place[i] \in 1..n
    BY <1>4, <1>5, <1>7
<1>9. \A i \in 1..n : \E k \in 1..n : sorted[i] = drafted[k]
    BY <1>8
<1>10. ASSUME NEW k \in 1..n PROVE \E i \in 1..n : sorted[i] = drafted[k]
    <2>1. PICK i \in 1..n : place[i] = k
        BY <1>5
    <2>2. sorted[i] = drafted[k]
        BY <1>8, <2>1
    <2>3. QED
        BY <2>2
<1>11. QED
    BY <1>6, <1>7, <1>9, <1>10

\* The days a draft goes through, and their terrain.
LEMMA DraftedDays ==
    ASSUME LookupInv, DraftInv, draft # <<>>
    PROVE  LET n    == Len(Legs)
               days == InOrder(draft)
           IN  /\ n \in Nat /\ DOMAIN draft = 1..n /\ DOMAIN Legs = 1..n
               /\ \A k \in 1..n :
                     /\ Legs[k] \in Calls
                     /\ draft[k].number = k
                     /\ draft[k].lodging \in Beds(wish.preference, k)
                     /\ draft[k].km = answer[Legs[k]].km
                     /\ draft[k].gain = answer[Legs[k]].gain
                     /\ draft[k].difficulty = answer[Legs[k]].difficulty
               /\ DOMAIN days = 1..n /\ Len(days) = n
               /\ \A i \in 1..n : \E k \in 1..n : days[i] = draft[k]
               /\ \A k \in 1..n : \E i \in 1..n : days[i] = draft[k]
<1>1. Legs \in Seq(Calls) /\ DOMAIN Legs = 1..Len(Legs) /\ Len(Legs) \in Nat
    BY CallsOfTool DEF LookupInv, Legs
<1>2. PICK nights : /\ \A k \in DOMAIN Legs : nights[k] \in Beds(wish.preference, k)
                    /\ draft = Drafted(nights)
    BY DEF DraftInv
<1>3. PICK n \in Nat : n = Len(Legs)
    BY <1>1
<1>4. DOMAIN draft = 1..n
    BY <1>1, <1>2, <1>3 DEF Drafted
<1>5. ASSUME NEW k \in 1..n
      PROVE  /\ Legs[k] \in Calls
             /\ draft[k].number = k
             /\ draft[k].lodging \in Beds(wish.preference, k)
             /\ draft[k].km = answer[Legs[k]].km
             /\ draft[k].gain = answer[Legs[k]].gain
             /\ draft[k].difficulty = answer[Legs[k]].difficulty
    <2>1. Legs[k] \in Calls
        <3>1. k \in 1..Len(Legs)
            BY <1>3
        <3>2. QED
            BY <1>1, <3>1
    <2>2. draft[k] = DraftedDay(k, answer[Legs[k]].km, answer[Legs[k]].gain,
                                answer[Legs[k]].difficulty, nights[k], HasFerry(Legs[k]))
        BY <1>1, <1>2, <1>3 DEF Drafted
    <2>3. /\ draft[k].number = k /\ draft[k].lodging = nights[k]
          /\ draft[k].km = answer[Legs[k]].km
          /\ draft[k].gain = answer[Legs[k]].gain
          /\ draft[k].difficulty = answer[Legs[k]].difficulty
        BY <2>2 DEF DraftedDay
    <2>4. k \in DOMAIN Legs
        BY <1>1, <1>3
    <2>5. QED
        BY <1>2, <2>1, <2>3, <2>4
<1>6. /\ DOMAIN InOrder(draft) = 1..n /\ Len(InOrder(draft)) = n
      /\ \A i \in 1..n : \E k \in 1..n : InOrder(draft)[i] = draft[k]
      /\ \A k \in 1..n : \E i \in 1..n : InOrder(draft)[i] = draft[k]
    <2>1. \A k \in 1..n : draft[k].number = k
        BY <1>5
    <2>2. QED
        BY <1>4, <2>1, InOrderHasAllDays
<1>7. QED
    BY <1>1, <1>3, <1>4, <1>5, <1>6

\* A long day of unknown climb gets the remark that its data deserve a look.
THEOREM EstimatesAreAsked == Spec => []EstimatesAreQuestioned
<1>1. ASSUME LookupInv, DraftInv PROVE EstimatesAreQuestioned
    <2> SUFFICES ASSUME NEW k \in DOMAIN draft,
                        answer[Legs[k]].source = "estimate", draft[k].km > 1200
                 PROVE  \E i \in issues : i.category = "consistency" /\ k \in i.days
        BY DEF EstimatesAreQuestioned
    <2> DEFINE days == InOrder(draft)
               remark == Issue("info", "consistency", {k})
    <2>1. draft # <<>>
        OBVIOUS
    <2>2. PICK n \in Nat : n = Len(Legs)
        BY <1>1, <2>1, DraftedDays
    <2>3. /\ k \in 1..n /\ Legs[k] \in Calls /\ draft[k].number = k
          /\ draft[k].km = answer[Legs[k]].km /\ draft[k].gain = answer[Legs[k]].gain
          /\ draft[k].difficulty = answer[Legs[k]].difficulty
          /\ Len(days) = n /\ \E j \in 1..n : days[j] = draft[k]
        BY <1>1, <2>1, <2>2, DraftedDays, ZenonT(30)
    <2>4. Questionable(answer[Legs[k]])
        BY <1>1, <2>3 DEF LookupInv, CallInv
    <2>5. draft[k].km > 500 /\ draft[k].gain = 0 /\ draft[k].difficulty \in {"hard", "extreme"}
        BY <2>3, <2>4 DEF Questionable
    <2> HIDE DEF days
    <2>6. remark \in CheckConsistency(days)
        <3>1. CheckConsistency(days) =
                 {Issue("info", "consistency", {days[i].number}) :
                     i \in {j \in 1..Len(days) :
                               days[j].km > 500 /\ days[j].gain = 0 /\ IsHard(days[j])}}
            BY DEF CheckConsistency, Named
        <3>2. PICK j \in 1..n : days[j] = draft[k]
            BY <2>3
        <3>3. j \in 1..Len(days) /\ days[j].km > 500 /\ days[j].gain = 0 /\ IsHard(days[j])
              /\ days[j].number = k
            BY <2>3, <2>5, <3>2 DEF IsHard
        <3> DEFINE dubious == {i \in 1..Len(days) :
                                  days[i].km > 500 /\ days[i].gain = 0 /\ IsHard(days[i])}
        <3>4. j \in dubious
            BY <3>3
        <3>5. CheckConsistency(days) =
                 {Issue("info", "consistency", {days[i].number}) : i \in dubious}
            BY <3>1
        <3> HIDE DEF dubious
        <3>6. Issue("info", "consistency", {days[j].number}) \in CheckConsistency(days)
            BY <3>4, <3>5, ZenonT(30)
        <3>7. QED
            BY <3>3, <3>6
    <2>7. remark \in issues
        BY <1>1, <2>1, <2>6 DEF DraftInv, CritiqueTripPlan, days
    <2>8. remark.category = "consistency" /\ k \in remark.days
        BY DEF Issue
    <2>9. QED
        BY <2>7, <2>8
<1>2. QED
    BY <1>1, LookupsKeepInv, DraftsKeepInv, PTL

LEMMA MaxOfRange ==
    ASSUME NEW n \in Nat, n > 0 PROVE Max(1..n) = n
<1>1. n \in 1..n /\ \A y \in 1..n : n >= y
    OBVIOUS
<1>2. \A x \in 1..n : (\A y \in 1..n : x >= y) => x = n
    BY <1>1
<1>3. QED
    BY <1>1, <1>2 DEF Max

\* No hostel was to be had for a hostel night: the night is named, and the verdict is
\* not that the plan may be shipped.
THEOREM GapsAreNamed == Spec => []GapsAreReported
<1>1. ASSUME LookupInv, DraftInv PROVE GapsAreReported
    <2> SUFFICES ASSUME NEW k \in DOMAIN draft,
                        WantedKind(wish.preference, k) = {"hostel"},
                        k \in DOMAIN Stays => "hostel" \notin BedsOffered(k)
                 PROVE  /\ \E i \in issues :
                              i.category = "accommodation_mismatch" /\ k \in i.days
                        /\ Assess(issues) # "ship_it"
        BY DEF GapsAreReported
    <2> DEFINE days == InOrder(draft)
               numbers == {days[i].number : i \in {j \in 1..Len(days) : TRUE}}
               hostels == {days[i].number :
                              i \in {j \in 1..Len(days) : days[j].lodging = "hostel"}}
               missing == {m \in 1..Max(numbers) : m % wish.preference.every = 0} \ hostels
               gap == Issue("warning", "accommodation_mismatch", missing)
    <2>1. draft # <<>>
        OBVIOUS
    <2>2. PICK n \in Nat : n = Len(Legs)
        BY <1>1, <2>1, DraftedDays
    <2>3. /\ k \in 1..n /\ DOMAIN draft = 1..n
          /\ \A m \in 1..n : draft[m].number = m /\ draft[m].lodging \in Beds(wish.preference, m)
          /\ Len(days) = n
          /\ \A i \in 1..n : \E m \in 1..n : days[i] = draft[m]
          /\ \A m \in 1..n : \E i \in 1..n : days[i] = draft[m]
        BY <1>1, <2>1, <2>2, DraftedDays
    <2>4. wish.preference.every > 0 /\ k % wish.preference.every = 0
        BY DEF WantedKind, Lodgings
    <2>5. draft[k].lodging # "hostel"
        <3>1. DOMAIN Stays = 1..Len(Stays) /\ Len(Stays) \in Nat
            BY <1>1, CallsOfTool DEF LookupInv, Stays
        <3>2. draft[k].lodging \in {NoLodging} \cup BedsOffered(k)
            BY <2>3 DEF Beds
        <3>3. CASE k > Len(Stays)
            BY <2>3, <3>3 DEF Beds, NoLodging
        <3>4. CASE k <= Len(Stays)
            <4>1. k \in DOMAIN Stays
                BY <2>3, <3>1, <3>4
            <4>2. QED
                BY <3>2, <4>1 DEF NoLodging
        <3>5. QED
            BY <2>3, <3>1, <3>3, <3>4
    <2> HIDE DEF days
    <2>6. numbers = 1..n
        <3>1. ASSUME NEW i \in 1..n PROVE days[i].number \in 1..n
            <4>1. PICK m \in 1..n : days[i] = draft[m]
                BY <2>3
            <4>2. draft[m].number = m
                BY <2>3
            <4>3. QED
                BY <4>1, <4>2
        <3>2. ASSUME NEW m \in 1..n PROVE \E i \in 1..n : days[i].number = m
            <4>1. PICK i \in 1..n : days[i] = draft[m]
                BY <2>3
            <4>2. draft[m].number = m
                BY <2>3
            <4>3. QED
                BY <4>1, <4>2
        <3>3. {j \in 1..Len(days) : TRUE} = 1..n
            BY <2>3
        <3>4. QED
            BY <3>1, <3>2, <3>3
    <2> HIDE DEF numbers
    <2>7. Max(numbers) = n
        <3>1. n > 0
            BY <2>3
        <3>2. QED
            BY <2>6, <3>1, MaxOfRange
    <2>8. k \notin hostels
        <3>1. ASSUME NEW i \in 1..n, days[i].lodging = "hostel" PROVE days[i].number # k
            <4>1. PICK m \in 1..n : days[i] = draft[m]
                BY <2>3
            <4>2. m # k
                BY <2>5, <3>1, <4>1
            <4>3. QED
                BY <2>3, <4>1, <4>2
        <3>2. QED
            BY <2>3, <3>1
    <2> HIDE DEF hostels
    <2>9. k \in missing
        BY <2>3, <2>4, <2>7, <2>8
    <2>10. CheckAccommodationPattern(days, wish.preference) = {gap}
        <3>1. missing # {} /\ wish.preference.every > 0
            BY <2>4, <2>9
        <3>2. missing = {m \in 1..Max({days[i].number : i \in {j \in 1..Len(days) : TRUE}}) :
                            m % wish.preference.every = 0}
                         \ {days[i].number :
                               i \in {j \in 1..Len(days) : days[j].lodging = "hostel"}}
            BY DEF numbers, hostels
        <3> HIDE DEF missing
        <3>3. QED
            BY <3>1, <3>2 DEF CheckAccommodationPattern
    <2> HIDE DEF missing
    <2>11. gap \in issues
        BY <1>1, <2>1, <2>10 DEF DraftInv, CritiqueTripPlan, days
    <2>12. /\ gap.severity = "warning" /\ gap.category = "accommodation_mismatch"
           /\ k \in gap.days
        BY <2>9 DEF Issue
    <2>13. Assess(issues) # "ship_it"
        BY <2>11, <2>12 DEF Assess
    <2>14. QED
        BY <2>11, <2>12, <2>13
<1>2. QED
    BY <1>1, LookupsKeepInv, DraftsKeepInv, PTL

-----------------------------------------------------------------------------
\* The budget of a draft

HIDE TurnsAssumption DEF TurnsAssumption

\* How often something is in a list.
Times(s, x) == Cardinality({i \in 1..Len(s) : s[i] = x})

LEMMA OneMore ==
    ASSUME NEW S, NEW s \in Seq(S), NEW y \in S, NEW x
    PROVE  /\ Times(s, x) \in Nat
           /\ Times(Append(s, y), x) = IF x = y THEN Times(s, x) + 1 ELSE Times(s, x)
<1>1. PICK n \in Nat : n = Len(s)
    OBVIOUS
<1> DEFINE here == {i \in 1..n : s[i] = x}
           after == {i \in 1..(n + 1) : Append(s, y)[i] = x}
<1>2. Times(s, x) = Cardinality(here)
    BY <1>1 DEF Times
<1>3. Times(Append(s, y), x) = Cardinality(after)
    <2>1. Len(Append(s, y)) = n + 1
        BY <1>1
    <2>2. QED
        BY <2>1 DEF Times
<1>4. IsFiniteSet(here)
    <2>1. IsFiniteSet(1..n)
        BY FS_Interval
    <2>2. here \in SUBSET (1..n)
        OBVIOUS
    <2> HIDE DEF here
    <2>3. QED
        BY <2>1, <2>2, FS_Subset
<1>5. after = IF x = y THEN here \cup {n + 1} ELSE here
    <2>1. Append(s, y)[n + 1] = y /\ \A i \in 1..n : Append(s, y)[i] = s[i]
        BY <1>1
    <2>2. \A i \in 1..(n + 1) : i \in 1..n \/ i = n + 1
        OBVIOUS
    <2>3. n + 1 \in 1..(n + 1) /\ \A i \in 1..n : i \in 1..(n + 1)
        OBVIOUS
    <2>4. PICK t, N, M : t = Append(s, y) /\ N = 1..n /\ M = 1..(n + 1)
        OBVIOUS
    <2>5. \A i \in M : t[i] = x <=> IF i = n + 1 THEN x = y ELSE s[i] = x
        BY <2>1, <2>2, <2>4
    <2>6. M = N \cup {n + 1} /\ n + 1 \notin N
        BY <2>4
    <2>7. after = {i \in M : t[i] = x} /\ here = {i \in N : s[i] = x}
        BY <2>4
    <2> HIDE DEF after, here
    <2>8. CASE x = y
        BY <2>5, <2>6, <2>7, <2>8
    <2>9. CASE x # y
        BY <2>5, <2>6, <2>7, <2>9
    <2>10. QED
        BY <2>8, <2>9
<1>6. n + 1 \notin here
    OBVIOUS
<1> HIDE DEF here, after
<1>7. Cardinality(here) \in Nat
    BY <1>4, FS_CardinalityType
<1>8. Cardinality(here \cup {n + 1}) = Cardinality(here) + 1
    <2>1. PICK m : m = n + 1
        OBVIOUS
    <2>2. Cardinality(here \cup {m}) = IF m \in here THEN Cardinality(here) ELSE Cardinality(here) + 1
        BY <1>4, FS_AddElement
    <2>3. QED
        BY <1>6, <2>1, <2>2
<1>9. QED
    BY <1>2, <1>3, <1>5, <1>7, <1>8

LEMMA DisjointSets ==
    ASSUME NEW S, NEW T, IsFiniteSet(S), IsFiniteSet(T), S \cap T = {}
    PROVE  /\ IsFiniteSet(S \cup T)
           /\ Cardinality(S \cup T) = Cardinality(S) + Cardinality(T)
<1>1. Cardinality(S) \in Nat /\ Cardinality(T) \in Nat
    BY FS_CardinalityType
<1>2. Cardinality(S \cap T) = 0
    BY FS_EmptySet
<1>3. /\ IsFiniteSet(S \cup T)
      /\ Cardinality(S \cup T) = Cardinality(S) + Cardinality(T) - Cardinality(S \cap T)
    BY FS_Union
<1>4. QED
    BY <1>1, <1>2, <1>3

\* The nights of each kind in a list of nights are no more than the list is long, and
\* exactly as many if all of them are of some kind.
CountsKinds(count, kinds, n) ==
    \A kind \in Lodgings : count[kind] = Cardinality({i \in 1..n : kinds[i] = kind})

LEMMA KindsAddUp ==
    ASSUME NEW n \in Nat, NEW kinds, NEW count, CountsKinds(count, kinds, n)
    PROVE  /\ \A kind \in Lodgings : count[kind] \in Nat
           /\ count["camping"] + count["hostel"] + count["guesthouse"] + count["hotel"] <= n
           /\ (\A i \in 1..n : kinds[i] \in Lodgings) =>
                 count["camping"] + count["hostel"] + count["guesthouse"] + count["hotel"] = n
<1> DEFINE of(kind) == {i \in 1..n : kinds[i] = kind}
<1>1. IsFiniteSet(1..n) /\ Cardinality(1..n) = n
    BY FS_Interval
<1>2. ASSUME NEW kind PROVE IsFiniteSet(of(kind)) /\ Cardinality(of(kind)) \in Nat
    <2>1. of(kind) \in SUBSET (1..n)
        OBVIOUS
    <2> HIDE DEF of
    <2>2. IsFiniteSet(of(kind))
        BY <1>1, <2>1, FS_Subset
    <2>3. QED
        BY <2>2, FS_CardinalityType
<1> DEFINE some == of("camping") \cup of("hostel") \cup of("guesthouse") \cup of("hotel")
<1>3. /\ of("camping") \cap of("hostel") = {}
      /\ (of("camping") \cup of("hostel")) \cap of("guesthouse") = {}
      /\ (of("camping") \cup of("hostel") \cup of("guesthouse")) \cap of("hotel") = {}
    OBVIOUS
<1>4. some \in SUBSET (1..n)
    OBVIOUS
<1>5. (\A i \in 1..n : kinds[i] \in Lodgings) => some = 1..n
    BY DEF Lodgings
<1>6. \A kind \in Lodgings : count[kind] = Cardinality(of(kind))
    BY DEF CountsKinds
<1> HIDE DEF of
<1>7. /\ IsFiniteSet(some)
      /\ Cardinality(some) = Cardinality(of("camping")) + Cardinality(of("hostel"))
                             + Cardinality(of("guesthouse")) + Cardinality(of("hotel"))
    <2>1. PICK A, B, C, D : /\ A = of("camping") /\ B = of("hostel")
                            /\ C = of("guesthouse") /\ D = of("hotel")
        OBVIOUS
    <2>2. IsFiniteSet(A) /\ IsFiniteSet(B) /\ IsFiniteSet(C) /\ IsFiniteSet(D)
        BY <1>2, <2>1
    <2>3. A \cap B = {} /\ (A \cup B) \cap C = {} /\ (A \cup B \cup C) \cap D = {}
        BY <1>3, <2>1
    <2>4. some = A \cup B \cup C \cup D
        BY <2>1
    <2> HIDE DEF some
    <2>5. /\ IsFiniteSet(A \cup B)
          /\ Cardinality(A \cup B) = Cardinality(A) + Cardinality(B)
        BY <2>2, <2>3, DisjointSets
    <2>6. /\ IsFiniteSet(A \cup B \cup C)
          /\ Cardinality(A \cup B \cup C) = Cardinality(A \cup B) + Cardinality(C)
        BY <2>2, <2>3, <2>5, DisjointSets
    <2>7. /\ IsFiniteSet(A \cup B \cup C \cup D)
          /\ Cardinality(A \cup B \cup C \cup D) = Cardinality(A \cup B \cup C) + Cardinality(D)
        BY <2>2, <2>3, <2>6, DisjointSets
    <2>8. QED
        BY <2>1, <2>4, <2>5, <2>6, <2>7
<1>8. Cardinality(some) <= n
    <2>1. PICK t, T : t = some /\ T = 1..n
        OBVIOUS
    <2>2. t \in SUBSET T /\ IsFiniteSet(T) /\ Cardinality(T) = n
        BY <1>1, <1>4, <2>1
    <2>3. Cardinality(t) <= Cardinality(T)
        BY <2>2, FS_Subset
    <2> HIDE DEF some
    <2>4. QED
        BY <2>1, <2>2, <2>3
<1> HIDE DEF some
<1>9. Cardinality(some) = count["camping"] + count["hostel"] + count["guesthouse"]
                          + count["hotel"]
    <2>1. {"camping", "hostel", "guesthouse", "hotel"} = Lodgings
        BY DEF Lodgings
    <2>2. /\ count["camping"] = Cardinality(of("camping"))
          /\ count["hostel"] = Cardinality(of("hostel"))
          /\ count["guesthouse"] = Cardinality(of("guesthouse"))
          /\ count["hotel"] = Cardinality(of("hotel"))
        BY <1>6, <2>1
    <2>3. QED
        BY <1>7, <2>2
<1>10. (\A i \in 1..n : kinds[i] \in Lodgings) => Cardinality(some) = n
    BY <1>1, <1>5
<1>11. \A kind \in Lodgings : count[kind] \in Nat
    BY <1>2, <1>6
<1>12. QED
    BY <1>8, <1>9, <1>10, <1>11

\* How often the inner loop has come to the p-th kind after n visits.
VisitsOf(n, p) == (n + 4 - p) \div 4

LEMMA VisitCounts ==
    ASSUME NEW n \in Nat \ {0}, NEW p \in 1..4
    PROVE  /\ VisitsOf(n - 1, p) \in Nat
           /\ p = ((n - 1) % 4) + 1 =>
                 VisitsOf(n - 1, p) = (n - 1) \div 4 /\ VisitsOf(n, p) = VisitsOf(n - 1, p) + 1
           /\ p # ((n - 1) % 4) + 1 => VisitsOf(n, p) = VisitsOf(n - 1, p)
<1>1. PICK q \in Nat, r \in 0..3 :
          n - 1 = 4 * q + r /\ q = (n - 1) \div 4 /\ r = (n - 1) % 4
    <2>1. PICK m \in Nat : m = n - 1
        OBVIOUS
    <2>2. m \div 4 \in Nat /\ m % 4 \in 0..3 /\ m = 4 * (m \div 4) + (m % 4)
        OBVIOUS
    <2>3. QED
        BY <2>1, <2>2
<1>2. ASSUME NEW k \in Nat, NEW s \in 0..3 PROVE (4 * k + s) \div 4 = k
    BY <1>2
<1>3. VisitsOf(n - 1, p) = IF p <= r THEN q + 1 ELSE q
    <2>1. CASE p <= r
        <3>1. (n - 1) + 4 - p = 4 * (q + 1) + (r - p) /\ r - p \in 0..3 /\ q + 1 \in Nat
            BY <1>1, <2>1
        <3>2. QED
            BY <1>2, <2>1, <3>1 DEF VisitsOf
    <2>2. CASE p > r
        <3>1. (n - 1) + 4 - p = 4 * q + (r + 4 - p) /\ r + 4 - p \in 0..3
            BY <1>1, <2>2
        <3>2. QED
            BY <1>2, <2>2, <3>1 DEF VisitsOf
    <2>3. QED
        BY <2>1, <2>2
<1>4. VisitsOf(n, p) = IF p <= r + 1 THEN q + 1 ELSE q
    <2>1. CASE p <= r + 1
        <3>1. n + 4 - p = 4 * (q + 1) + (r + 1 - p) /\ r + 1 - p \in 0..3 /\ q + 1 \in Nat
            BY <1>1, <2>1
        <3>2. QED
            BY <1>2, <2>1, <3>1 DEF VisitsOf
    <2>2. CASE p > r + 1
        <3>1. n + 4 - p = 4 * q + (r + 5 - p) /\ r + 5 - p \in 0..3
            BY <1>1, <2>2
        <3>2. QED
            BY <1>2, <2>2, <3>1 DEF VisitsOf
    <2>3. QED
        BY <2>1, <2>2
<1>5. QED
    BY <1>1, <1>3, <1>4

LEMMA KindInOrder ==
    /\ \A n \in Nat \ {0} : KindAt(n) \in Lodgings
    /\ \A n \in Nat \ {0}, p \in 1..4 : KindAt(n) = Order[p] <=> p = ((n - 1) % 4) + 1
    /\ \A kind \in Lodgings : \E p \in 1..4 : kind = Order[p]
    /\ \A p \in 1..4 : Order[p] \in Lodgings
<1>1. /\ Order[1] = "camping" /\ Order[2] = "hostel"
      /\ Order[3] = "guesthouse" /\ Order[4] = "hotel"
    BY DEF Order
<1>2. \A p \in 1..4 : p = 1 \/ p = 2 \/ p = 3 \/ p = 4
    OBVIOUS
<1>3. \A p, q \in 1..4 : Order[p] \in Lodgings /\ (Order[p] = Order[q] <=> p = q)
    BY <1>1, <1>2 DEF Lodgings
<1>4. \A n \in Nat \ {0} : ((n - 1) % 4) + 1 \in 1..4
    OBVIOUS
<1>5. \A kind \in Lodgings : \E p \in 1..4 : kind = Order[p]
    <2>1. \A kind \in Lodgings :
             kind = Order[1] \/ kind = Order[2] \/ kind = Order[3] \/ kind = Order[4]
        BY <1>1 DEF Lodgings
    <2>2. 1 \in 1..4 /\ 2 \in 1..4 /\ 3 \in 1..4 /\ 4 \in 1..4
        OBVIOUS
    <2>3. QED
        BY <2>1, <2>2
<1>6. QED
    BY <1>3, <1>4, <1>5 DEF KindAt

\* All nights of a mix are handed out, if it has no more of a kind than the trip has days.
LEMMA AllHandedOut ==
    ASSUME NEW mix \in [Lodgings -> Nat], NEW days \in Nat,
           \A kind \in Lodgings : mix[kind] <= days
    PROVE  /\ Rounds(mix, days) \in Seq(Lodgings)
           /\ \A kind \in Lodgings : Times(Rounds(mix, days), kind) = mix[kind]
<1> DEFINE N == 4 * days
           next(f) == [n \in 0..N |->
                         IF n = 0 THEN <<>>
                         ELSE IF mix[KindAt(n)] > (n - 1) \div 4
                         THEN Append(f[n - 1], KindAt(n))
                         ELSE f[n - 1]]
           nights == CHOOSE f : f = next(f)
           step == [x \in (1..N) \X Seq(Lodgings) |->
                      IF mix[KindAt(x[1])] > (x[1] - 1) \div 4
                      THEN Append(x[2], KindAt(x[1]))
                      ELSE x[2]]
<1>1. N \in Nat /\ N \in 0..N
    OBVIOUS
<1>2. Rounds(mix, days) = nights[N]
    BY DEF Rounds
<1>3. \A n \in 1..N : n \in Nat \ {0} /\ n - 1 \in 0..N /\ KindAt(n) \in Lodgings
    BY KindInOrder
<1>4. step \in [(1..N) \X Seq(Lodgings) -> Seq(Lodgings)] /\ <<>> \in Seq(Lodgings)
    <2>1. \A n \in 1..N, s \in Seq(Lodgings) : Append(s, KindAt(n)) \in Seq(Lodgings)
        BY <1>3, AppendProperties
    <2>2. QED
        BY <2>1
<1>5. \A n \in 1..N, s \in Seq(Lodgings) :
         step[<<n, s>>] = IF mix[KindAt(n)] > (n - 1) \div 4 THEN Append(s, KindAt(n)) ELSE s
    OBVIOUS
<1> HIDE DEF N, step
<1>6. PICK g \in [0..N -> Seq(Lodgings)] :
          g[0] = <<>> /\ \A n \in 1..N : g[n] = step[<<n, g[n - 1]>>]
    <2>1. PICK T : T = Seq(Lodgings)
        OBVIOUS
    <2>2. <<>> \in T /\ step \in [(1..N) \X T -> T]
        BY <1>4, <2>1
    <2>3. Loops(T, <<>>, N, step) # {}
        BY <1>1, <2>2, LoopExists
    <2>4. QED
        BY <2>1, <2>3 DEF Loops
<1>7. \A n \in 1..N :
         g[n] = IF mix[KindAt(n)] > (n - 1) \div 4 THEN Append(g[n - 1], KindAt(n)) ELSE g[n - 1]
    <2> TAKE n \in 1..N
    <2>1. g[n - 1] \in Seq(Lodgings)
        BY <1>3
    <2>2. QED
        BY <1>5, <1>6, <2>1
<1>8. g = next(g)
    <2>1. \A n \in 0..N : n # 0 => n \in 1..N
        BY <1>1
    <2>2. \A n \in 0..N : g[n] = next(g)[n]
        BY <1>6, <1>7, <2>1
    <2>3. QED
        BY <2>2
<1>9. nights = next(nights)
    <2> HIDE DEF next
    <2>1. QED
        BY <1>8
<1>10. nights[0] = <<>> /\ \A n \in 1..N :
         nights[n] = IF mix[KindAt(n)] > (n - 1) \div 4 THEN Append(nights[n - 1], KindAt(n))
                     ELSE nights[n - 1]
    <2> HIDE DEF nights
    <2>1. \A n \in 1..N : n \in 0..N /\ n # 0
        BY <1>1
    <2>2. 0 \in 0..N
        BY <1>1
    <2>3. QED
        BY <1>9, <2>1, <2>2
<1> HIDE DEF nights, next
<1> DEFINE Least(a, b) == IF a < b THEN a ELSE b
           good == {n \in 0..N : /\ nights[n] \in Seq(Lodgings)
                                 /\ \A p \in 1..4 : Times(nights[n], Order[p])
                                                      = Least(mix[Order[p]], VisitsOf(n, p))}
<1>11. 0 \in good
    <2>1. \A x : Times(<<>>, x) = 0
        <3> TAKE x
        <3>1. {i \in 1..Len(<<>>) : <<>>[i] = x} = {}
            OBVIOUS
        <3>2. QED
            BY <3>1, FS_EmptySet DEF Times
    <2>2. \A p \in 1..4 : VisitsOf(0, p) = 0
        BY DEF VisitsOf
    <2>3. \A p \in 1..4 : mix[Order[p]] \in Nat
        BY KindInOrder
    <2>4. 0 \in 0..N
        BY <1>1
    <2>5. \A p \in 1..4 : Least(mix[Order[p]], VisitsOf(0, p)) = 0
        BY <2>2, <2>3
    <2>6. nights[0] \in Seq(Lodgings) /\ \A p \in 1..4 : Times(nights[0], Order[p]) = 0
        BY <1>4, <1>10, <2>1
    <2> HIDE DEF Least
    <2>7. QED
        BY <2>4, <2>5, <2>6
<1>12. ASSUME NEW n \in 1..N, n - 1 \in good PROVE n \in good
    <2>1. /\ n - 1 \in 0..N /\ nights[n - 1] \in Seq(Lodgings)
          /\ \A p \in 1..4 : Times(nights[n - 1], Order[p])
                               = Least(mix[Order[p]], VisitsOf(n - 1, p))
        BY <1>12
    <2>2. n \in Nat \ {0} /\ KindAt(n) \in Lodgings /\ n \in 0..N
        BY <1>1, <1>3
    <2>3. PICK s \in Seq(Lodgings), y \in Lodgings : s = nights[n - 1] /\ y = KindAt(n)
        BY <2>1, <2>2
    <2>4. Append(s, y) \in Seq(Lodgings)
        BY AppendProperties
    <2>5. nights[n] = IF mix[y] > (n - 1) \div 4 THEN Append(s, y) ELSE s
        BY <1>10, <2>3
    <2>6. ASSUME NEW p \in 1..4
          PROVE  Times(nights[n], Order[p]) = Least(mix[Order[p]], VisitsOf(n, p))
        <3>1. mix[Order[p]] \in Nat /\ VisitsOf(n - 1, p) \in Nat
            BY <2>2, KindInOrder, VisitCounts
        <3>2. Times(s, Order[p]) = Least(mix[Order[p]], VisitsOf(n - 1, p))
            BY <2>1, <2>3
        <3>3. CASE y = Order[p]
            <4>1. p = ((n - 1) % 4) + 1
                BY <2>2, <2>3, <3>3, KindInOrder
            <4>2. /\ VisitsOf(n - 1, p) = (n - 1) \div 4
                  /\ VisitsOf(n, p) = VisitsOf(n - 1, p) + 1
                BY <2>2, <4>1, VisitCounts
            <4>3. Times(Append(s, y), Order[p]) = Times(s, Order[p]) + 1
                BY <3>3, OneMore
            <4>4. CASE mix[y] > (n - 1) \div 4
                BY <2>5, <3>1, <3>2, <3>3, <4>2, <4>3, <4>4
            <4>5. CASE ~ (mix[y] > (n - 1) \div 4)
                BY <2>5, <3>1, <3>2, <3>3, <4>2, <4>5
            <4>6. QED
                BY <4>4, <4>5
        <3>4. CASE y # Order[p]
            <4>1. p # ((n - 1) % 4) + 1
                BY <2>2, <2>3, <3>4, KindInOrder
            <4>2. VisitsOf(n, p) = VisitsOf(n - 1, p)
                BY <2>2, <4>1, VisitCounts
            <4>3. Times(Append(s, y), Order[p]) = Times(s, Order[p])
                BY <3>4, OneMore
            <4>4. QED
                BY <2>5, <3>2, <4>2, <4>3
        <3>5. QED
            BY <3>3, <3>4
    <2>7. nights[n] \in Seq(Lodgings)
        BY <2>4, <2>5
    <2>8. QED
        BY <2>2, <2>6, <2>7
<1>13. N \in good
    <2> HIDE DEF good
    <2>1. QED
        BY <1>1, <1>11, <1>12, AllUpTo
<1>14. \A p \in 1..4 : VisitsOf(N, p) = days
    <2> TAKE p \in 1..4
    <2>1. N + 4 - p = 4 * days + (4 - p) /\ 4 - p \in 0..3
        BY DEF N
    <2>2. (4 * days + (4 - p)) \div 4 = days
        BY <2>1
    <2>3. QED
        BY <2>1, <2>2 DEF VisitsOf
<1>15. ASSUME NEW kind \in Lodgings PROVE Times(nights[N], kind) = mix[kind]
    <2>1. PICK p \in 1..4 : kind = Order[p]
        BY KindInOrder
    <2>2. Times(nights[N], kind) = Least(mix[kind], VisitsOf(N, p))
        BY <1>13, <2>1
    <2>3. VisitsOf(N, p) = days /\ mix[kind] \in Nat /\ mix[kind] <= days
        BY <1>14
    <2>4. QED
        BY <2>2, <2>3
<1>16. nights[N] \in Seq(Lodgings)
    BY <1>13
<1>17. QED
    BY <1>2, <1>15, <1>16

LEMMA FerryIsSum ==
    ASSUME NEW n \in Nat, NEW days, DOMAIN days = 1..n,
           NEW val \in [1..n -> Int], \A x \in 1..n : days[x].ferryEur = val[x],
           NEW r \in Running(n, val)
    PROVE  FerryEur(days) = r[n]
<1> DEFINE F(f) == [s \in SUBSET (DOMAIN days) |->
                       IF s = {} THEN 0 ELSE f[s \ {Max(s)}] + days[Max(s)].ferryEur]
           iter == CHOOSE f : f = F(f)
<1>1. FerryEur(days) = iter[DOMAIN days]
    BY DEF FerryEur, FoldLeft, MapThenFoldSet
<1>3. \A s \in SUBSET (1..n) : s # {} => days[Max(s)].ferryEur = val[Max(s)]
    <2>1. ASSUME NEW s \in SUBSET (1..n), s # {} PROVE Max(s) \in 1..n
        <3>1. s \subseteq 1..n
            OBVIOUS
        <3>2. QED
            BY <2>1, <3>1, MaxOfSome
    <2>2. QED
        BY <2>1
<1>4. PICK f \in [SUBSET (1..n) -> Int] : Adds(f, n, val)
    BY AdderExists DEF Adders
<1>5. \A g : F(g) = [s \in SUBSET (1..n) |-> IF s = {} THEN 0 ELSE g[s \ {Max(s)}] + val[Max(s)]]
    BY <1>3
<1> HIDE DEF F
<1>6. f = F(f)
    BY <1>4, <1>5 DEF Adds
<1>7. iter = F(iter)
    BY <1>6
<1> HIDE DEF iter
<1>8. Adds(iter, n, val)
    BY <1>5, <1>7 DEF Adds
<1>9. QED
    BY <1>1, <1>8, AdderRuns

\* What is charged to one day is charged once.
ChargedOn(days, n, day, price) ==
    /\ n \in Nat /\ day \in 0..n /\ price \in Int /\ DOMAIN days = 1..n
    /\ \A x \in 1..n : days[x].ferryEur = IF x = day THEN price ELSE 0

LEMMA ChargedOnce ==
    ASSUME NEW days, NEW n, NEW day, NEW price, ChargedOn(days, n, day, price)
    PROVE  /\ day = 0 => FerryEur(days) = 0
           /\ day # 0 => FerryEur(days) = price
<1> n \in Nat /\ day \in 0..n /\ price \in Int
    BY DEF ChargedOn
<1>1. PICK val \in [1..n -> Int] : \A x \in 1..n : val[x] = IF x = day THEN price ELSE 0
    <2>1. [x \in 1..n |-> IF x = day THEN price ELSE 0] \in [1..n -> Int]
        OBVIOUS
    <2>2. QED
        BY <2>1
<1>2. PICK r : r \in Running(n, val)
    BY RunningExists
<1>3. FerryEur(days) = r[n]
    <2>1. \A x \in 1..n : days[x].ferryEur = val[x]
        BY <1>1 DEF ChargedOn
    <2>2. DOMAIN days = 1..n
        BY DEF ChargedOn
    <2>3. QED
        BY <1>2, <2>1, <2>2, FerryIsSum
<1> DEFINE good == {k \in 0..n : r[k] = IF day = 0 \/ k < day THEN 0 ELSE price}
<1>4. r \in [0..n -> Int] /\ r[0] = 0
    BY <1>2 DEF Running
<1>5. \A k \in 1..n : r[k] = r[k - 1] + IF k = day THEN price ELSE 0
    BY <1>1, <1>2 DEF Running
<1>6. 0 \in good
    BY <1>4
<1>7. ASSUME NEW k \in 1..n, k - 1 \in good PROVE k \in good
    <2>1. k - 1 \in 0..n /\ k \in 0..n
        OBVIOUS
    <2>2. PICK m \in Int : m = r[k - 1]
        BY <1>4, <2>1
    <2>3. m = IF day = 0 \/ k - 1 < day THEN 0 ELSE price
        BY <1>7, <2>2
    <2>4. r[k] = m + IF k = day THEN price ELSE 0
        BY <1>5, <2>2
    <2>5. QED
        BY <2>1, <2>3, <2>4
<1>8. n \in 0..n
    OBVIOUS
<1> HIDE DEF good
<1>9. n \in good
    BY <1>6, <1>7, <1>8, AllUpTo
<1>10. QED
    BY <1>3, <1>9 DEF good

LEMMA FerriesHavePrices ==
    ASSUME NEW route
    PROVE  Priced(FerryPriceEur, route, 50) \in Int
<1>1. \A x \in DOMAIN FerryPriceEur : FerryPriceEur[x] \in {65, 45, 25, 70}
    BY Zenon DEF FerryPriceEur
<1>2. {65, 45, 25, 70} \subseteq Int
    OBVIOUS
<1>3. QED
    BY <1>1, <1>2 DEF Priced

\* The ferry is charged to a day of the trip.
LEMMA FerryDayIsDay ==
    ASSUME NEW trip, trip.days \in Nat \ {0}
    PROVE  /\ FerryDay(trip) \in 0..trip.days
           /\ trip.ferry <=> FerryDay(trip) # 0
<1>1. PICK n \in Nat \ {0}, m \in Nat : n = trip.days /\ m = n \div 2 /\ m <= n
    <2>1. PICK n \in Nat \ {0} : n = trip.days
        OBVIOUS
    <2>2. n \div 2 \in Nat /\ n \div 2 <= n
        OBVIOUS
    <2>3. QED
        BY <2>1, <2>2
<1>2. Max({1, m}) \in 1..n
    <2>1. \E x \in {1, m} : \A y \in {1, m} : x >= y
        OBVIOUS
    <2>2. Max({1, m}) \in {1, m} /\ Max({1, m}) >= 1
        BY <2>1 DEF Max
    <2>3. QED
        BY <1>1, <2>2
<1>3. QED
    BY <1>1, <1>2 DEF FerryDay

\* What estimate_budget makes of a mix that has no more nights than the trip has days.
LEMMA BudgetPays ==
    ASSUME NEW n \in Nat \ {0}, NEW mix \in [Lodgings -> Nat],
           mix["camping"] + mix["hostel"] + mix["guesthouse"] + mix["hotel"] <= n,
           NEW trip, trip.days = n, trip.mix = mix,
           NEW items, items = EstimateBudget(trip)
    PROVE  /\ DOMAIN items = 1..n /\ Len(items) = n
           /\ \A kind \in Lodgings :
                 Cardinality({d \in DOMAIN items : items[d].lodging = kind}) = mix[kind]
           /\ FerryEur(items) = IF trip.ferry THEN Priced(FerryPriceEur, trip.route, 50) ELSE 0
<1>1. PICK nights : nights = Rounds(mix, n)
    OBVIOUS
<1>2. \A kind \in Lodgings : mix[kind] \in Nat /\ mix[kind] <= n
    BY DEF Lodgings
<1>3. nights \in Seq(Lodgings) /\ \A kind \in Lodgings : Times(nights, kind) = mix[kind]
    BY <1>1, <1>2, AllHandedOut
<1>4. Len(nights) \in Nat /\ DOMAIN nights = 1..Len(nights) /\ Len(nights) <= n
    <2>1. PICK l \in Nat : l = Len(nights) /\ DOMAIN nights = 1..l
        BY <1>3
    <2>2. \A i \in 1..l : nights[i] \in Lodgings
        BY <1>3, <2>1
    <2>3. CountsKinds(mix, nights, l)
        BY <1>3, <2>1 DEF Times, CountsKinds
    <2>4. mix["camping"] + mix["hostel"] + mix["guesthouse"] + mix["hotel"] = l
        BY <2>1, <2>2, <2>3, KindsAddUp
    <2>5. QED
        BY <2>1, <2>4
<1>5. /\ DOMAIN items = 1..n
      /\ \A d \in 1..n : items[d].lodging = IF d <= Len(nights) THEN nights[d] ELSE NotCovered
    BY <1>1 DEF EstimateBudget, ExpandAccommodationSchedule
<1>6. Len(items) = n
    <2>1. items \in [1..n -> {items[d] : d \in 1..n}]
        BY <1>5 DEF EstimateBudget
    <2>2. QED
        BY <2>1, FunctionIsList
<1>7. ASSUME NEW kind \in Lodgings
      PROVE  Cardinality({d \in DOMAIN items : items[d].lodging = kind}) = mix[kind]
    <2>1. kind # NotCovered
        BY DEF Lodgings, NotCovered
    <2>2. PICK l \in Nat : l = Len(nights) /\ l <= n
        BY <1>4
    <2>3. {d \in DOMAIN items : items[d].lodging = kind} = {d \in 1..l : nights[d] = kind}
        <3>1. \A d \in 1..n : items[d].lodging = kind <=> d <= l /\ nights[d] = kind
            BY <1>5, <2>1, <2>2
        <3>2. \A d : d \in 1..l <=> d \in 1..n /\ d <= l
            BY <2>2
        <3>3. QED
            BY <1>5, <3>1, <3>2
    <2>4. QED
        BY <1>3, <2>2, <2>3 DEF Times
<1>8. FerryEur(items) = IF trip.ferry THEN Priced(FerryPriceEur, trip.route, 50) ELSE 0
    <2>1. PICK price \in Int : price = Priced(FerryPriceEur, trip.route, 50)
        BY FerriesHavePrices
    <2>2. PICK day \in 0..n : day = FerryDay(trip) /\ (trip.ferry <=> day # 0)
        BY FerryDayIsDay
    <2>3. \A d \in 1..n : items[d].ferryEur = IF d = day THEN price ELSE 0
        BY <2>1, <2>2 DEF EstimateBudget
    <2>4. (day = 0 => FerryEur(items) = 0) /\ (day # 0 => FerryEur(items) = price)
        <3>1. ChargedOn(items, n, day, price)
            BY <1>5, <2>3 DEF ChargedOn
        <3>2. QED
            BY <3>1, ChargedOnce
    <2>5. QED
        BY <2>1, <2>2, <2>4
<1>9. QED
    BY <1>5, <1>6, <1>7, <1>8

\* The budget of a turn pays for what was drafted, for any stretches, wishes and beds: as
\* many nights of each kind as the draft has, although they are handed out in rounds, and
\* the ferry on one day, if there is one to take.
THEOREM BudgetsCover == Spec => []BudgetCoversDraft
<1>1. TripInit => BudgetCoversDraft
    <2> SUFFICES ASSUME TripInit PROVE BudgetCoversDraft
        OBVIOUS
    <2>1. draft = <<>> /\ daily = <<>>
        BY DEF TripInit
    <2>2. \A kind \in Lodgings : Mix(draft)[kind] = 0
        <3>1. \A kind \in Lodgings : {k \in DOMAIN draft : draft[k].lodging = kind} = {}
            BY <2>1
        <3>2. QED
            BY <3>1, FS_EmptySet DEF Mix
    <2>3. \A kind \in Lodgings : Cardinality({d \in DOMAIN daily : daily[d].lodging = kind}) = 0
        <3>1. \A kind \in Lodgings : {d \in DOMAIN daily : daily[d].lodging = kind} = {}
            BY <2>1
        <3>2. QED
            BY <3>1, FS_EmptySet
    <2>4. FerryEur(daily) = 0
        <3>1. /\ DOMAIN daily = 1..0 /\ daily \in [1..0 -> Int]
              /\ \A x \in 1..0 : daily[x].ferryEur = daily[x]
            BY <2>1
        <3>2. PICK r : r \in Running(0, daily)
            BY <3>1, RunningExists
        <3>3. FerryEur(daily) = r[0]
            BY <3>1, <3>2, FerryIsSum
        <3>4. QED
            BY <3>2, <3>3 DEF Running
    <2>5. ~ \E k \in DOMAIN draft : draft[k].ferry
        BY <2>1
    <2>6. Len(daily) = Len(draft)
        BY <2>1
    <2>7. QED
        BY <2>2, <2>3, <2>4, <2>5, <2>6 DEF BudgetCoversDraft
<1>2. ASSUME LookupInv, BudgetCoversDraft, [TripNext]_<<vars, review>>
      PROVE  BudgetCoversDraft'
    <2>1. ASSUME UNCHANGED review PROVE BudgetCoversDraft'
        BY <1>2, <2>1 DEF review, BudgetCoversDraft
    <2>2. ASSUME NEW w \in Wishes,
                 NEW nights \in [DOMAIN Legs -> Lodgings \cup {NoLodging}], Draft(w, nights)
          PROVE  BudgetCoversDraft'
        <3>1. PICK n \in Nat \ {0} : n = Len(Legs) /\ DOMAIN Legs = 1..n
            <4>1. /\ DOMAIN Legs = 1..Len(Legs) /\ Len(Legs) \in Nat
                  /\ Legs \in Seq(Calls)
                BY <1>2, CallsOfTool DEF LookupInv, Legs
            <4>2. Legs # <<>>
                BY <2>2 DEF Draft
            <4>3. Len(Legs) # 0
                BY <4>1, <4>2
            <4>4. QED
                BY <4>1, <4>3
        <3>2. draft' = Drafted(nights)
            BY <2>2 DEF Draft
        <3>3. PICK days : days = draft' /\ DOMAIN days = 1..n /\ Len(days) = n
            <4>1. draft' \in [1..n -> {draft'[k] : k \in 1..n}]
                BY <3>1, <3>2 DEF Drafted
            <4>2. Len(draft') = n
                BY <4>1, FunctionIsList
            <4>3. QED
                BY <4>1, <4>2
        <3>4. PICK mix : mix = Mix(days)
            OBVIOUS
        <3>5. PICK kinds : kinds = [k \in 1..n |-> days[k].lodging]
            OBVIOUS
        <3>6. /\ DOMAIN mix = Lodgings /\ mix = [kind \in Lodgings |-> mix[kind]]
              /\ CountsKinds(mix, kinds, n)
            <4>1. ASSUME NEW kind \in Lodgings
                  PROVE  {k \in DOMAIN days : days[k].lodging = kind}
                           = {i \in 1..n : kinds[i] = kind}
                BY <3>3, <3>5
            <4>2. QED
                BY <3>4, <4>1 DEF Mix, CountsKinds
        <3>7. /\ \A kind \in Lodgings : mix[kind] \in Nat
              /\ mix["camping"] + mix["hostel"] + mix["guesthouse"] + mix["hotel"] <= n
            BY <3>6, KindsAddUp
        <3>8. mix \in [Lodgings -> Nat]
            BY <3>6, <3>7
        <3>9. PICK trip : trip = [target |-> w.target, days |-> n, mix |-> mix,
                                  breakdown |-> w.breakdown, route |-> w.route,
                                  ferry |-> \E k \in DOMAIN days : days[k].ferry]
            OBVIOUS
        <3>10. PICK items : items = EstimateBudget(trip)
            OBVIOUS
        <3>11. daily' = items /\ wish' = w
            BY <2>2, <3>3, <3>4, <3>9, <3>10 DEF Draft
        <3>12. /\ Len(items) = n
               /\ \A kind \in Lodgings :
                     Cardinality({d \in DOMAIN items : items[d].lodging = kind}) = mix[kind]
               /\ FerryEur(items) = IF trip.ferry THEN Priced(FerryPriceEur, trip.route, 50)
                                    ELSE 0
            <4>1. trip.days = n /\ trip.mix = mix
                BY <3>9
            <4>2. QED
                BY <3>7, <3>8, <3>10, <4>1, BudgetPays, SMTT(30)
        <3>13. FerryEur(items) = IF \E k \in DOMAIN days : days[k].ferry
                                 THEN Priced(FerryPriceEur, w.route, 50) ELSE 0
            BY <3>9, <3>12
        <3>14. FerryEur(daily)' = FerryEur(items) /\ Mix(draft)' = mix
            BY <3>3, <3>4, <3>11
        <3>15. QED
            BY <3>3, <3>11, <3>12, <3>13, <3>14 DEF BudgetCoversDraft
    <2>3. ASSUME NEW c \in AllCalls, Step(c) PROVE BudgetCoversDraft'
        BY <2>1, <2>3 DEF Step
    <2>4. QED
        BY <1>2, <2>1, <2>2, <2>3 DEF TripNext
<1>3. QED
    BY <1>1, <1>2, LookupsKeepInv, PTL DEF Spec

-----------------------------------------------------------------------------
\* The critique can be met: the day count of get_route and the drift rule of
\* critique_trip_plan agree, for every distance and every daily target.  This is the
\* arithmetic behind SuggestedPlansShip of PlanReview.

\* A plan of at least three days whose number get_route rounded to, and whose days,
\* summed with their roundings, lie less than a quarter of a day off the distance of
\* the route, is never blocked for its average day.
THEOREM RoundedPlansDoNotDrift ==
    ASSUME NEW total \in Nat, NEW sum \in Nat, NEW target \in Nat \ {0},
           RoundedRatio(total, target) >= 3,
           4 * sum < 4 * total + target, 4 * total < 4 * sum + target
    PROVE  ~ DriftsBy(25, sum, RoundedRatio(total, target), target)
<1> DEFINE n == RoundedRatio(total, target)
           planned == n * target
<1>1. n \in Nat /\ 2 * planned <= 2 * total + target /\ 2 * total <= 2 * planned + target
    BY RoundedRatioIsNearest
<1>2. planned \in Nat /\ planned >= 3 * target
    BY <1>1
<1>3. /\ sum > planned => 4 * (sum - planned) < 3 * target
      /\ sum <= planned => 4 * (planned - sum) < 3 * target
    BY <1>1, <1>2
<1>4. QED
    BY <1>2, <1>3 DEF DriftsBy

\* A trip of 1.25 to 1.5 daily targets is blocked whatever the number of days it is
\* planned for: one day is a quarter over the target, two are a quarter under it.
THEOREM SomeTripsAlwaysDrift ==
    ASSUME NEW total \in Nat, NEW target \in Nat \ {0}, NEW n \in Nat \ {0},
           4 * total >= 5 * target, 2 * total <= 3 * target
    PROVE  DriftsBy(25, total, n, target)
<1> DEFINE planned == n * target
<1>1. CASE n = 1
    BY <1>1 DEF DriftsBy
<1>2. CASE n >= 2
    <2>1. planned \in Nat /\ planned >= 2 * target
        BY <1>2
    <2>2. total <= planned /\ 4 * (planned - total) >= planned
        BY <2>1
    <2>3. QED
        BY <2>1, <2>2 DEF DriftsBy
<1>3. QED
    BY <1>1, <1>2

-----------------------------------------------------------------------------
\* The best split


\* Splits of the way to stop i into d days, by the stops at which a night is spent.
Splits(d, i) ==
    {e \in [1..(d + 1) -> Nat] :
        /\ e[1] = 1 /\ e[d + 1] = i
        /\ \A x \in 1..d : e[x] < e[x + 1]}

\* What d days that end at e deviate from the target.
Costs(stops, target, e, d, c) ==
    \E r \in Running(d, [x \in 1..d |-> Deviation(stops, target, e[x], e[x + 1])]) : c = r[d]

Measured(stops) ==
    /\ Len(stops) \in Nat
    /\ \A i \in 1..Len(stops) : stops[i].from_start \in Int

LEMMA DeviationType ==
    ASSUME NEW stops, Measured(stops), NEW target \in Int,
           NEW k \in 1..Len(stops), NEW i \in 1..Len(stops)
    PROVE  Deviation(stops, target, k, i) \in Nat
<1>1. PICK km \in Int : km = stops[i].from_start - stops[k].from_start
    BY DEF Measured
<1>2. \A x \in Nat : x * x \in Nat
    OBVIOUS
<1>3. CASE km > target
    <2>1. km - target \in Nat
        BY <1>1, <1>3
    <2>2. (km - target) * (km - target) \in Nat
        BY <1>2, <2>1
    <2>3. QED
        BY <1>1, <1>3, <2>2 DEF Deviation
<1>4. CASE ~ (km > target)
    <2>1. target - km \in Nat
        BY <1>1, <1>4
    <2>2. (target - km) * (target - km) \in Nat
        BY <1>2, <2>1
    <2>3. QED
        BY <1>1, <1>4, <2>2 DEF Deviation
<1>5. QED
    BY <1>3, <1>4

\* The stops of a split lie on the way, the x-th day ending at the x-th of them or later.
LEMMA SplitsGoOn ==
    ASSUME NEW d \in Nat, NEW i \in Nat, NEW e \in Splits(d, i)
    PROVE  \A x \in 1..(d + 1) : e[x] >= x /\ e[x] <= i
<1>1. /\ e \in [1..(d + 1) -> Nat] /\ e[1] = 1 /\ e[d + 1] = i
      /\ \A x \in 1..d : e[x] < e[x + 1]
    BY DEF Splits
<1>2. \A x \in 1..(d + 1) : e[x] >= x
    <2> DEFINE good == {x \in 0..d : e[x + 1] >= x + 1}
    <2>1. 0 \in good
        BY <1>1
    <2>2. ASSUME NEW x \in 1..d, x - 1 \in good PROVE x \in good
        <3>1. e[x] >= x
            <4>1. e[(x - 1) + 1] >= (x - 1) + 1
                BY <2>2
            <4>2. (x - 1) + 1 = x
                OBVIOUS
            <4>3. QED
                BY <4>1, <4>2
        <3>2. e[x] < e[x + 1] /\ e[x] \in Nat /\ e[x + 1] \in Nat
            BY <1>1
        <3>3. QED
            BY <3>1, <3>2
    <2> HIDE DEF good
    <2>3. \A x \in 0..d : x \in good
        BY <2>1, <2>2, AllUpTo
    <2>4. ASSUME NEW x \in 1..(d + 1) PROVE e[x] >= x
        <3>1. x - 1 \in good
            BY <2>3
        <3>2. e[(x - 1) + 1] >= (x - 1) + 1 /\ (x - 1) + 1 = x
            BY <3>1 DEF good
        <3>3. QED
            BY <3>2
    <2>5. QED
        BY <2>4
<1>3. \A x \in 1..(d + 1) : e[x] <= i
    <2> DEFINE good == {y \in 0..d : e[d + 1 - y] <= i}
    <2>1. 0 \in good
        BY <1>1
    <2>2. ASSUME NEW y \in 1..d, y - 1 \in good PROVE y \in good
        <3>1. PICK x \in 1..d : x = d + 1 - y
            OBVIOUS
        <3>2. d + 1 - (y - 1) = x + 1
            BY <3>1
        <3>3. e[x + 1] <= i
            BY <2>2, <3>2
        <3>4. e[x] < e[x + 1] /\ e[x] \in Nat /\ e[x + 1] \in Nat
            BY <1>1
        <3>5. QED
            BY <3>1, <3>3, <3>4
    <2> HIDE DEF good
    <2>3. \A y \in 0..d : y \in good
        BY <2>1, <2>2, AllUpTo
    <2>4. ASSUME NEW x \in 1..(d + 1) PROVE e[x] <= i
        <3>1. d + 1 - x \in good
            BY <2>3
        <3>2. e[d + 1 - (d + 1 - x)] <= i /\ d + 1 - (d + 1 - x) = x
            BY <3>1 DEF good
        <3>3. QED
            BY <3>2
    <2>5. QED
        BY <2>4
<1>4. QED
    BY <1>2, <1>3

\* One more day.
LEMMA CostsOneMore ==
    ASSUME NEW stops, Measured(stops), NEW target \in Int, NEW d \in Nat \ {0},
           NEW e, NEW f, \A x \in 1..d : f[x] = e[x],
           \A x \in 1..(d + 1) : e[x] \in 1..Len(stops),
           NEW c, Costs(stops, target, f, d - 1, c)
    PROVE  Costs(stops, target, e, d, c + Deviation(stops, target, e[d], e[d + 1]))
<1> DEFINE dev(g) == [x \in 1..d |-> Deviation(stops, target, g[x], g[x + 1])]
           last   == Deviation(stops, target, e[d], e[d + 1])
<1>1. PICK r \in Running(d - 1, [x \in 1..(d - 1) |-> Deviation(stops, target, f[x], f[x + 1])]) :
         c = r[d - 1]
    BY DEF Costs
<1>2. /\ r \in [0..(d - 1) -> Int] /\ r[0] = 0
      /\ \A x \in 1..(d - 1) : r[x] = r[x - 1] + Deviation(stops, target, f[x], f[x + 1])
    BY DEF Running
<1>3. last \in Nat
    <2>1. e[d] \in 1..Len(stops) /\ e[d + 1] \in 1..Len(stops)
        OBVIOUS
    <2>2. QED
        BY <2>1, DeviationType
<1> DEFINE s == [x \in 0..d |-> IF x = d THEN c + last ELSE r[x]]
<1>4. r[d - 1] \in Int
    BY <1>2
<1>5. s \in [0..d -> Int] /\ s[0] = 0
    <2>1. \A x \in 0..d : x # d => r[x] \in Int
        BY <1>2
    <2>2. c + last \in Int
        BY <1>1, <1>3, <1>4
    <2> HIDE DEF last
    <2>3. QED
        BY <1>2, <2>1, <2>2
<1>6. ASSUME NEW x \in 1..d PROVE s[x] = s[x - 1] + Deviation(stops, target, e[x], e[x + 1])
    <2>1. CASE x = d
        <3>1. s[x] = c + last /\ s[x - 1] = r[d - 1]
            BY <2>1
        <3>2. QED
            BY <1>1, <2>1, <3>1
    <2>2. CASE x # d
        <3>1. s[x] = r[x] /\ s[x - 1] = r[x - 1] /\ x \in 1..(d - 1)
            BY <2>2
        <3>2. f[x] = e[x] /\ f[x + 1] = e[x + 1]
            BY <2>2
        <3> HIDE DEF s
        <3>3. QED
            BY <1>2, <3>1, <3>2
    <2>3. QED
        BY <2>1, <2>2
<1> HIDE DEF s
<1>7. s \in Running(d, [x \in 1..d |-> Deviation(stops, target, e[x], e[x + 1])])
    BY <1>5, <1>6 DEF Running
<1>8. s[d] = c + last
    BY DEF s
<1>9. QED
    BY <1>7, <1>8 DEF Costs

\* One day less.
LEMMA CostsOneLess ==
    ASSUME NEW stops, NEW target, NEW d \in Nat \ {0},
           NEW e, NEW f, \A x \in 1..d : f[x] = e[x],
           NEW c, Costs(stops, target, e, d, c)
    PROVE  \E b \in Int : /\ Costs(stops, target, f, d - 1, b)
                          /\ c = b + Deviation(stops, target, e[d], e[d + 1])
<1>1. PICK r \in Running(d, [x \in 1..d |-> Deviation(stops, target, e[x], e[x + 1])]) :
         c = r[d]
    BY DEF Costs
<1>2. /\ r \in [0..d -> Int] /\ r[0] = 0
      /\ \A x \in 1..d : r[x] = r[x - 1] + Deviation(stops, target, e[x], e[x + 1])
    BY DEF Running
<1> DEFINE s == [x \in 0..(d - 1) |-> r[x]]
<1>3. s \in [0..(d - 1) -> Int] /\ s[0] = 0
    BY <1>2
<1>4. ASSUME NEW x \in 1..(d - 1)
      PROVE  s[x] = s[x - 1] + Deviation(stops, target, f[x], f[x + 1])
    <2>1. x \in 1..d /\ s[x] = r[x] /\ s[x - 1] = r[x - 1] /\ f[x] = e[x] /\ f[x + 1] = e[x + 1]
        OBVIOUS
    <2> HIDE DEF s
    <2>2. QED
        BY <1>2, <2>1
<1>5. s[d - 1] = r[d - 1]
    OBVIOUS
<1> HIDE DEF s
<1>6. s \in Running(d - 1, [x \in 1..(d - 1) |-> Deviation(stops, target, f[x], f[x + 1])])
    BY <1>3, <1>4 DEF Running
<1>7. Costs(stops, target, f, d - 1, r[d - 1])
    BY <1>5, <1>6 DEF Costs
<1>8. r[d - 1] \in Int /\ c = r[d - 1] + Deviation(stops, target, e[d], e[d + 1])
    BY <1>1, <1>2
<1>9. QED
    BY <1>7, <1>8

\* A way to end day d at stop i, and one that deviates least.
IsWay(stops, target, b, d, i) ==
    /\ b.ends \in Seq(Nat) /\ Len(b.ends) = d + 1 /\ b.ends \in Splits(d, i)
    /\ b.cost \in Nat /\ Costs(stops, target, b.ends, d, b.cost)

IsBestWay(stops, target, b, d, i) ==
    /\ IsWay(stops, target, b, d, i)
    /\ \A e \in Splits(d, i), c \in Int : Costs(stops, target, e, d, c) => b.cost <= c

Reached(d, i) == IF d = 0 THEN i = 1 ELSE d < i

\* A row of the table holds nothing but best ways, and one for each stop in reach.
RowRight(stops, target, row, d) ==
    \A i \in 1..Len(stops) :
        /\ \A b \in row[i] : IsBestWay(stops, target, b, d, i)
        /\ Reached(d, i) => row[i] # {}

LEMMA FirstRow ==
    ASSUME NEW stops, NEW target, Measured(stops), NEW row,
           \A i \in 1..Len(stops) : row[i] = IF i = 1 THEN {[cost |-> 0, ends |-> << 1 >>]} ELSE {}
    PROVE  RowRight(stops, target, row, 0)
<1> DEFINE b == [cost |-> 0, ends |-> << 1 >>]
<1>1. b.ends = <<1>> /\ b.cost = 0
    OBVIOUS
<1>2. b.ends \in Seq(Nat) /\ Len(b.ends) = 0 + 1 /\ b.ends \in Splits(0, 1)
    BY <1>1 DEF Splits
<1>3. Costs(stops, target, b.ends, 0, 0)
    <2> DEFINE r == [x \in 0..0 |-> 0]
    <2>1. r \in Running(0, [x \in 1..0 |-> Deviation(stops, target, b.ends[x], b.ends[x + 1])])
        BY DEF Running
    <2>2. r[0] = 0
        OBVIOUS
    <2> HIDE DEF r, b
    <2>3. QED
        BY <2>1, <2>2 DEF Costs
<1>4. ASSUME NEW e, NEW c \in Int, Costs(stops, target, e, 0, c) PROVE 0 <= c
    BY <1>4 DEF Costs, Running
<1>5. IsBestWay(stops, target, b, 0, 1)
    <2> HIDE DEF b
    <2>1. QED
        BY <1>1, <1>2, <1>3, <1>4 DEF IsBestWay, IsWay
<1> HIDE DEF b
<1>6. QED
    BY <1>5 DEF RowRight, Reached, b

LEMMA OptionFor ==
    ASSUME NEW stops, NEW target, NEW before, NEW d, NEW i, NEW k \in d..(i - 1), NEW b \in before[k]
    PROVE  [cost |-> b.cost + Deviation(stops, target, k, i), ends |-> Append(b.ends, i)]
              \in Options(stops, target, before, d, i)
<1> DEFINE Of(x) == {[cost |-> a.cost + Deviation(stops, target, x, i), ends |-> Append(a.ends, i)] :
                        a \in before[x]}
<1>1. [cost |-> b.cost + Deviation(stops, target, k, i), ends |-> Append(b.ends, i)] \in Of(k)
    OBVIOUS
<1>2. Options(stops, target, before, d, i) = UNION {Of(x) : x \in d..(i - 1)}
    BY DEF Options
<1> HIDE DEF Of
<1>3. QED
    BY <1>1, <1>2

LEMMA FromOption ==
    ASSUME NEW stops, NEW target, NEW before, NEW d, NEW i,
           NEW o \in Options(stops, target, before, d, i)
    PROVE  \E k \in d..(i - 1) : \E b \in before[k] :
              /\ o.cost = b.cost + Deviation(stops, target, k, i)
              /\ o.ends = Append(b.ends, i)
    BY DEF Options

LEMMA OptionsAreWays ==
    ASSUME NEW stops, Measured(stops), NEW target \in Int, NEW d \in Nat \ {0},
           NEW before, RowRight(stops, target, before, d - 1),
           NEW i \in 1..Len(stops), NEW o \in Options(stops, target, before, d, i)
    PROVE  /\ IsWay(stops, target, o, d, i)
           /\ StartOfLastDay(o) \in Nat
<1>k. PICK k \in d..(i - 1) : \E b \in before[k] :
         /\ o.cost = b.cost + Deviation(stops, target, k, i)
         /\ o.ends = Append(b.ends, i)
    BY FromOption
<1>1. PICK b \in before[k] :
         /\ o.cost = b.cost + Deviation(stops, target, k, i)
         /\ o.ends = Append(b.ends, i)
    BY <1>k
<1>2. k \in 1..Len(stops) /\ i \in Nat /\ k < i /\ Len(stops) \in Nat
    BY DEF Measured
<1>3. IsWay(stops, target, b, d - 1, k)
    BY <1>1, <1>2 DEF RowRight, IsBestWay
<1>4. PICK dev \in Nat : dev = Deviation(stops, target, k, i)
    BY <1>2, DeviationType
<1>5. o.cost \in Nat
    BY <1>1, <1>3, <1>4 DEF IsWay
<1>6. PICK e : e = o.ends
    OBVIOUS
<1>7. PICK f : f = b.ends
    OBVIOUS
<1>8. /\ f \in Seq(Nat) /\ Len(f) = d /\ f \in Splits(d - 1, k)
      /\ Costs(stops, target, f, d - 1, b.cost)
    <2>1. (d - 1) + 1 = d
        OBVIOUS
    <2>2. QED
        BY <1>3, <1>7, <2>1 DEF IsWay
<1>9. /\ e \in Seq(Nat) /\ Len(e) = d + 1
      /\ \A x \in 1..d : e[x] = f[x]
      /\ e[d + 1] = i
    BY <1>1, <1>2, <1>6, <1>7, <1>8, AppendProperties
<1>10. /\ f[1] = 1 /\ f[d] = k
       /\ \A x \in 1..(d - 1) : f[x] < f[x + 1]
       /\ \A x \in 1..d : f[x] <= k /\ f[x] >= 1 /\ f[x] \in Nat
    <2>1. f[1] = 1 /\ f[(d - 1) + 1] = k /\ (d - 1) + 1 = d
        BY <1>8 DEF Splits
    <2>2. \A x \in 1..(d - 1) : f[x] < f[x + 1]
        BY <1>8 DEF Splits
    <2>3. \A x \in 1..((d - 1) + 1) : f[x] >= x /\ f[x] <= k
        BY <1>2, <1>8, SplitsGoOn
    <2>4. \A x \in 1..d : f[x] \in Nat
        BY <1>8
    <2>5. ASSUME NEW x \in 1..d PROVE f[x] <= k /\ f[x] >= 1 /\ f[x] \in Nat
        <3>1. x \in 1..((d - 1) + 1) /\ x >= 1
            BY <2>1
        <3>2. f[x] >= x /\ f[x] <= k /\ f[x] \in Nat
            BY <2>3, <2>4, <3>1
        <3>3. QED
            BY <3>1, <3>2
    <2>6. f[1] = 1 /\ f[d] = k
        BY <2>1
    <2>7. QED
        BY <2>2, <2>5, <2>6
<1>11. e \in Splits(d, i)
    <2>1. e \in [1..(d + 1) -> Nat]
        BY <1>9
    <2>2. e[1] = 1
        BY <1>9, <1>10
    <2>3. ASSUME NEW x \in 1..d PROVE e[x] < e[x + 1]
        <3>1. CASE x = d
            BY <1>2, <1>9, <1>10, <3>1
        <3>2. CASE x # d
            <4>1. x \in 1..(d - 1) /\ x \in 1..d /\ x + 1 \in 1..d
                BY <3>2
            <4>2. QED
                BY <1>9, <1>10, <4>1
        <3>3. QED
            BY <3>1, <3>2
    <2>4. QED
        BY <1>9, <2>1, <2>2, <2>3 DEF Splits
<1>12. \A x \in 1..(d + 1) : e[x] \in 1..Len(stops)
    <2>1. ASSUME NEW x \in 1..(d + 1) PROVE e[x] \in 1..Len(stops)
        <3>1. CASE x = d + 1
            BY <1>9, <3>1
        <3>2. CASE x # d + 1
            <4>1. x \in 1..d
                BY <3>2
            <4>2. e[x] = f[x] /\ f[x] <= k /\ f[x] >= 1 /\ f[x] \in Nat
                BY <1>9, <1>10, <4>1
            <4>3. PICK n \in Nat : n = Len(stops)
                BY <1>2
            <4>4. k \in 1..n
                BY <1>2, <4>3
            <4>5. QED
                BY <4>2, <4>3, <4>4
        <3>3. QED
            BY <3>1, <3>2
    <2>2. QED
        BY <2>1
<1>13. Costs(stops, target, e, d, b.cost + Deviation(stops, target, e[d], e[d + 1]))
    <2>1. \A x \in 1..d : f[x] = e[x]
        BY <1>9
    <2>2. QED
        BY <1>8, <1>12, <2>1, CostsOneMore
<1>14. e[d] = k /\ e[d + 1] = i
    BY <1>9, <1>10
<1>15. Costs(stops, target, e, d, o.cost)
    BY <1>1, <1>13, <1>14
<1>16. StartOfLastDay(o) = k
    <2>1. Len(e) - 1 = d
        BY <1>9
    <2>2. QED
        BY <1>6, <1>14, <2>1 DEF StartOfLastDay
<1>17. QED
    BY <1>2, <1>5, <1>6, <1>9, <1>11, <1>15, <1>16 DEF IsWay

LEMMA CheapestExists ==
    ASSUME NEW options, options # {},
           \A o \in options : o.cost \in Nat /\ StartOfLastDay(o) \in Nat
    PROVE  Cheapest(options) # {}
<1> DEFINE costs == {o.cost : o \in options}
<1>1. costs \subseteq Nat /\ costs # {}
    OBVIOUS
<1>2. PICK c \in costs : \A y \in costs : ~ (y < c)
    <2> HIDE DEF costs
    <2>1. QED
        BY <1>1, LeastNumber
<1> DEFINE cheap  == {o \in options : o.cost = c}
           starts == {StartOfLastDay(o) : o \in cheap}
<1>3. starts \subseteq Nat /\ starts # {}
    BY <1>2
<1>4. PICK m \in starts : \A y \in starts : ~ (y < m)
    <2> HIDE DEF starts
    <2>1. QED
        BY <1>3, LeastNumber
<1>5. PICK o \in options : o.cost = c /\ StartOfLastDay(o) = m
    BY <1>4
<1>6. ASSUME NEW p \in options PROVE Better(o, p)
    <2>1. p.cost \in Nat /\ c \in Nat /\ ~ (p.cost < c)
        BY <1>1, <1>2
    <2>2. CASE p.cost = c
        <3>1. StartOfLastDay(p) \in starts
            BY <2>2
        <3>2. StartOfLastDay(p) \in Nat /\ m \in Nat /\ ~ (StartOfLastDay(p) < m)
            BY <1>3, <1>4, <3>1
        <3>3. QED
            BY <1>5, <2>2, <3>2 DEF Better
    <2>3. CASE p.cost # c
        BY <1>5, <2>1, <2>3 DEF Better
    <2>4. QED
        BY <2>2, <2>3
<1>7. o \in Cheapest(options)
    BY <1>6 DEF Cheapest
<1>8. QED
    BY <1>7

LEMMA NextRow ==
    ASSUME NEW stops, Measured(stops), NEW target \in Int, NEW d \in Nat \ {0},
           NEW before, RowRight(stops, target, before, d - 1),
           NEW row,
           \A i \in 1..Len(stops) : row[i] = Cheapest(Options(stops, target, before, d, i))
    PROVE  RowRight(stops, target, row, d)
<1>1. ASSUME NEW i \in 1..Len(stops), NEW b \in row[i] PROVE IsBestWay(stops, target, b, d, i)
    <2>1. /\ b \in Options(stops, target, before, d, i)
          /\ \A p \in Options(stops, target, before, d, i) : Better(b, p)
        BY DEF Cheapest
    <2>2. IsWay(stops, target, b, d, i)
        BY <2>1, OptionsAreWays
    <2>3. ASSUME NEW e \in Splits(d, i), NEW c \in Int, Costs(stops, target, e, d, c)
          PROVE  b.cost <= c
        <3> DEFINE f == [x \in 1..d |-> e[x]]
        <3>1. PICK k : k = e[d]
            OBVIOUS
        <3>2. /\ e \in [1..(d + 1) -> Nat] /\ e[1] = 1 /\ e[d + 1] = i
              /\ \A x \in 1..d : e[x] < e[x + 1]
            BY DEF Splits
        <3>3. \A x \in 1..(d + 1) : e[x] >= x /\ e[x] <= i
            BY SplitsGoOn
        <3>4. k \in Nat /\ k >= d /\ k < i
            BY <3>1, <3>2, <3>3
        <3>5. k \in d..(i - 1) /\ k \in 1..Len(stops)
            BY <3>4 DEF Measured
        <3>6. f \in Splits(d - 1, k)
            <4>1. f \in [1..((d - 1) + 1) -> Nat]
                <5>1. (d - 1) + 1 = d /\ \A x \in 1..d : e[x] \in Nat
                    BY <3>2
                <5>2. QED
                    BY <5>1
            <4>2. f[1] = 1 /\ f[(d - 1) + 1] = k
                BY <3>1, <3>2
            <4>3. \A x \in 1..(d - 1) : f[x] < f[x + 1]
                BY <3>2
            <4> HIDE DEF f
            <4>4. QED
                BY <4>1, <4>2, <4>3 DEF Splits
        <3>7. \A x \in 1..d : f[x] = e[x]
            OBVIOUS
        <3> HIDE DEF f
        <3>8. PICK a \in Int : /\ Costs(stops, target, f, d - 1, a)
                               /\ c = a + Deviation(stops, target, e[d], e[d + 1])
            BY <2>3, <3>7, CostsOneLess
        <3>9. before[k] # {}
            <4>1. Reached(d - 1, k)
                <5>1. CASE d - 1 = 0
                    BY <3>1, <3>2, <5>1 DEF Reached
                <5>2. CASE d - 1 # 0
                    BY <3>4, <5>2 DEF Reached
                <5>3. QED
                    BY <5>1, <5>2
            <4>2. QED
                BY <3>5, <4>1 DEF RowRight
        <3>10. PICK g \in before[k] : TRUE
            BY <3>9
        <3>11. IsBestWay(stops, target, g, d - 1, k)
            BY <3>5, <3>10 DEF RowRight
        <3>12. g.cost <= a /\ g.cost \in Nat
            BY <3>6, <3>8, <3>11 DEF IsBestWay, IsWay
        <3> DEFINE o == [cost |-> g.cost + Deviation(stops, target, k, i),
                         ends |-> Append(g.ends, i)]
        <3>13. o \in Options(stops, target, before, d, i)
            BY <3>5, <3>10, OptionFor
        <3>14. Better(b, o)
            <4> HIDE DEF o
            <4>1. QED
                BY <2>1, <3>13
        <3>15. b.cost \in Nat /\ Deviation(stops, target, k, i) \in Nat
            BY <2>2, <3>5, DeviationType DEF IsWay
        <3>16. o.cost = g.cost + Deviation(stops, target, k, i)
            OBVIOUS
        <3> HIDE DEF o
        <3>17. b.cost <= o.cost
            BY <3>12, <3>14, <3>15, <3>16 DEF Better
        <3>18. c = a + Deviation(stops, target, k, i)
            BY <3>1, <3>2, <3>8
        <3>19. QED
            BY <3>8, <3>12, <3>15, <3>16, <3>17, <3>18
    <2>4. QED
        BY <2>2, <2>3 DEF IsBestWay
<1>2. ASSUME NEW i \in 1..Len(stops), Reached(d, i) PROVE row[i] # {}
    <2>1. d < i /\ i \in Nat
        BY <1>2 DEF Reached
    <2>2. PICK k \in 1..Len(stops) : k = d
        BY <2>1 DEF Measured
    <2>3. Reached(d - 1, k)
        BY <2>2 DEF Reached
    <2>4. PICK g \in before[k] : TRUE
        BY <2>3 DEF RowRight
    <2>5. k \in d..(i - 1)
        BY <2>1, <2>2
    <2>6. Options(stops, target, before, d, i) # {}
        BY <2>4, <2>5, OptionFor
    <2>7. \A o \in Options(stops, target, before, d, i) : o.cost \in Nat /\ StartOfLastDay(o) \in Nat
        BY OptionsAreWays DEF IsWay
    <2>8. QED
        BY <2>6, <2>7, CheapestExists
<1>3. QED
    BY <1>1, <1>2 DEF RowRight

\* What one row holds, whatever the numbers.
LEMMA OptionsType ==
    ASSUME NEW stops, Measured(stops), NEW target \in Int, NEW d \in Nat \ {0},
           NEW before \in [1..Len(stops) -> SUBSET [cost : Nat, ends : Seq(Nat)]],
           NEW i \in 1..Len(stops)
    PROVE  Cheapest(Options(stops, target, before, d, i)) \subseteq [cost : Nat, ends : Seq(Nat)]
<1>1. ASSUME NEW k \in d..(i - 1), NEW b \in before[k]
      PROVE  [cost |-> b.cost + Deviation(stops, target, k, i), ends |-> Append(b.ends, i)]
                \in [cost : Nat, ends : Seq(Nat)]
    <2>1. k \in 1..Len(stops)
        BY DEF Measured
    <2>2. b \in [cost : Nat, ends : Seq(Nat)]
        BY <2>1
    <2>3. Deviation(stops, target, k, i) \in Nat
        BY <2>1, DeviationType
    <2>4. i \in Nat
        OBVIOUS
    <2>5. PICK e \in Seq(Nat) : e = b.ends
        BY <2>2
    <2>6. Append(e, i) \in Seq(Nat)
        BY <2>4, AppendProperties
    <2>7. b.cost + Deviation(stops, target, k, i) \in Nat
        BY <2>2, <2>3
    <2>8. QED
        BY <2>5, <2>6, <2>7
<1>2. Options(stops, target, before, d, i) \subseteq [cost : Nat, ends : Seq(Nat)]
    <2> DEFINE Of(x) == {[cost |-> a.cost + Deviation(stops, target, x, i), ends |-> Append(a.ends, i)] :
                            a \in before[x]}
    <2>1. Options(stops, target, before, d, i) = UNION {Of(x) : x \in d..(i - 1)}
        BY DEF Options
    <2>2. ASSUME NEW x \in d..(i - 1) PROVE Of(x) \subseteq [cost : Nat, ends : Seq(Nat)]
        BY <1>1
    <2> HIDE DEF Of
    <2>3. QED
        BY <2>1, <2>2
<1>3. QED
    BY <1>2 DEF Cheapest

\* The dynamic program finds a way that deviates least.
LEMMA BestEndsAreBest ==
    ASSUME NEW stops, Measured(stops), NEW target \in Int,
           NEW days \in Nat \ {0}, days < Len(stops)
    PROVE  \E b : /\ BestEnds(stops, target, days) = b.ends
                  /\ IsBestWay(stops, target, b, days, Len(stops))
<1> DEFINE n == Len(stops)
           T == [1..n -> SUBSET [cost : Nat, ends : Seq(Nat)]]
           first == [i \in 1..n |-> IF i = 1 THEN {[cost |-> 0, ends |-> <<1>>]} ELSE {}]
           Row(f, d) == [i \in 1..n |->
               IF d = 0 THEN IF i = 1 THEN {[cost |-> 0, ends |-> <<1>>]} ELSE {}
               ELSE Cheapest(Options(stops, target, f[d - 1], d, i))]
           F(f) == [d \in 0..days |-> Row(f, d)]
           best == CHOOSE f : f = F(f)
           step == [x \in (1..days) \X T |->
                       [i \in 1..n |-> Cheapest(Options(stops, target, x[2], x[1], i))]]
<1>0. n \in Nat /\ n \in 1..n
    BY DEF Measured
<1>1. BestEnds(stops, target, days) = (CHOOSE b \in best[days][n] : TRUE).ends
    BY DEF BestEnds
<1>2. first \in T
    <2>1. <<1>> \in Seq(Nat)
        OBVIOUS
    <2>2. [cost |-> 0, ends |-> <<1>>] \in [cost : Nat, ends : Seq(Nat)]
        BY <2>1
    <2>3. QED
        BY <2>2
<1>3. step \in [(1..days) \X T -> T]
    <2>1. ASSUME NEW x \in (1..days) \X T
          PROVE  [i \in 1..n |-> Cheapest(Options(stops, target, x[2], x[1], i))] \in T
        <3>1. x[1] \in Nat \ {0} /\ x[2] \in T
            OBVIOUS
        <3>2. ASSUME NEW i \in 1..n
              PROVE  Cheapest(Options(stops, target, x[2], x[1], i)) \subseteq [cost : Nat, ends : Seq(Nat)]
            BY <3>1, OptionsType
        <3>3. QED
            BY <3>2
    <2> HIDE DEF T
    <2>2. QED
        BY <2>1
<1>4. PICK g \in [0..days -> T] : g[0] = first /\ \A k \in 1..days : g[k] = step[<<k, g[k - 1]>>]
    <2> HIDE DEF step, T, first
    <2>1. Loops(T, first, days, step) # {}
        BY <1>2, <1>3, LoopExists
    <2>2. QED
        BY <2>1 DEF Loops
<1>5. g = F(g)
    <2>1. ASSUME NEW d \in 0..days PROVE g[d] = Row(g, d)
        <3>1. CASE d = 0
            BY <1>4, <3>1
        <3>2. CASE d # 0
            <4>1. d \in 1..days /\ g[d - 1] \in T
                BY <3>2
            <4>2. step[<<d, g[d - 1]>>] = [i \in 1..n |-> Cheapest(Options(stops, target, g[d - 1], d, i))]
                <5> HIDE DEF T
                <5>1. QED
                    BY <4>1
            <4>3. Row(g, d) = [i \in 1..n |-> Cheapest(Options(stops, target, g[d - 1], d, i))]
                BY <3>2
            <4> HIDE DEF step, Row
            <4>4. QED
                BY <1>4, <4>1, <4>2, <4>3
        <3>3. QED
            BY <3>1, <3>2
    <2>2. g = [d \in 0..days |-> g[d]]
        BY <1>4
    <2> HIDE DEF Row
    <2>3. QED
        BY <2>1, <2>2
<1>6. best = F(best)
    <2> HIDE DEF F
    <2>1. QED
        BY <1>5
<1> HIDE DEF best
<1> DEFINE good == {d \in 0..days : RowRight(stops, target, best[d], d)}
<1>7. 0 \in good
    <2>1. best[0] = Row(best, 0)
        <3> HIDE DEF Row
        <3>1. 0 \in 0..days
            OBVIOUS
        <3>2. QED
            BY <1>6, <3>1
    <2>2. \A i \in 1..Len(stops) : best[0][i] = IF i = 1 THEN {[cost |-> 0, ends |-> <<1>>]} ELSE {}
        BY <2>1
    <2> HIDE DEF Row
    <2>3. QED
        BY <2>2, FirstRow
<1>8. ASSUME NEW d \in 1..days, d - 1 \in good PROVE d \in good
    <2>1. best[d] = Row(best, d)
        <3> HIDE DEF Row
        <3>1. d \in 0..days
            OBVIOUS
        <3>2. QED
            BY <1>6, <3>1
    <2>2. \A i \in 1..Len(stops) : best[d][i] = Cheapest(Options(stops, target, best[d - 1], d, i))
        BY <2>1
    <2> HIDE DEF Row
    <2>3. RowRight(stops, target, best[d - 1], d - 1)
        BY <1>8
    <2>4. d \in Nat \ {0}
        OBVIOUS
    <2>5. PICK row, before : row = best[d] /\ before = best[d - 1]
        OBVIOUS
    <2>6. RowRight(stops, target, row, d)
        BY <2>2, <2>3, <2>4, <2>5, NextRow
    <2>7. QED
        BY <2>5, <2>6
<1>9. RowRight(stops, target, best[days], days)
    <2> HIDE DEF good
    <2>0. days \in Nat /\ days \in 0..days
        OBVIOUS
    <2>1. days \in good
        BY <1>7, <1>8, <2>0, AllUpTo
    <2>2. QED
        BY <2>1 DEF good
<1>10. Reached(days, n)
    BY <1>0 DEF Reached
<1>11. best[days][n] # {}
    BY <1>0, <1>9, <1>10 DEF RowRight
<1>12. PICK b \in best[days][n] : b = CHOOSE x \in best[days][n] : TRUE
    BY <1>11
<1>13. IsBestWay(stops, target, b, days, n)
    BY <1>0, <1>9 DEF RowRight
<1>14. QED
    BY <1>1, <1>12, <1>13

-----------------------------------------------------------------------------
\* The days of a plan

\* What a split costs is the sum over its days.
LEMMA CostIsSum ==
    ASSUME NEW stops, Measured(stops), NEW target \in Int, NEW d \in Nat,
           NEW e, Len(e) = d + 1, \A x \in 1..(d + 1) : e[x] \in 1..Len(stops)
    PROVE  Costs(stops, target, e, d, Cost(stops, target, e)) /\ Cost(stops, target, e) \in Int
<1> DEFINE val == [x \in 1..d |-> Deviation(stops, target, e[x], e[x + 1])]
           seq == [x \in 1..(Len(e) - 1) |-> x]
           F(f) == [s \in SUBSET (DOMAIN seq) |->
                       IF s = {} THEN 0
                       ELSE f[s \ {Max(s)}]
                            + Deviation(stops, target, e[seq[Max(s)]], e[seq[Max(s)] + 1])]
           iter == CHOOSE f : f = F(f)
<1>1. val \in [1..d -> Int]
    <2>1. ASSUME NEW x \in 1..d PROVE Deviation(stops, target, e[x], e[x + 1]) \in Int
        <3>1. e[x] \in 1..Len(stops) /\ e[x + 1] \in 1..Len(stops)
            OBVIOUS
        <3>2. QED
            BY <3>1, DeviationType
    <2>2. QED
        BY <2>1
<1>2. Cost(stops, target, e) = iter[DOMAIN seq]
    BY DEF Cost, FoldLeft, MapThenFoldSet
<1>3. DOMAIN seq = 1..d /\ \A x \in 1..d : seq[x] = x
    <2>1. Len(e) - 1 = d
        OBVIOUS
    <2>2. QED
        BY <2>1
<1> HIDE DEF val
<1>4. PICK f \in [SUBSET (1..d) -> Int] : Adds(f, d, val)
    BY <1>1, AdderExists DEF Adders
<1>5. \A s \in SUBSET (1..d) : s # {} =>
          Deviation(stops, target, e[seq[Max(s)]], e[seq[Max(s)] + 1]) = val[Max(s)]
    <2>1. ASSUME NEW s \in SUBSET (1..d), s # {} PROVE Max(s) \in 1..d
        <3>1. s \subseteq 1..d
            OBVIOUS
        <3>2. QED
            BY <2>1, <3>1, MaxOfSome
    <2> HIDE DEF seq
    <2>2. QED
        BY <1>3, <2>1 DEF val
<1> HIDE DEF seq
<1>6. \A g : F(g) = [s \in SUBSET (1..d) |-> IF s = {} THEN 0 ELSE g[s \ {Max(s)}] + val[Max(s)]]
    BY <1>3, <1>5
<1> HIDE DEF F
<1>7. f = F(f)
    BY <1>4, <1>6 DEF Adds
<1>8. iter = F(iter)
    BY <1>7
<1> HIDE DEF iter
<1>9. Adds(iter, d, val)
    BY <1>6, <1>8 DEF Adds
<1>10. PICK r : r \in Running(d, val)
    BY <1>1, RunningExists
<1>11. iter[1..d] = r[d]
    BY <1>9, <1>10, AdderRuns
<1>12. r[d] \in Int
    BY <1>10 DEF Running
<1>13. QED
    BY <1>2, <1>3, <1>10, <1>11, <1>12 DEF Costs, val

\* What a day rides is the sum of its segments.
LEMMA CyclingIsSum ==
    ASSUME NEW n \in Nat, NEW visited, DOMAIN visited = 1..n,
           \A x \in 1..n : visited[x].segment \in Int,
           NEW r \in Running(n, [x \in 1..n |-> visited[x].segment])
    PROVE  CyclingKm(visited) = r[n]
<1> DEFINE val == [x \in 1..n |-> visited[x].segment]
           F(f) == [s \in SUBSET (DOMAIN visited) |->
                       IF s = {} THEN 0 ELSE f[s \ {Max(s)}] + visited[Max(s)].segment]
           iter == CHOOSE f : f = F(f)
<1>1. CyclingKm(visited) = iter[DOMAIN visited]
    BY DEF CyclingKm, FoldLeft, MapThenFoldSet
<1>2. val \in [1..n -> Int]
    OBVIOUS
<1>3. \A s \in SUBSET (1..n) : s # {} => visited[Max(s)].segment = val[Max(s)]
    <2>1. ASSUME NEW s \in SUBSET (1..n), s # {} PROVE Max(s) \in 1..n
        <3>1. s \subseteq 1..n
            OBVIOUS
        <3>2. QED
            BY <2>1, <3>1, MaxOfSome
    <2>2. QED
        BY <2>1
<1> HIDE DEF val
<1>4. PICK f \in [SUBSET (1..n) -> Int] : Adds(f, n, val)
    BY <1>2, AdderExists DEF Adders
<1>5. \A g : F(g) = [s \in SUBSET (1..n) |-> IF s = {} THEN 0 ELSE g[s \ {Max(s)}] + val[Max(s)]]
    BY <1>3
<1> HIDE DEF F
<1>6. f = F(f)
    BY <1>4, <1>5 DEF Adds
<1>7. iter = F(iter)
    BY <1>6
<1> HIDE DEF iter
<1>8. Adds(iter, n, val)
    BY <1>5, <1>7 DEF Adds
<1>9. r \in Running(n, val)
    BY DEF val
<1>10. QED
    BY <1>1, <1>8, <1>9, AdderRuns

\* The days together ride the sum of what each rides.
LEMMA TogetherIsSum ==
    ASSUME NEW n \in Nat, NEW days, DOMAIN days = 1..n,
           \A x \in 1..n : days[x].km \in Int,
           NEW r \in Running(n, [x \in 1..n |-> days[x].km])
    PROVE  Together(days) = r[n]
<1> DEFINE val == [x \in 1..n |-> days[x].km]
           F(f) == [s \in SUBSET (DOMAIN days) |->
                       IF s = {} THEN 0 ELSE f[s \ {Max(s)}] + days[Max(s)].km]
           iter == CHOOSE f : f = F(f)
<1>1. Together(days) = iter[DOMAIN days]
    BY DEF Together, FoldLeft, MapThenFoldSet
<1>2. val \in [1..n -> Int]
    OBVIOUS
<1>3. \A s \in SUBSET (1..n) : s # {} => days[Max(s)].km = val[Max(s)]
    <2>1. ASSUME NEW s \in SUBSET (1..n), s # {} PROVE Max(s) \in 1..n
        <3>1. s \subseteq 1..n
            OBVIOUS
        <3>2. QED
            BY <2>1, <3>1, MaxOfSome
    <2>2. QED
        BY <2>1
<1> HIDE DEF val
<1>4. PICK f \in [SUBSET (1..n) -> Int] : Adds(f, n, val)
    BY <1>2, AdderExists DEF Adders
<1>5. \A g : F(g) = [s \in SUBSET (1..n) |-> IF s = {} THEN 0 ELSE g[s \ {Max(s)}] + val[Max(s)]]
    BY <1>3
<1> HIDE DEF F
<1>6. f = F(f)
    BY <1>4, <1>5 DEF Adds
<1>7. iter = F(iter)
    BY <1>6
<1> HIDE DEF iter
<1>8. Adds(iter, n, val)
    BY <1>5, <1>7 DEF Adds
<1>9. r \in Running(n, val)
    BY DEF val
<1>10. QED
    BY <1>1, <1>8, <1>9, AdderRuns

\* A stretch of a list adds up to the difference of two running sums.
LEMMA StretchAdds ==
    ASSUME NEW n \in Nat, NEW val \in [1..n -> Int], NEW r \in Running(n, val),
           NEW a \in 0..n, NEW b \in a..n
    PROVE  [k \in 0..(b - a) |-> r[a + k] - r[a]]
              \in Running(b - a, [x \in 1..(b - a) |-> val[a + x]])
<1>1. \A k \in 0..(b - a) : a + k \in 0..n /\ r[a + k] \in Int
    BY DEF Running
<1>2. \A k \in 1..(b - a) : a + k \in 1..n /\ r[a + k] = r[a + (k - 1)] + val[a + k]
    <2>1. ASSUME NEW k \in 1..(b - a) PROVE r[a + k] = r[a + (k - 1)] + val[a + k]
        <3>1. PICK j \in 1..n : j = a + k
            OBVIOUS
        <3>2. r[j] = r[j - 1] + val[j]
            BY DEF Running
        <3>3. j - 1 = a + (k - 1)
            BY <3>1
        <3>4. QED
            BY <3>1, <3>2, <3>3
    <2>2. QED
        BY <2>1
<1> DEFINE q == [k \in 0..(b - a) |-> r[a + k] - r[a]]
           w == [x \in 1..(b - a) |-> val[a + x]]
<1>3. q \in [0..(b - a) -> Int]
    <2>1. r[a] \in Int
        BY DEF Running
    <2>2. QED
        BY <1>1, <2>1
<1>4. q[0] = 0
    <2>1. a + 0 = a /\ r[a] \in Int /\ 0 \in 0..(b - a)
        BY DEF Running
    <2>2. QED
        BY <2>1
<1>5. ASSUME NEW k \in 1..(b - a) PROVE q[k] = q[k - 1] + w[k]
    <2>1. q[k] = r[a + k] - r[a] /\ q[k - 1] = r[a + (k - 1)] - r[a] /\ w[k] = val[a + k]
        OBVIOUS
    <2>2. a + k \in 1..n /\ k - 1 \in 0..(b - a) /\ k \in 0..(b - a)
        BY <1>2
    <2>3. r[a + k] \in Int /\ r[a] \in Int /\ r[a + (k - 1)] \in Int /\ val[a + k] \in Int
        BY <1>1, <2>2 DEF Running
    <2> HIDE DEF q, w
    <2>4. QED
        BY <1>2, <2>1, <2>3
<1> HIDE DEF q, w
<1>6. q \in Running(b - a, w)
    BY <1>3, <1>4, <1>5 DEF Running
<1>7. QED
    BY <1>6 DEF q, w

\* The running sums of the same values are the same.
LEMMA RunningSame ==
    ASSUME NEW n \in Nat, NEW val, NEW q \in Running(n, val), NEW r \in Running(n, val)
    PROVE  \A k \in 0..n : q[k] = r[k]
<1> DEFINE good == {k \in 0..n : q[k] = r[k]}
<1>1. 0 \in good
    BY DEF Running
<1>2. \A k \in 1..n : k - 1 \in good => k \in good
    BY DEF Running
<1> HIDE DEF good
<1>3. \A k \in 0..n : k \in good
    BY <1>1, <1>2, AllUpTo
<1>4. QED
    BY <1>3 DEF good

LEMMA DayCountRange ==
    ASSUME NEW stops, Len(stops) \in Nat, Len(stops) >= 2,
           stops[Len(stops)].from_start \in Nat, NEW target \in Nat \ {0}
    PROVE  /\ DayCount(stops, target) \in 1..(Len(stops) - 1)
           /\ DayCount(stops, target) > 1 =>
                 \/ DayCount(stops, target) = RoundedRatio(stops[Len(stops)].from_start, target)
                 \/ /\ DayCount(stops, target) = Len(stops) - 1
                    /\ RoundedRatio(stops[Len(stops)].from_start, target) >= Len(stops)
<1>1. PICK n \in Nat : n = Len(stops) /\ n >= 2
    OBVIOUS
<1>2. PICK km \in Nat : km = Last(stops).from_start /\ km = stops[Len(stops)].from_start
    BY DEF Last
<1>3. PICK ratio \in Nat : ratio = RoundedRatio(km, target)
    BY RoundedRatioIsNearest
<1>4. PICK raw \in Nat : raw = Max({1, ratio}) /\ raw >= 1 /\ raw \in {1, ratio}
    <2>1. \E m \in {1, ratio} : \A y \in {1, ratio} : m >= y
        <3>1. CASE ratio >= 1
            BY <3>1
        <3>2. CASE ratio < 1
            BY <3>2
        <3>3. QED
            BY <3>1, <3>2
    <2>2. Max({1, ratio}) \in {1, ratio} /\ Max({1, ratio}) >= 1
        BY <2>1 DEF Max
    <2>3. QED
        BY <2>2
<1>5. \E m \in {raw, n - 1} : \A y \in {raw, n - 1} : m <= y
    <2>1. CASE raw <= n - 1
        BY <1>1, <2>1
    <2>2. CASE raw > n - 1
        BY <1>1, <2>2
    <2>3. QED
        BY <1>1, <2>1, <2>2
<1>6. Min({raw, n - 1}) \in {raw, n - 1} /\ Min({raw, n - 1}) <= n - 1 /\ Min({raw, n - 1}) <= raw
    BY <1>5 DEF Min
<1>7. DayCount(stops, target) = Min({raw, n - 1})
    BY <1>1, <1>2, <1>3, <1>4 DEF DayCount
<1>8. PICK c \in Nat : c = DayCount(stops, target) /\ c \in {raw, n - 1} /\ c <= n - 1 /\ c <= raw
    BY <1>1, <1>6, <1>7
<1>9. c \in 1..(n - 1)
    BY <1>1, <1>4, <1>8
<1>10. c > 1 => c = ratio \/ (c = n - 1 /\ ratio >= n)
    BY <1>1, <1>4, <1>8
<1>11. QED
    BY <1>1, <1>2, <1>3, <1>8, <1>9, <1>10

\* The nights of a plan split the way, and no other split into as many days deviates less.
LEMMA EndsAreBest ==
    ASSUME NEW stops, Measured(stops), Len(stops) >= 2,
           stops[Len(stops)].from_start \in Nat, NEW target \in Nat \ {0},
           NEW days, days = DayCount(stops, target)
    PROVE  /\ Len(PlanEnds(stops, target)) = days + 1
           /\ PlanEnds(stops, target) \in Splits(days, Len(stops))
           /\ days > 1 => \A other \in AllEnds(stops, days) :
                 Cost(stops, target, PlanEnds(stops, target)) <= Cost(stops, target, other)
<1>1. PICK n \in Nat : n = Len(stops) /\ n >= 2
    BY DEF Measured
<1>2. days \in 1..(n - 1)
    BY <1>1, DayCountRange
<1>3. CASE days = 1
    <2> DEFINE e == <<1, Len(stops)>>
    <2>1. PlanEnds(stops, target) = e
        BY <1>3 DEF PlanEnds
    <2>2. Len(e) = 2 /\ e \in [1..2 -> Nat] /\ e[1] = 1 /\ e[2] = n
        BY <1>1
    <2> HIDE DEF e
    <2>3. e \in Splits(1, n)
        BY <1>1, <2>2 DEF Splits
    <2>4. QED
        BY <1>1, <1>3, <2>1, <2>2, <2>3
<1>4. CASE days # 1
    <2>1. PlanEnds(stops, target) = BestEnds(stops, target, days)
        BY <1>4 DEF PlanEnds
    <2>2. days \in Nat \ {0} /\ days < Len(stops) /\ target \in Int
        BY <1>1, <1>2
    <2>3. PICK b : /\ BestEnds(stops, target, days) = b.ends
                   /\ IsBestWay(stops, target, b, days, Len(stops))
        BY <2>2, BestEndsAreBest
    <2>4. PICK e : e = b.ends
        OBVIOUS
    <2>5. /\ Len(e) = days + 1 /\ e \in Splits(days, n)
          /\ Costs(stops, target, e, days, b.cost) /\ b.cost \in Nat
          /\ \A f \in Splits(days, n), c \in Int : Costs(stops, target, f, days, c) => b.cost <= c
        BY <1>1, <2>3, <2>4 DEF IsBestWay, IsWay
    <2>6. \A x \in 1..(days + 1) : e[x] \in 1..Len(stops)
        <3>1. \A x \in 1..(days + 1) : e[x] >= x /\ e[x] <= n
            BY <2>2, <2>5, SplitsGoOn
        <3>2. \A x \in 1..(days + 1) : e[x] \in Nat
            BY <2>5 DEF Splits
        <3>3. QED
            BY <1>1, <3>1, <3>2
    <2>7. Cost(stops, target, e) = b.cost
        <3>1. Costs(stops, target, e, days, Cost(stops, target, e))
            BY <2>2, <2>5, <2>6, CostIsSum
        <3>2. QED
            BY <2>2, <2>5, <3>1, RunningSame DEF Costs
    <2>8. ASSUME NEW other \in AllEnds(stops, days)
          PROVE  Cost(stops, target, e) <= Cost(stops, target, other)
        <3>1. /\ other \in [1..(days + 1) -> 1..Len(stops)]
              /\ other[1] = 1 /\ other[days + 1] = Len(stops)
              /\ \A d \in 1..days : other[d] < other[d + 1]
            BY DEF AllEnds
        <3>2. Len(other) = days + 1 /\ \A x \in 1..(days + 1) : other[x] \in 1..Len(stops)
            BY <2>2, <3>1
        <3>3. other \in Splits(days, n)
            BY <1>1, <3>1 DEF Splits
        <3>4. /\ Costs(stops, target, other, days, Cost(stops, target, other))
              /\ Cost(stops, target, other) \in Int
            BY <2>2, <3>2, CostIsSum
        <3>5. QED
            BY <2>5, <2>7, <3>3, <3>4
    <2>9. QED
        BY <1>1, <2>1, <2>3, <2>4, <2>5, <2>8
<1>5. QED
    BY <1>3, <1>4

\* A day of the plan.
DayFrom(stops, e, day, d) ==
    /\ day.from = stops[e[d]].town /\ day.to = stops[e[d + 1]].town
    /\ day.km = CyclingKm(SubSeq(stops, e[d] + 1, e[d + 1]))

LEMMA PlanIsListed ==
    ASSUME NEW stops, Len(stops) \in Nat, Len(stops) >= 2, NEW target, NEW c \in Nat,
           NEW e, e = PlanEnds(stops, target), Len(e) = c + 1,
           NEW days, days = SuggestDayPlan(stops, target)
    PROVE  /\ DOMAIN days = 1..c /\ Len(days) = c
           /\ \A d \in 1..c : DayFrom(stops, e, days[d], d)
<1>1. days = [d \in 1..(Len(e) - 1) |->
                LET visited == SubSeq(stops, e[d] + 1, e[d + 1])
                IN  [from |-> stops[e[d]].town, to |-> stops[e[d + 1]].town,
                     km |-> CyclingKm(visited),
                     ferry |-> \E i \in 1..Len(visited) : visited[i].ferry]]
    <2>1. ~ (Len(stops) < 2)
        OBVIOUS
    <2>2. QED
        BY <2>1 DEF SuggestDayPlan
<1>2. Len(e) - 1 = c
    OBVIOUS
<1>3. DOMAIN days = 1..c
    BY <1>1, <1>2
<1>4. Len(days) = c
    BY <1>1, <1>2
<1>5. ASSUME NEW d \in 1..c PROVE DayFrom(stops, e, days[d], d)
    BY <1>1, <1>2 DEF DayFrom
<1>6. QED
    BY <1>3, <1>4, <1>5

\* What a day rides is the difference of two running sums of the segments.
LEMMA DayRides ==
    ASSUME NEW S, NEW stops \in Seq(S), \A i \in 1..Len(stops) : stops[i].segment \in Int,
           NEW sums \in Running(Len(stops), [i \in 1..Len(stops) |-> stops[i].segment]),
           NEW a \in 1..Len(stops), NEW b \in (a + 1)..Len(stops)
    PROVE  CyclingKm(SubSeq(stops, a + 1, b)) = sums[b] - sums[a]
<1>1. PICK n \in Nat : n = Len(stops)
    OBVIOUS
<1> DEFINE val == [i \in 1..n |-> stops[i].segment]
           w == [x \in 1..(b - a) |-> val[a + x]]
           q == [k \in 0..(b - a) |-> sums[a + k] - sums[a]]
<1>2. PICK visited : visited = SubSeq(stops, a + 1, b)
    OBVIOUS
<1>3. a \in 0..n /\ b \in a..n /\ a + 1 \in 1..(n + 1) /\ b \in ((a + 1) - 1)..n
    BY <1>1
<1>4. /\ visited \in Seq(S) /\ Len(visited) = (b - (a + 1)) + 1
      /\ \A x \in 1..((b - (a + 1)) + 1) : visited[x] = stops[((a + 1) + x) - 1]
    BY <1>1, <1>2, <1>3, SubSeqProperties
<1>5. (b - (a + 1)) + 1 = b - a /\ b - a \in Nat
    BY <1>1
<1>6. DOMAIN visited = 1..(b - a)
    BY <1>4, <1>5
<1>7. ASSUME NEW x \in 1..(b - a)
      PROVE  visited[x].segment = val[a + x] /\ visited[x].segment \in Int
    <2>1. ((a + 1) + x) - 1 = a + x /\ a + x \in 1..n
        BY <1>1
    <2>2. visited[x] = stops[a + x]
        BY <1>4, <1>5, <2>1
    <2>3. QED
        BY <1>1, <2>1, <2>2
<1>8. val \in [1..n -> Int] /\ sums \in Running(n, val)
    BY <1>1
<1> HIDE DEF val
<1>9. q \in Running(b - a, w)
    BY <1>3, <1>8, StretchAdds
<1>10. w = [x \in 1..(b - a) |-> visited[x].segment]
    BY <1>7
<1> HIDE DEF w
<1>11. CyclingKm(visited) = q[b - a]
    <2> HIDE DEF q
    <2>1. QED
        BY <1>5, <1>6, <1>7, <1>9, <1>10, CyclingIsSum
<1>12. q[b - a] = sums[b] - sums[a]
    <2>1. b - a \in 0..(b - a) /\ a + (b - a) = b
        BY <1>1, <1>5
    <2>2. QED
        BY <2>1
<1>13. QED
    BY <1>2, <1>11, <1>12

\* The days lead from the first stop to the last, each from where the one before ended,
\* and ride all segments but the first.
LEMMA DaysLeadOn ==
    ASSUME NEW S, NEW stops \in Seq(S), Measured(stops), Len(stops) >= 2,
           stops[Len(stops)].from_start \in Nat, NEW target \in Nat \ {0},
           \A i \in 1..Len(stops) : stops[i].segment \in Int,
           NEW sums \in Running(Len(stops), [i \in 1..Len(stops) |-> stops[i].segment]),
           NEW days, days = SuggestDayPlan(stops, target)
    PROVE  /\ Len(days) = DayCount(stops, target) /\ Len(days) \in 1..(Len(stops) - 1)
           /\ days[1].from = stops[1].town
           /\ Last(days).to = Last(stops).town
           /\ \A d \in 2..Len(days) : days[d].from = days[d - 1].to
           /\ \A d \in 1..Len(days) : days[d].km \in Int
           /\ Together(days) = sums[Len(stops)] - sums[1]
<1>1. PICK n \in Nat : n = Len(stops) /\ n >= 2
    OBVIOUS
<1>2. PICK c : c = DayCount(stops, target)
    OBVIOUS
<1>3. c \in 1..(n - 1) /\ c \in Nat
    BY <1>1, <1>2, DayCountRange
<1>4. PICK e : e = PlanEnds(stops, target)
    OBVIOUS
<1>5. Len(e) = c + 1 /\ e \in Splits(c, n)
    BY <1>1, <1>2, <1>4, EndsAreBest
<1>6. /\ e[1] = 1 /\ e[c + 1] = n /\ \A d \in 1..c : e[d] < e[d + 1]
      /\ \A d \in 1..(c + 1) : e[d] \in 1..n
    <2>1. e[1] = 1 /\ e[c + 1] = n /\ (\A d \in 1..c : e[d] < e[d + 1])
          /\ \A d \in 1..(c + 1) : e[d] \in Nat
        BY <1>5 DEF Splits
    <2>2. \A d \in 1..(c + 1) : e[d] >= d /\ e[d] <= n
        BY <1>3, <1>5, SplitsGoOn
    <2>3. \A d \in 1..(c + 1) : e[d] \in 1..n
        BY <2>1, <2>2
    <2>4. QED
        BY <2>1, <2>3
<1>7. /\ DOMAIN days = 1..c /\ Len(days) = c
      /\ \A d \in 1..c : DayFrom(stops, e, days[d], d)
    BY <1>1, <1>3, <1>4, <1>5, PlanIsListed
<1>8. days[1].from = stops[1].town
    BY <1>3, <1>6, <1>7 DEF DayFrom
<1>9. Last(days).to = Last(stops).town
    <2>1. Last(days) = days[c] /\ c \in 1..c /\ Last(stops) = stops[n]
        BY <1>1, <1>3, <1>7 DEF Last
    <2>2. QED
        BY <1>6, <1>7, <2>1 DEF DayFrom
<1>10. ASSUME NEW d \in 2..c PROVE days[d].from = days[d - 1].to
    <2>1. d \in 1..c /\ d - 1 \in 1..c /\ (d - 1) + 1 = d
        BY <1>3
    <2>2. days[d].from = stops[e[d]].town /\ days[d - 1].to = stops[e[(d - 1) + 1]].town
        BY <1>7, <2>1 DEF DayFrom
    <2>3. QED
        BY <2>1, <2>2
<1>11. ASSUME NEW d \in 1..c
       PROVE  /\ days[d].km = sums[e[d + 1]] - sums[e[d]]
              /\ sums[e[d]] \in Int /\ sums[e[d + 1]] \in Int
    <2>1. d \in 1..(c + 1) /\ d + 1 \in 1..(c + 1)
        BY <1>3
    <2>2. PICK a \in 1..n, b \in 1..n : a = e[d] /\ b = e[d + 1] /\ a < b
        BY <1>6, <2>1
    <2>3. b \in (a + 1)..n
        BY <1>1, <2>2
    <2>4. CyclingKm(SubSeq(stops, a + 1, b)) = sums[b] - sums[a]
        BY <1>1, <2>2, <2>3, DayRides
    <2>5. days[d].km = CyclingKm(SubSeq(stops, a + 1, b))
        BY <1>7, <2>2 DEF DayFrom
    <2>6. sums[a] \in Int /\ sums[b] \in Int
        <3>1. a \in 0..Len(stops) /\ b \in 0..Len(stops)
            BY <1>1, <2>2
        <3>2. QED
            BY <3>1 DEF Running
    <2>7. QED
        BY <2>2, <2>4, <2>5, <2>6
<1> DEFINE val == [d \in 1..c |-> days[d].km]
           q == [d \in 0..c |-> sums[e[d + 1]] - sums[e[1]]]
<1>12. ASSUME NEW d \in 0..c PROVE sums[e[d + 1]] \in Int /\ sums[e[1]] \in Int
    <2>1. d + 1 \in 1..(c + 1) /\ 1 \in 1..(c + 1)
        BY <1>3
    <2>2. e[d + 1] \in 1..n /\ e[1] \in 1..n
        BY <1>6, <2>1
    <2>3. QED
        BY <1>1, <2>2 DEF Running
<1>13. q \in Running(c, val)
    <2>1. q \in [0..c -> Int]
        BY <1>12
    <2>2. q[0] = 0
        <3>1. 0 \in 0..c /\ 0 + 1 = 1
            BY <1>3
        <3>2. q[0] = sums[e[1]] - sums[e[1]]
            BY <3>1
        <3> HIDE DEF q
        <3>3. QED
            BY <1>12, <3>1, <3>2
    <2>3. ASSUME NEW d \in 1..c PROVE q[d] = q[d - 1] + val[d]
        <3>1. d \in 0..c /\ d - 1 \in 0..c /\ (d - 1) + 1 = d
            BY <1>3
        <3>2. q[d] = sums[e[d + 1]] - sums[e[1]]
            BY <3>1
        <3>3. q[d - 1] = sums[e[d]] - sums[e[1]]
            BY <3>1
        <3>4. val[d] = sums[e[d + 1]] - sums[e[d]]
            BY <1>11
        <3> HIDE DEF q, val
        <3>5. QED
            BY <1>11, <1>12, <3>1, <3>2, <3>3, <3>4
    <2> HIDE DEF q, val
    <2>4. QED
        BY <2>1, <2>2, <2>3 DEF Running
<1>14. \A d \in 1..c : days[d].km \in Int
    BY <1>11
<1>15. Together(days) = q[c]
    <2>1. val = [x \in 1..c |-> days[x].km]
        OBVIOUS
    <2> HIDE DEF q, val
    <2>2. q \in Running(c, [x \in 1..c |-> days[x].km])
        BY <1>13, <2>1
    <2>3. DOMAIN days = 1..c
        BY <1>7
    <2>4. QED
        BY <1>3, <1>14, <2>2, <2>3, TogetherIsSum, ZenonT(30)
<1>16. q[c] = sums[n] - sums[1]
    <2>1. c \in 0..c
        BY <1>3
    <2>2. q[c] = sums[e[c + 1]] - sums[e[1]]
        BY <2>1
    <2>3. QED
        BY <1>6, <2>2
<1>17. QED
    BY <1>1, <1>2, <1>3, <1>7, <1>8, <1>9, <1>10, <1>14, <1>15, <1>16

-----------------------------------------------------------------------------
\* The stops of a variant

\* A list of the members of a set, up to a number, in order.
InTurn(p, k, set) ==
    /\ p \in Seq(Nat)
    /\ \A x \in 1..Len(p) : p[x] \in 1..k /\ p[x] \in set
    /\ \A x \in 1..(Len(p) - 1) : p[x] < p[x + 1]
    /\ \A i \in 1..k : i \in set => \E x \in 1..Len(p) : p[x] = i

\* One number more.
LEMMA OneMoreInTurn ==
    ASSUME NEW k \in Nat \ {0}, NEW set, NEW p, InTurn(p, k - 1, set),
           NEW p1, p1 = IF k \in set THEN Append(p, k) ELSE p
    PROVE  InTurn(p1, k, set)
<1>1. PICK m \in Nat : m = Len(p)
    BY DEF InTurn
<1>2. /\ p \in Seq(Nat)
      /\ \A x \in 1..m : p[x] \in 1..(k - 1) /\ p[x] \in set
      /\ \A x \in 1..(m - 1) : p[x] < p[x + 1]
      /\ \A i \in 1..(k - 1) : i \in set => \E x \in 1..m : p[x] = i
    BY <1>1 DEF InTurn
<1>3. CASE k \notin set
    <2>1. p1 = p
        BY <1>3
    <2>2. \A x \in 1..m : p1[x] \in 1..k /\ p1[x] \in set
        BY <1>2, <2>1
    <2>3. \A i \in 1..k : i \in set => \E x \in 1..m : p1[x] = i
        BY <1>2, <1>3, <2>1
    <2>4. QED
        BY <1>1, <1>2, <2>1, <2>2, <2>3 DEF InTurn
<1>4. CASE k \in set
    <2>1. p1 = Append(p, k)
        BY <1>4
    <2>2. /\ p1 \in Seq(Nat) /\ Len(p1) = m + 1 /\ p1[m + 1] = k
          /\ \A x \in 1..m : p1[x] = p[x]
        BY <1>1, <1>2, <2>1, AppendProperties
    <2>3. \A x \in 1..(m + 1) : x \in 1..m \/ x = m + 1
        OBVIOUS
    <2>4. ASSUME NEW x \in 1..(m + 1) PROVE p1[x] \in 1..k /\ p1[x] \in set
        <3>1. CASE x \in 1..m
            BY <1>2, <2>2, <3>1
        <3>2. CASE x = m + 1
            BY <1>4, <2>2, <3>2
        <3>3. QED
            BY <2>3, <3>1, <3>2
    <2>5. ASSUME NEW x \in 1..m PROVE p1[x] < p1[x + 1]
        <3>1. CASE x = m
            BY <1>2, <2>2, <3>1
        <3>2. CASE x # m
            <4>1. x \in 1..(m - 1) /\ x + 1 \in 1..m
                BY <3>2
            <4>2. QED
                BY <1>2, <2>2, <4>1
        <3>3. QED
            BY <3>1, <3>2
    <2>6. ASSUME NEW i \in 1..k, i \in set PROVE \E x \in 1..(m + 1) : p1[x] = i
        <3>1. CASE i = k
            <4>1. m + 1 \in 1..(m + 1)
                OBVIOUS
            <4>2. QED
                BY <2>2, <3>1, <4>1
        <3>2. CASE i # k
            <4>1. i \in 1..(k - 1)
                BY <3>2
            <4>2. PICK x \in 1..m : p[x] = i
                BY <1>2, <2>6, <4>1
            <4>3. x \in 1..(m + 1)
                OBVIOUS
            <4>4. QED
                BY <2>2, <4>2, <4>3
        <3>3. QED
            BY <3>1, <3>2
    <2>7. (m + 1) - 1 = m
        OBVIOUS
    <2>8. QED
        BY <2>2, <2>4, <2>5, <2>6, <2>7 DEF InTurn
<1>5. QED
    BY <1>3, <1>4

Overnight(v) == {i \in 1..Len(v.anchors) : v.anchors[i].overnight}

\* The nights of a variant are its overnight anchors in turn.
LEMMA NightsInTurn ==
    ASSUME NEW v, Len(v.anchors) \in Nat
    PROVE  InTurn(Nights(v), Len(v.anchors), Overnight(v))
<1>1. PICK n \in Nat : n = Len(v.anchors)
    OBVIOUS
<1>2. PICK set : set = Overnight(v)
    OBVIOUS
<1> DEFINE F(f) == [i \in 0..Len(v.anchors) |->
                       IF i = 0 THEN <<>>
                       ELSE IF v.anchors[i].overnight THEN Append(f[i - 1], i) ELSE f[i - 1]]
           G(f) == [i \in 0..n |->
                       IF i = 0 THEN <<>>
                       ELSE IF i \in set THEN Append(f[i - 1], i) ELSE f[i - 1]]
           till == CHOOSE f : f = F(f)
           step == [x \in (1..n) \X Seq(Nat) |->
                       IF x[1] \in set THEN Append(x[2], x[1]) ELSE x[2]]
<1>3. Nights(v) = till[n]
    BY <1>1 DEF Nights
<1>4. ASSUME NEW f PROVE F(f) = G(f)
    <2>1. \A i \in 1..n : i \in set <=> v.anchors[i].overnight
        BY <1>1, <1>2, Zenon DEF Overnight
    <2>2. ASSUME NEW i \in 0..n, i # 0
          PROVE  (IF v.anchors[i].overnight THEN Append(f[i - 1], i) ELSE f[i - 1])
                    = IF i \in set THEN Append(f[i - 1], i) ELSE f[i - 1]
        <3>1. i \in 1..n
            BY <2>2
        <3>2. i \in set <=> v.anchors[i].overnight
            BY <2>1, <3>1, Zenon
        <3>3. QED
            BY <3>2, Zenon
    <2>3. QED
        BY <1>1, <2>2
<1> HIDE DEF F
<1>5. <<>> \in Seq(Nat) /\ step \in [(1..n) \X Seq(Nat) -> Seq(Nat)]
    <2>1. ASSUME NEW k \in 1..n, NEW s \in Seq(Nat) PROVE Append(s, k) \in Seq(Nat)
        BY AppendProperties
    <2>2. QED
        BY <2>1
<1>6. PICK g \in [0..n -> Seq(Nat)] : g[0] = <<>> /\ \A k \in 1..n : g[k] = step[<<k, g[k - 1]>>]
    <2> HIDE DEF step
    <2>1. Loops(Seq(Nat), <<>>, n, step) # {}
        BY <1>5, LoopExists
    <2>2. QED
        BY <2>1 DEF Loops
<1>7. g = G(g)
    <2>1. ASSUME NEW k \in 0..n PROVE g[k] = G(g)[k]
        <3>1. CASE k = 0
            BY <1>6, <3>1
        <3>2. CASE k # 0
            <4>1. k \in 1..n /\ g[k - 1] \in Seq(Nat)
                BY <3>2
            <4>2. step[<<k, g[k - 1]>>] = IF k \in set THEN Append(g[k - 1], k) ELSE g[k - 1]
                BY <4>1
            <4>3. G(g)[k] = IF k \in set THEN Append(g[k - 1], k) ELSE g[k - 1]
                BY <3>2
            <4> HIDE DEF step, G
            <4>4. QED
                BY <1>6, <4>1, <4>2, <4>3
        <3>3. QED
            BY <3>1, <3>2
    <2>2. g = [k \in 0..n |-> g[k]] /\ G(g) = [k \in 0..n |-> G(g)[k]]
        OBVIOUS
    <2> HIDE DEF G
    <2>3. QED
        BY <2>1, <2>2
<1>8. till = G(till)
    <2> HIDE DEF G
    <2>1. \A f : F(f) = G(f)
        BY <1>4
    <2>2. till = F(till)
        BY <1>7, <2>1
    <2>3. QED
        BY <2>1, <2>2
<1> HIDE DEF till
<1> DEFINE good == {k \in 0..n : InTurn(till[k], k, set)}
<1>9. 0 \in good
    <2>1. till[0] = <<>>
        BY <1>8
    <2>2. InTurn(<<>>, 0, set)
        BY DEF InTurn
    <2>3. QED
        BY <2>1, <2>2
<1>10. ASSUME NEW k \in 1..n, k - 1 \in good PROVE k \in good
    <2>1. till[k] = IF k \in set THEN Append(till[k - 1], k) ELSE till[k - 1]
        <3>1. G(till)[k] = IF k \in set THEN Append(till[k - 1], k) ELSE till[k - 1]
            OBVIOUS
        <3> HIDE DEF G
        <3>2. QED
            BY <1>8, <3>1
    <2>2. InTurn(till[k - 1], k - 1, set)
        BY <1>10
    <2>3. InTurn(till[k], k, set)
        <3>1. k \in Nat \ {0}
            OBVIOUS
        <3>2. PICK p, p1 : p = till[k - 1] /\ p1 = till[k]
            OBVIOUS
        <3>3. InTurn(p, k - 1, set) /\ p1 = IF k \in set THEN Append(p, k) ELSE p
            BY <2>1, <2>2, <3>2
        <3>4. InTurn(p1, k, set)
            BY <3>1, <3>3, OneMoreInTurn
        <3>5. QED
            BY <3>2, <3>4
    <2>4. QED
        BY <2>3
<1>11. n \in good
    <2>1. n \in 0..n
        OBVIOUS
    <2> HIDE DEF good, G
    <2>2. QED
        BY <1>9, <1>10, <2>1, AllUpTo
<1>12. QED
    BY <1>1, <1>2, <1>3, <1>11 DEF good

\* A list of numbers in turn grows at least as its positions, and begins and ends where
\* the set does.
LEMMA TurnsGoOn ==
    ASSUME NEW n \in Nat \ {0}, NEW set, NEW p, InTurn(p, n, set), 1 \in set, n \in set
    PROVE  /\ Len(p) \in Nat \ {0} /\ p[1] = 1 /\ p[Len(p)] = n
           /\ n > 1 => Len(p) >= 2
<1>1. PICK m \in Nat : m = Len(p)
    BY DEF InTurn
<1>2. /\ \A x \in 1..m : p[x] \in 1..n /\ p[x] \in set
      /\ \A x \in 1..(m - 1) : p[x] < p[x + 1]
      /\ \A i \in 1..n : i \in set => \E x \in 1..m : p[x] = i
    BY <1>1 DEF InTurn
<1>3. PICK a \in 1..m : p[a] = 1
    BY <1>2
<1>4. PICK b \in 1..m : p[b] = n
    BY <1>2
<1>5. a = 1
    <2>1. SUFFICES ASSUME a # 1 PROVE FALSE
        OBVIOUS
    <2>2. a - 1 \in 1..(m - 1) /\ a - 1 \in 1..m /\ (a - 1) + 1 = a
        BY <2>1
    <2>3. p[a - 1] < p[a] /\ p[a - 1] \in 1..n
        BY <1>2, <2>2
    <2>4. QED
        BY <1>3, <2>3
<1>6. b = m
    <2>1. SUFFICES ASSUME b # m PROVE FALSE
        OBVIOUS
    <2>2. b \in 1..(m - 1) /\ b + 1 \in 1..m
        BY <2>1
    <2>3. p[b] < p[b + 1] /\ p[b + 1] \in 1..n
        BY <1>2, <2>2
    <2>4. QED
        BY <1>4, <2>3
<1>7. m # 0
    BY <1>3
<1>8. n > 1 => m >= 2
    BY <1>3, <1>4, <1>5, <1>6, <1>7
<1>9. QED
    BY <1>1, <1>3, <1>4, <1>5, <1>6, <1>7, <1>8

LEMMA RoundedIsNear ==
    ASSUME NEW m \in Nat
    PROVE  Rounded(m) \in Nat /\ 100 * Rounded(m) <= m + 50 /\ m <= 100 * Rounded(m) + 50
<1>1. PICK a \in Nat : a = m + 50
    OBVIOUS
<1>2. a \div 100 \in Nat /\ a % 100 \in Nat /\ a % 100 < 100 /\ a = 100 * (a \div 100) + (a % 100)
    BY Division
<1>3. Rounded(m) = a \div 100
    BY <1>1 DEF Rounded
<1>4. QED
    BY <1>1, <1>2, <1>3

\* Sums of lengths grow.
LEMMA RunningGrows ==
    ASSUME NEW n \in Nat, NEW val \in [1..n -> Nat], NEW r \in Running(n, val), NEW a \in 0..n
    PROVE  \A b \in a..n : r[b] >= r[a]
<1> DEFINE good == {k \in 0..(n - a) : r[a + k] >= r[a]}
<1>1. \A k \in 0..n : r[k] \in Int
    BY DEF Running
<1>2. 0 \in good
    BY <1>1
<1>3. ASSUME NEW k \in 1..(n - a), k - 1 \in good PROVE k \in good
    <2>1. a + k \in 1..n /\ (a + k) - 1 = a + (k - 1) /\ a + (k - 1) \in 0..n /\ a + k \in 0..n
        OBVIOUS
    <2>2. r[a + k] = r[a + (k - 1)] + val[a + k] /\ val[a + k] \in Nat
        BY <2>1 DEF Running
    <2>3. r[a + (k - 1)] >= r[a]
        BY <1>3
    <2>4. r[a + k] >= r[a]
        BY <1>1, <2>1, <2>2, <2>3
    <2>5. QED
        BY <2>4
<1>4. n - a \in Nat
    OBVIOUS
<1> HIDE DEF good
<1>5. \A k \in 0..(n - a) : k \in good
    BY <1>2, <1>3, <1>4, AllUpTo
<1>6. ASSUME NEW b \in a..n PROVE r[b] >= r[a]
    <2>1. b - a \in good /\ a + (b - a) = b
        BY <1>5
    <2>2. r[a + (b - a)] >= r[a]
        BY <2>1 DEF good
    <2>3. QED
        BY <2>1, <2>2
<1>7. QED
    BY <1>6

\* The lengths from one hop to another.
LEMMA TotalOfStretch ==
    ASSUME NEW n \in Nat, NEW ns \in Seq(Nat), Len(ns) = n, NEW r \in Running(n, ns),
           NEW a \in 0..n, NEW b \in a..n
    PROVE  /\ Total(SubSeq(ns, a + 1, b)) = r[b] - r[a]
           /\ r[b] - r[a] \in Nat /\ r[a] \in Nat
<1>1. ns \in [1..n -> Nat] /\ ns \in [1..n -> Int]
    OBVIOUS
<1> DEFINE w == [x \in 1..(b - a) |-> ns[a + x]]
           q == [k \in 0..(b - a) |-> r[a + k] - r[a]]
<1>2. q \in Running(b - a, w)
    BY <1>1, StretchAdds, ZenonT(30)
<1>3. PICK part : part = SubSeq(ns, a + 1, b)
    OBVIOUS
<1>4. /\ part \in Seq(Nat) /\ Len(part) = (b - (a + 1)) + 1
      /\ \A x \in 1..((b - (a + 1)) + 1) : part[x] = ns[((a + 1) + x) - 1]
    <2>1. PICK k \in 1..(Len(ns) + 1) : k = a + 1
        OBVIOUS
    <2>2. b \in (k - 1)..Len(ns)
        BY <2>1
    <2>3. /\ SubSeq(ns, k, b) \in Seq(Nat) /\ Len(SubSeq(ns, k, b)) = (b - k) + 1
          /\ \A x \in 1..((b - k) + 1) : SubSeq(ns, k, b)[x] = ns[(k + x) - 1]
        BY <2>2, SubSeqProperties
    <2>4. QED
        BY <1>3, <2>1, <2>3
<1>5. (b - (a + 1)) + 1 = b - a /\ b - a \in Nat
    OBVIOUS
<1>6. ASSUME NEW x \in 1..(b - a) PROVE part[x] = w[x] /\ w[x] \in Int
    <2>1. ((a + 1) + x) - 1 = a + x /\ a + x \in 1..n
        OBVIOUS
    <2>2. part[x] = ns[a + x]
        BY <1>4, <1>5, <2>1
    <2>3. QED
        BY <1>1, <2>1, <2>2
<1>7. DOMAIN part = 1..(b - a)
    BY <1>4, <1>5
<1>8. part = [x \in 1..(b - a) |-> part[x]]
    BY <1>4, <1>7
<1>9. w = [x \in 1..(b - a) |-> w[x]]
    OBVIOUS
<1> HIDE DEF w
<1>10. part = w /\ w \in [1..(b - a) -> Int]
    BY <1>6, <1>8, <1>9
<1>11. Total(w) = q[b - a]
    <2> HIDE DEF q
    <2>1. QED
        BY <1>2, <1>5, <1>10, TotalIsSum
<1>12. q[b - a] = r[b] - r[a]
    <2>1. b - a \in 0..(b - a) /\ a + (b - a) = b
        BY <1>5
    <2>2. QED
        BY <2>1
<1>13. r[b] \in Int /\ r[a] \in Int /\ r[0] = 0
    BY DEF Running
<1>14. r[b] >= r[a]
    BY <1>1, RunningGrows
<1>15. r[a] >= r[0]
    <2>1. 0 \in 0..n /\ a \in 0..n
        OBVIOUS
    <2>2. QED
        BY <1>1, <2>1, RunningGrows
<1>16. r[b] - r[a] \in Nat /\ r[a] \in Nat
    BY <1>13, <1>14, <1>15
<1>17. Total(SubSeq(ns, a + 1, b)) = r[b] - r[a]
    <2> HIDE DEF q
    <2>1. QED
        BY <1>3, <1>10, <1>11, <1>12
<1>18. QED
    BY <1>16, <1>17

\* One more rounded length.
LEMMA RoundingAdds ==
    ASSUME NEW before \in Int, NEW after \in Int, NEW s \in Int, after = before + s,
           NEW past \in Int, NEW now \in Int, NEW k \in Int,
           100 * s <= (now - past) + 50, now - past <= 100 * s + 50,
           100 * before <= past + 50 * (k - 1), past <= 100 * before + 50 * (k - 1)
    PROVE  100 * after <= now + 50 * k /\ now <= 100 * after + 50 * k
    OBVIOUS

\* The stops of a variant that starts and ends at a night: the last one lies at the end
\* of the route, and what lies between them adds up to it but for the rounding.
StopsRight(stops, total) ==
    /\ stops \in Seq(ToSet(stops)) /\ Len(stops) \in Nat /\ Len(stops) >= 2
    /\ \A i \in 1..Len(stops) : stops[i].from_start \in Nat /\ stops[i].segment \in Int
    /\ \A sums \in Running(Len(stops), [i \in 1..Len(stops) |-> stops[i].segment]) :
          /\ 2 * (sums[Len(stops)] - sums[1]) <= 2 * total + Len(stops)
          /\ 2 * total <= 2 * (sums[Len(stops)] - sums[1]) + Len(stops)

LEMMA StopsOfVariant ==
    ASSUME NEW v, NEW n \in Nat, n = Len(v.anchors), n >= 2,
           1 \in Overnight(v), n \in Overnight(v),
           NEW ls \in Seq(Nat), Len(ls) = n - 1
    PROVE  /\ StopsRight(Stops(v, ls), Rounded(Total(ls)))
           /\ Len(Stops(v, ls)) = Len(Nights(v))
           /\ Stops(v, ls)[Len(Nights(v))].from_start = Rounded(Total(ls))
<1>1. PICK p : p = Nights(v)
    OBVIOUS
<1>2. InTurn(p, n, Overnight(v))
    BY <1>1, NightsInTurn
<1>3. PICK m \in Nat : m = Len(p) /\ m >= 2 /\ p[1] = 1 /\ p[m] = n
    BY <1>2, TurnsGoOn
<1>4. \A x \in 1..m : p[x] \in 1..n
    BY <1>2, <1>3 DEF InTurn
<1>5. \A x \in 1..(m - 1) : p[x] < p[x + 1]
    BY <1>2, <1>3 DEF InTurn
<1>6. PICK h \in Nat : h = n - 1
    OBVIOUS
<1>7. PICK r : r \in Running(h, ls)
    <2>1. ls \in [1..h -> Int]
        BY <1>6
    <2>2. QED
        BY <2>1, RunningExists
<1> DEFINE before(x) == IF x = 1 THEN 1 ELSE p[x - 1]
<1>8. PICK stops : stops = Stops(v, ls)
    OBVIOUS
<1>9. stops = [x \in 1..m |->
                [town |-> v.anchors[p[x]].town,
                 ferry |-> p[x] > 1 /\ v.anchors[p[x]].ferry,
                 from_start |-> Rounded(Total(SubSeq(ls, 1, p[x] - 1))),
                 segment |-> Rounded(Total(SubSeq(ls, before(x), p[x] - 1)))]]
    BY <1>1, <1>3, <1>8 DEF Stops
<1>10. Len(stops) = m /\ DOMAIN stops = 1..m
    BY <1>9
<1>11. stops \in Seq(ToSet(stops))
    <2>1. stops \in [1..m -> ToSet(stops)]
        BY <1>9, <1>10 DEF ToSet
    <2>2. QED
        BY <2>1, FunctionIsList
<1>12. ASSUME NEW x \in 1..m
       PROVE  /\ Total(SubSeq(ls, 1, p[x] - 1)) = r[p[x] - 1] /\ r[p[x] - 1] \in Nat
              /\ stops[x].from_start \in Nat
    <2>1. PICK b \in 0..h : b = p[x] - 1
        BY <1>4, <1>6
    <2>2. 0 \in 0..h /\ b \in 0..h /\ 0 + 1 = 1
        OBVIOUS
    <2>3. Total(SubSeq(ls, 0 + 1, b)) = r[b] - r[0] /\ r[b] - r[0] \in Nat
        BY <1>6, <1>7, <2>2, TotalOfStretch
    <2>4. r[0] = 0 /\ r[b] \in Int
        BY <1>7 DEF Running
    <2>5. stops[x].from_start = Rounded(Total(SubSeq(ls, 1, p[x] - 1)))
        BY <1>9
    <2>6. QED
        BY <2>1, <2>2, <2>3, <2>4, <2>5, RoundedIsNear
<1>13. ASSUME NEW x \in 1..m
       PROVE  \E d \in Nat : /\ stops[x].segment = Rounded(d)
                             /\ x # 1 => d = r[p[x] - 1] - r[p[x - 1] - 1]
    <2>1. PICK b \in 0..h : b = p[x] - 1
        BY <1>4, <1>6
    <2>2. PICK a \in 0..b : a + 1 = before(x) /\ (x # 1 => a = p[x - 1] - 1)
        <3>1. CASE x = 1
            BY <1>3, <2>1, <3>1
        <3>2. CASE x # 1
            <4>1. x - 1 \in 1..(m - 1) /\ x - 1 \in 1..m /\ (x - 1) + 1 = x
                BY <3>2
            <4>2. p[x - 1] < p[x] /\ p[x - 1] \in 1..n /\ p[x] \in 1..n
                BY <1>4, <1>5, <4>1
            <4>3. p[x - 1] - 1 \in 0..b
                BY <2>1, <4>2, SMTT(30)
            <4>4. QED
                BY <3>2, <4>2, <4>3
        <3>3. QED
            BY <3>1, <3>2
    <2>3. a \in 0..h /\ b \in a..h
        BY <1>6, <2>1
    <2>4. Total(SubSeq(ls, a + 1, b)) = r[b] - r[a] /\ r[b] - r[a] \in Nat
        BY <1>6, <1>7, <2>3, TotalOfStretch, SMTT(30)
    <2>5. stops[x].segment = Rounded(Total(SubSeq(ls, before(x), p[x] - 1)))
        BY <1>9
    <2>6. stops[x].segment = Rounded(r[b] - r[a])
        BY <2>1, <2>2, <2>4, <2>5
    <2>7. QED
        BY <2>1, <2>2, <2>4, <2>6
<1>14. Total(ls) = r[h] /\ r[h] \in Nat
    <2>1. ls \in [1..h -> Int]
        BY <1>6
    <2>2. Total(ls) = r[h]
        BY <1>7, <2>1, TotalIsSum
    <2>3. m \in 1..m
        BY <1>3
    <2>4. QED
        BY <1>3, <1>6, <1>12, <2>2, <2>3
<1>15. PICK total \in Nat : total = Rounded(Total(ls)) /\ 100 * total <= r[h] + 50
                                                     /\ r[h] <= 100 * total + 50
    BY <1>14, RoundedIsNear
<1>16. ASSUME NEW sums \in Running(m, [i \in 1..m |-> stops[i].segment])
       PROVE  /\ 2 * (sums[m] - sums[1]) <= 2 * total + m
              /\ 2 * total <= 2 * (sums[m] - sums[1]) + m
    <2>1. \A k \in 0..m : sums[k] \in Int
        BY DEF Running
    <2>2. \A k \in 1..m : sums[k] = sums[k - 1] + stops[k].segment
        BY DEF Running
    <2> DEFINE good == {k \in 0..(m - 1) :
                          /\ 100 * (sums[k + 1] - sums[1]) <= r[p[k + 1] - 1] + 50 * k
                          /\ r[p[k + 1] - 1] <= 100 * (sums[k + 1] - sums[1]) + 50 * k}
    <2>3. 0 \in good
        <3>1. p[0 + 1] - 1 = 0 /\ r[0] = 0
            BY <1>3, <1>7 DEF Running
        <3>2. sums[0 + 1] - sums[1] = 0
            <4>1. sums[1] \in Int
                BY <1>3, <2>1
            <4>2. QED
                BY <4>1
        <3>3. QED
            BY <1>3, <3>1, <3>2
    <2>4. ASSUME NEW k \in 1..(m - 1), k - 1 \in good PROVE k \in good
        <3>1. PICK x \in 1..m : x = k + 1
            BY <1>3
        <3>2. x # 1 /\ x - 1 = k /\ (k - 1) + 1 = k /\ k \in 1..m
            BY <3>1
        <3>3. PICK d \in Nat : /\ stops[x].segment = Rounded(d)
                               /\ d = r[p[x] - 1] - r[p[x - 1] - 1]
            BY <1>13, <3>2
        <3>4. PICK s \in Nat : s = stops[x].segment /\ 100 * s <= d + 50 /\ d <= 100 * s + 50
            BY <3>3, RoundedIsNear
        <3>5. PICK now, past \in Nat : now = r[p[x] - 1] /\ past = r[p[k] - 1]
            BY <1>12, <3>2
        <3>6. PICK S1, S2, S3 \in Int : S1 = sums[1] /\ S2 = sums[k] /\ S3 = sums[x]
            BY <1>3, <2>1, <3>2
        <3>7. S3 = S2 + s
            BY <2>2, <3>2, <3>4, <3>6
        <3>8. d = now - past
            BY <3>2, <3>3, <3>5
        <3>9. 100 * (S2 - S1) <= past + 50 * (k - 1) /\ past <= 100 * (S2 - S1) + 50 * (k - 1)
            BY <2>4, <3>2, <3>5, <3>6
        <3>10. 100 * (S3 - S1) <= now + 50 * k /\ now <= 100 * (S3 - S1) + 50 * k
            <4>1. PICK D2, D3 \in Int : D2 = S2 - S1 /\ D3 = S3 - S1
                OBVIOUS
            <4>2. D3 = D2 + s
                BY <3>7, <4>1
            <4>3. 100 * s <= (now - past) + 50 /\ now - past <= 100 * s + 50
                BY <3>4, <3>8
            <4>4. 100 * D2 <= past + 50 * (k - 1) /\ past <= 100 * D2 + 50 * (k - 1)
                BY <3>9, <4>1
            <4>5. k \in Int /\ s \in Int /\ now \in Int /\ past \in Int
                OBVIOUS
            <4>6. 100 * D3 <= now + 50 * k /\ now <= 100 * D3 + 50 * k
                BY <4>2, <4>3, <4>4, <4>5, RoundingAdds
            <4>7. QED
                BY <4>1, <4>6
        <3>11. 100 * (sums[k + 1] - sums[1]) <= r[p[k + 1] - 1] + 50 * k
               /\ r[p[k + 1] - 1] <= 100 * (sums[k + 1] - sums[1]) + 50 * k
            BY <3>1, <3>5, <3>6, <3>10
        <3>12. k \in 0..(m - 1)
            OBVIOUS
        <3>13. QED
            BY <3>11, <3>12
    <2>5. m - 1 \in Nat
        BY <1>3
    <2> HIDE DEF good
    <2>6. \A k \in 0..(m - 1) : k \in good
        BY <2>3, <2>4, <2>5, AllUpTo
    <2>7. m - 1 \in 0..(m - 1) /\ (m - 1) + 1 = m
        BY <1>3
    <2>8. /\ 100 * (sums[m] - sums[1]) <= r[p[m] - 1] + 50 * (m - 1)
          /\ r[p[m] - 1] <= 100 * (sums[m] - sums[1]) + 50 * (m - 1)
        BY <2>6, <2>7 DEF good
    <2>9. p[m] - 1 = h
        BY <1>3, <1>6
    <2>10. PICK S1, S3, T \in Int : S1 = sums[1] /\ S3 = sums[m] /\ T = r[h]
        BY <1>3, <1>14, <2>1
    <2>11. 100 * (S3 - S1) <= T + 50 * (m - 1) /\ T <= 100 * (S3 - S1) + 50 * (m - 1)
        BY <2>8, <2>9, <2>10
    <2>12. 100 * total <= T + 50 /\ T <= 100 * total + 50
        BY <1>15, <2>10
    <2>13. 2 * (S3 - S1) <= 2 * total + m /\ 2 * total <= 2 * (S3 - S1) + m
        BY <2>11, <2>12
    <2>14. QED
        BY <2>10, <2>13
<1>17. \A i \in 1..m : stops[i].from_start \in Nat /\ stops[i].segment \in Int
    <2>1. ASSUME NEW x \in 1..m PROVE stops[x].segment \in Int
        <3>1. PICK d \in Nat : stops[x].segment = Rounded(d)
            BY <1>13
        <3>2. QED
            BY <3>1, RoundedIsNear
    <2>2. QED
        BY <1>12, <2>1
<1>18. StopsRight(stops, total)
    BY <1>3, <1>10, <1>11, <1>16, <1>17 DEF StopsRight
<1>19. stops[m].from_start = Rounded(Total(ls))
    <2>1. m \in 1..m /\ p[m] - 1 = h
        BY <1>3, <1>6
    <2>2. Total(SubSeq(ls, 1, p[m] - 1)) = r[p[m] - 1]
        BY <1>12, <2>1
    <2>3. stops[m].from_start = Rounded(Total(SubSeq(ls, 1, p[m] - 1)))
        BY <1>9, <2>1
    <2>4. QED
        BY <1>14, <2>1, <2>2, <2>3
<1>20. QED
    BY <1>1, <1>3, <1>8, <1>10, <1>15, <1>18, <1>19

-----------------------------------------------------------------------------
\* Routes

Hop == [from : Towns, to : Towns, ferry : BOOLEAN]

OneDefault(vs) == \E i \in 1..Len(vs) : \A j \in 1..Len(vs) : vs[j].default <=> j = i

\* These are the variants of the file at f, one way or the other.
FiledAs(vs, f, start, end) ==
    /\ {Files[f].start, Files[f].end} = {start, end}
    /\ \/ vs = Files[f].variants
       \/ vs = [i \in 1..Len(Files[f].variants) |-> ReversedVariant(Files[f].variants[i])]

LEMMA CataloguedAreFiled ==
    ASSUME NEW start, NEW end, NEW vs, vs = CorridorVariants(start, end), vs # None
    PROVE  \E f \in 1..Len(Files) : FiledAs(vs, f, start, end)
<1> DEFINE hits == {i \in 1..Len(Files) : {Files[i].start, Files[i].end} = {start, end}}
<1>1. hits # {}
    BY DEF CorridorVariants
<1>2. Max(hits) \in 1..Len(Files) /\ Max(hits) \in hits
    <2>1. hits \subseteq 1..Len(Files) /\ Len(Files) \in Nat
        BY FilesAreValid DEF FilesAreValid
    <2> HIDE DEF hits
    <2>2. QED
        BY <1>1, <2>1, MaxOfSome
<1>3. PICK f \in 1..Len(Files) : f = Max(hits)
    BY <1>2
<1>4. \/ vs = Files[f].variants
      \/ vs = [i \in 1..Len(Files[f].variants) |-> ReversedVariant(Files[f].variants[i])]
    BY <1>1, <1>3 DEF CorridorVariants
<1>5. {Files[f].start, Files[f].end} = {start, end}
    BY <1>2, <1>3
<1>6. QED
    BY <1>4, <1>5 DEF FiledAs

\* A catalogued route has variants that lead somewhere, one of them the default.
LEMMA CataloguedAreWhole ==
    ASSUME NEW start, NEW end, NEW vs, vs = CorridorVariants(start, end), vs # None
    PROVE  /\ vs \in Seq(Variant)
           /\ \A i \in 1..Len(vs) : Len(vs[i].anchors) >= 2
           /\ OneDefault(vs)
<1> DEFINE hits == {i \in 1..Len(Files) : {Files[i].start, Files[i].end} = {start, end}}
           file == Files[Max(hits)]
<1>1. hits # {}
    BY DEF CorridorVariants
<1>2. Len(Files) \in Nat /\ DOMAIN Files = 1..Len(Files)
    BY FilesAreValid DEF FilesAreValid
<1>3. Max(hits) \in 1..Len(Files)
    <2>1. hits \subseteq 1..Len(Files)
        OBVIOUS
    <2> HIDE DEF hits
    <2>2. QED
        BY <1>1, <1>2, <2>1, MaxOfSome
<1>4. Valid(file)
    BY <1>2, <1>3, FilesAreValid DEF FilesAreValid
<1>5. vs = [i \in 1..Len(file.variants) |-> ReversedVariant(file.variants[i])]
         \/ vs = file.variants
    BY <1>1 DEF CorridorVariants
<1> HIDE DEF file
<1>6. PICK vars0 : vars0 = file.variants
    OBVIOUS
<1>7. /\ vars0 \in Seq(Variant)
      /\ \A i \in 1..Len(vars0) : Len(vars0[i].anchors) >= 2
      /\ OneDefault(vars0)
    BY <1>4, <1>6 DEF Valid, OneDefault
<1>8. ASSUME NEW v \in Variant
      PROVE  /\ ReversedVariant(v) \in Variant
             /\ ReversedVariant(v).default = v.default
             /\ Len(ReversedVariant(v).anchors) = Len(v.anchors)
    <2>1. PICK chain \in Seq(Anchor) : chain = v.anchors
        BY DEF Variant
    <2>2. Len(chain) \in Nat /\ \A k \in 1..Len(chain) : chain[(Len(chain) - k) + 1] \in Anchor
        <3>1. PICK n \in Nat : n = Len(chain)
            OBVIOUS
        <3>2. \A k \in 1..n : (n - k) + 1 \in 1..n
            OBVIOUS
        <3>3. \A k \in 1..n : chain[k] \in Anchor
            BY <3>1
        <3>4. QED
            BY <3>1, <3>2, <3>3
    <2>3. Reverse(chain) \in [1..Len(chain) -> Anchor]
        BY <2>2 DEF Reverse
    <2>4. Reverse(chain) \in Seq(Anchor) /\ Len(Reverse(chain)) = Len(chain)
        BY <2>2, <2>3, FunctionIsList
    <2>5. ReversedVariant(v) = [v EXCEPT !.anchors = Reverse(chain)]
        BY <2>1 DEF ReversedVariant
    <2> HIDE DEF Anchor
    <2>6. QED
        BY <2>1, <2>4, <2>5 DEF Variant
<1>9. CASE vs = vars0
    BY <1>7, <1>9
<1>10. CASE vs = [i \in 1..Len(vars0) |-> ReversedVariant(vars0[i])]
    <2>1. vs \in [1..Len(vars0) -> Variant] /\ Len(vars0) \in Nat
        BY <1>7, <1>8, <1>10
    <2>2. vs \in Seq(Variant) /\ Len(vs) = Len(vars0)
        BY <2>1, FunctionIsList
    <2>3. ASSUME NEW i \in 1..Len(vs)
          PROVE  vs[i].default = vars0[i].default /\ Len(vs[i].anchors) = Len(vars0[i].anchors)
        <3>1. vars0[i] \in Variant /\ vs[i] = ReversedVariant(vars0[i])
            BY <1>7, <1>10, <2>2
        <3>2. QED
            BY <1>8, <3>1
    <2>4. \A i \in 1..Len(vs) : Len(vs[i].anchors) >= 2
        BY <1>7, <2>2, <2>3
    <2>5. PICK i \in 1..Len(vars0) : \A j \in 1..Len(vars0) : vars0[j].default <=> j = i
        BY <1>7 DEF OneDefault
    <2>6. \A j \in 1..Len(vs) : vs[j].default <=> j = i
        BY <2>2, <2>3, <2>5, Zenon
    <2>7. QED
        BY <2>2, <2>4, <2>5, <2>6 DEF OneDefault
<1>11. QED
    BY <1>5, <1>6, <1>9, <1>10

LEMMA HopsAreListed ==
    ASSUME NEW vs \in Seq(Variant), \A i \in 1..Len(vs) : Len(vs[i].anchors) >= 2
    PROVE  HopsOf(vs) \in Seq(Hop)
<1> DEFINE lists == [i \in 1..Len(vs) |-> Hops(vs[i])]
<1>1. ASSUME NEW i \in 1..Len(vs) PROVE Hops(vs[i]) \in Seq(Hop)
    <2>1. PICK chain \in Seq(Anchor) : chain = vs[i].anchors
        <3>1. vs[i] \in Variant
            OBVIOUS
        <3>2. QED
            BY <3>1 DEF Variant
    <2>2. PICK n \in Nat : n = Len(chain) /\ n >= 2 /\ n - 1 \in Nat
        BY <2>1
    <2>3. \A k \in 1..(n - 1) : chain[k] \in Anchor /\ chain[k + 1] \in Anchor
        <3>1. \A k \in 1..(n - 1) : k \in 1..n /\ k + 1 \in 1..n
            OBVIOUS
        <3>2. \A k \in 1..n : chain[k] \in Anchor
            BY <2>2
        <3>3. QED
            BY <3>1, <3>2
    <2>4. Hops(vs[i]) = [k \in 1..(n - 1) |->
                            [from |-> chain[k].town, to |-> chain[k + 1].town,
                             ferry |-> chain[k + 1].ferry]]
        BY <2>1, <2>2 DEF Hops
    <2>5. Hops(vs[i]) \in [1..(n - 1) -> Hop]
        BY <2>3, <2>4 DEF Anchor, Hop
    <2>6. QED
        BY <2>2, <2>5, FunctionIsList
<1>2. PICK L : L = Seq(Hop)
    OBVIOUS
<1>3. lists \in [1..Len(vs) -> L] /\ Len(vs) \in Nat
    BY <1>1, <1>2
<1> HIDE DEF lists
<1>4. lists \in Seq(L)
    BY <1>3, FunctionIsList
<1>5. FlattenSeq(lists) \in Seq(Hop)
    BY <1>2, <1>4, FlattenSeqIsList
<1>6. QED
    BY <1>5 DEF HopsOf, lists

-----------------------------------------------------------------------------
\* Walking along the hops

Metres == {0} \cup UNION {Lengths(from, to) : from, to \in Towns}

\* What is cached for a hop is an answer of the router.
CacheRight(c) == \A h \in DOMAIN c : c[h] \in Lengths(h[1], h[2])

\* The lengths are those of the first hops.
LegsRight(hs, ls) ==
    /\ ls \in Seq(Metres) /\ Len(ls) <= Len(hs)
    /\ \A i \in 1..Len(ls) :
          IF hs[i].ferry THEN ls[i] = 0 ELSE ls[i] \in Lengths(hs[i].from, hs[i].to)

\* A length that needs no fetch is right.
LEMMA FreshIsRight ==
    ASSUME NEW h \in Hop, NEW c, CacheRight(c), Fresh(h, c)
    PROVE  /\ LengthOf(h, c) \in Metres
           /\ IF h.ferry THEN LengthOf(h, c) = 0 ELSE LengthOf(h, c) \in Lengths(h.from, h.to)
<1>1. CASE h.ferry
    BY <1>1 DEF LengthOf, Metres
<1>2. CASE ~ h.ferry
    <2>1. <<h.from, h.to>> \in DOMAIN c /\ LengthOf(h, c) = c[<<h.from, h.to>>]
        BY <1>2 DEF Fresh, LengthOf
    <2>2. LengthOf(h, c) \in Lengths(h.from, h.to)
        BY <2>1 DEF CacheRight
    <2>3. h.from \in Towns /\ h.to \in Towns
        BY DEF Hop
    <2>4. QED
        BY <1>2, <2>2, <2>3 DEF Metres
<1>3. QED
    BY <1>1, <1>2

\* Walking on adds the lengths of the next hops; it stops only at one that is no ferry.
LEMMA WalkedRight ==
    ASSUME NEW hs \in Seq(Hop), NEW behind, NEW c, CacheRight(c), LegsRight(hs, behind)
    PROVE  /\ LegsRight(hs, Walked(hs, behind, c))
           /\ Len(Walked(hs, behind, c)) # Len(hs) =>
                 /\ Len(Walked(hs, behind, c)) + 1 \in 1..Len(hs)
                 /\ ~ hs[Len(Walked(hs, behind, c)) + 1].ferry
<1>1. PICK n, k \in Nat : n = Len(hs) /\ k = Len(behind) /\ k <= n
    BY DEF LegsRight
<1> DEFINE stale == {i \in (k + 1)..n : ~ Fresh(hs[i], c)}
           stops == stale \cup {n + 1}
           last == Min(stops) - 1
           more == [i \in 1..(last - k) |-> LengthOf(hs[k + i], c)]
<1>2. Walked(hs, behind, c) = behind \o more
    BY <1>1 DEF Walked
<1>3. /\ Min(stops) \in stops
      /\ \A y \in stops : Min(stops) <= y
    <2>1. stops \subseteq Nat /\ stops # {}
        BY <1>1
    <2> HIDE DEF stops
    <2>2. QED
        BY <2>1, MinOfSome
<1>4. /\ last \in k..n
      /\ \A i \in (k + 1)..last : Fresh(hs[i], c)
      /\ last # n => last + 1 \in (k + 1)..n /\ ~ Fresh(hs[last + 1], c)
    <2>1. PICK m : m = Min(stops)
        OBVIOUS
    <2>2. m \in (k + 1)..(n + 1)
        BY <1>1, <1>3, <2>1
    <2>3. m # n + 1 => m \in stale
        BY <1>3, <2>1
    <2>4. \A i \in stale : m <= i
        BY <1>3, <2>1
    <2>5. \A i \in (k + 1)..(m - 1) : i \in (k + 1)..n /\ ~ (m <= i)
        BY <1>1, <2>2
    <2>6. \A i \in (k + 1)..(m - 1) : Fresh(hs[i], c)
        BY <2>4, <2>5
    <2> HIDE DEF stops
    <2>7. last = m - 1
        BY <2>1
    <2>8. last \in k..n
        BY <1>1, <2>2, <2>7
    <2>9. last # n => last + 1 = m /\ m # n + 1
        BY <1>1, <2>2, <2>7
    <2> HIDE DEF last
    <2>10. last # n => last + 1 \in (k + 1)..n /\ ~ Fresh(hs[last + 1], c)
        BY <2>3, <2>9
    <2>11. QED
        BY <2>6, <2>7, <2>8, <2>10
<1> HIDE DEF last, stops, stale
<1>5. \A i \in 1..(last - k) : k + i \in (k + 1)..last /\ k + i \in 1..n
    BY <1>1, <1>4
<1>6. \A i \in 1..(last - k) : more[i] = LengthOf(hs[k + i], c) /\ hs[k + i] \in Hop
    BY <1>1, <1>5
<1>7. \A i \in 1..(last - k) :
          /\ more[i] \in Metres
          /\ IF hs[k + i].ferry THEN more[i] = 0
             ELSE more[i] \in Lengths(hs[k + i].from, hs[k + i].to)
    BY <1>4, <1>5, <1>6, FreshIsRight
<1>8. more \in Seq(Metres) /\ Len(more) = last - k
    <2>1. PICK j \in Nat : j = last - k
        BY <1>1, <1>4, SMTT(30)
    <2>2. more \in [1..j -> Metres]
        BY <1>7, <2>1
    <2> HIDE DEF more
    <2>3. more \in Seq(Metres) /\ Len(more) = j
        BY <2>2, FunctionIsList
    <2>4. QED
        BY <2>1, <2>3
<1>9. behind \in Seq(Metres)
    BY DEF LegsRight
<1> HIDE DEF more
<1>10. PICK ls : ls = Walked(hs, behind, c)
    OBVIOUS
<1>11. /\ ls \in Seq(Metres) /\ Len(ls) = last
       /\ \A i \in 1..k : ls[i] = behind[i]
       /\ \A i \in (k + 1)..last : ls[i] = more[i - k]
    <2>1. ls = behind \o more
        BY <1>2, <1>10
    <2>2. /\ ls \in Seq(Metres) /\ Len(ls) = k + (last - k)
          /\ \A i \in 1..(k + (last - k)) :
                ls[i] = IF i <= k THEN behind[i] ELSE more[i - k]
        <3>1. Len(ls) = Len(behind) + Len(more) /\ ls \in Seq(Metres)
            BY <1>8, <1>9, <2>1, ConcatProperties
        <3>2. \A i \in 1..(Len(behind) + Len(more)) :
                  ls[i] = IF i <= Len(behind) THEN behind[i] ELSE more[i - Len(behind)]
            BY <1>8, <1>9, <2>1, ConcatProperties
        <3>3. QED
            BY <1>1, <1>8, <3>1, <3>2
    <2>3. k + (last - k) = last
        BY <1>1, <1>4
    <2>4. \A i \in 1..k : i \in 1..last /\ i <= k
        BY <1>1, <1>4
    <2>5. \A i \in (k + 1)..last : i \in 1..last /\ ~ (i <= k)
        BY <1>1, <1>4
    <2>6. QED
        BY <2>2, <2>3, <2>4, <2>5
<1>12. ASSUME NEW i \in 1..last
       PROVE  IF hs[i].ferry THEN ls[i] = 0 ELSE ls[i] \in Lengths(hs[i].from, hs[i].to)
    <2>1. CASE i \in 1..k
        BY <1>1, <1>11, <2>1 DEF LegsRight
    <2>2. CASE i \in (k + 1)..last
        <3>1. PICK j : j = i - k
            OBVIOUS
        <3>2. j \in 1..(last - k) /\ k + j = i
            BY <1>1, <1>4, <2>2, <3>1
        <3>3. ls[i] = more[j]
            BY <1>11, <2>2, <3>1
        <3>4. IF hs[k + j].ferry THEN more[j] = 0
              ELSE more[j] \in Lengths(hs[k + j].from, hs[k + j].to)
            BY <1>7, <3>2
        <3>5. QED
            BY <3>2, <3>3, <3>4
    <2>3. i \in 1..k \/ i \in (k + 1)..last
        BY <1>1, <1>4
    <2>4. QED
        BY <2>1, <2>2, <2>3
<1>13. LegsRight(hs, ls)
    <2>1. Len(ls) <= Len(hs)
        BY <1>1, <1>4, <1>11
    <2>2. QED
        BY <1>11, <1>12, <2>1 DEF LegsRight
<1>14. last # n => last + 1 \in 1..n /\ ~ hs[last + 1].ferry
    <2>1. last # n => last + 1 \in 1..n
        BY <1>1, <1>4
    <2>2. QED
        BY <1>4, <2>1 DEF Fresh
<1>15. QED
    BY <1>1, <1>10, <1>11, <1>13, <1>14

\* So does the length the router answers.
LEMMA AnswerIsRight ==
    ASSUME NEW hs \in Seq(Hop), NEW behind, LegsRight(hs, behind),
           Len(behind) + 1 \in 1..Len(hs), ~ hs[Len(behind) + 1].ferry,
           NEW m \in Lengths(hs[Len(behind) + 1].from, hs[Len(behind) + 1].to)
    PROVE  LegsRight(hs, Append(behind, m))
<1>1. PICK n, k \in Nat : n = Len(hs) /\ k = Len(behind) /\ k + 1 <= n
    BY DEF LegsRight
<1>2. hs[k + 1] \in Hop
    BY <1>1
<1>3. m \in Metres
    BY <1>1, <1>2 DEF Hop, Metres
<1>4. behind \in Seq(Metres)
    BY DEF LegsRight
<1>5. PICK ls : ls = Append(behind, m)
    OBVIOUS
<1>6. /\ ls \in Seq(Metres) /\ Len(ls) = k + 1 /\ ls[k + 1] = m
      /\ \A i \in 1..k : ls[i] = behind[i]
    BY <1>1, <1>3, <1>4, <1>5, AppendProperties
<1>7. \A i \in 1..(k + 1) : i \in 1..k \/ i = k + 1
    BY <1>1
<1>8. ASSUME NEW i \in 1..(k + 1)
      PROVE  IF hs[i].ferry THEN ls[i] = 0 ELSE ls[i] \in Lengths(hs[i].from, hs[i].to)
    <2>1. CASE i \in 1..k
        BY <1>1, <1>6, <2>1 DEF LegsRight
    <2>2. CASE i = k + 1
        BY <1>1, <1>6, <2>2
    <2>3. QED
        BY <1>7, <2>1, <2>2
<1>9. QED
    BY <1>1, <1>5, <1>6, <1>8 DEF LegsRight
-----------------------------------------------------------------------------
\* What holds while requests walk

PlanHops(r) ==
    /\ Catalogued(ask[r]) # None
    /\ hops[r] = HopsOf(Catalogued(ask[r]))
    /\ LegsRight(hops[r], legs[r])

\* A plan waits at a hop of its corridor that is no ferry, and has the lengths of all
\* those before; a plan that was routed has all lengths.
PlanInv(r) ==
    /\ stage[r] = "brouter" /\ ask[r].kind = "plan" =>
          /\ PlanHops(r)
          /\ Len(legs[r]) + 1 \in 1..Len(hops[r])
          /\ ~ NextHop(r).ferry
    /\ outcome[r] = "brouter" =>
          /\ stage[r] = "done" /\ ask[r].kind = "plan"
          /\ PlanHops(r)
          /\ Len(legs[r]) = Len(hops[r])

Functions ==
    /\ DOMAIN ask = Requests /\ DOMAIN stage = Requests /\ DOMAIN hops = Requests
    /\ DOMAIN legs = Requests /\ DOMAIN outcome = Requests

RouteInv == Functions /\ CacheRight(cache) /\ \A r \in Requests : PlanInv(r)

LEMMA CatalogueHops ==
    ASSUME NEW a, Catalogued(a) # None PROVE HopsOf(Catalogued(a)) \in Seq(Hop)
<1>1. PICK vs : vs = Catalogued(a)
    OBVIOUS
<1>2. vs \in Seq(Variant) /\ \A i \in 1..Len(vs) : Len(vs[i].anchors) >= 2
    BY <1>1, CataloguedAreWhole DEF Catalogued
<1>3. QED
    BY <1>1, <1>2, HopsAreListed

\* Whoever does something, the others stay as they are.
LEMMA OthersStay ==
    ASSUME RouteInv, NEW r \in Requests, NEW q \in Requests, q # r,
           ask'[q] = ask[q], stage'[q] = stage[q], hops'[q] = hops[q],
           legs'[q] = legs[q], outcome'[q] = outcome[q]
    PROVE  PlanInv(q)'
BY DEF RouteInv, PlanInv, PlanHops, NextHop

\* A request that walks on has the lengths of the hops it has passed.
LEMMA WalkKeeps ==
    ASSUME Functions, NEW r \in Requests, NEW a, NEW hs, NEW behind, NEW c,
           CacheRight(c), Walk(r, a, hs, behind, c),
           a.kind = "plan" => /\ Catalogued(a) # None
                              /\ hs = HopsOf(Catalogued(a))
                              /\ LegsRight(hs, behind),
           ask'[r] = a, hops'[r] = hs, outcome[r] # "brouter"
    PROVE  PlanInv(r)'
<1> DEFINE ls == Walked(hs, behind, c)
<1>1. legs'[r] = ls
    BY DEF Walk, Functions
<1>2. \/ stage'[r] = "brouter" /\ outcome'[r] = outcome[r] /\ Len(ls) # Len(hs)
      \/ /\ stage'[r] = "done" /\ Len(ls) = Len(hs)
         /\ outcome'[r] = "brouter" => a.kind = "plan"
    <2>1. CASE /\ Len(ls) < Len(hs) /\ stage' = [stage EXCEPT ![r] = "brouter"]
               /\ UNCHANGED outcome
        <3>1. Len(ls) # Len(hs)
            BY <2>1
        <3>2. QED
            BY <2>1, <3>1 DEF Functions
    <2>2. CASE /\ Len(ls) = Len(hs)
               /\ Done(r, IF a.kind = "plan" THEN "brouter"
                          ELSE IF Track(a) = <<>> THEN "not_found" ELSE "gpx")
        BY <2>2 DEF Functions, Done
    <2>3. QED
        BY <2>1, <2>2 DEF Walk
<1> HIDE DEF ls
<1>3. CASE a.kind # "plan"
    BY <1>2, <1>3 DEF PlanInv
<1>4. CASE a.kind = "plan"
    <2>1. hs \in Seq(Hop)
        BY <1>4, CatalogueHops
    <2>2. /\ LegsRight(hs, ls)
          /\ Len(ls) # Len(hs) => Len(ls) + 1 \in 1..Len(hs) /\ ~ hs[Len(ls) + 1].ferry
        BY <1>4, <2>1, WalkedRight DEF ls
    <2>3. PlanHops(r)'
        BY <1>1, <1>4, <2>2 DEF PlanHops
    <2>4. QED
        BY <1>1, <1>2, <1>4, <2>2, <2>3 DEF PlanInv, NextHop
<1>5. QED
    BY <1>3, <1>4

\* The step of a request that walks on keeps what holds of all of them.
LEMMA WalkStep ==
    ASSUME RouteInv, NEW r \in Requests, NEW a, NEW hs, NEW behind, NEW c,
           CacheRight(c), Walk(r, a, hs, behind, c),
           a.kind = "plan" => /\ Catalogued(a) # None
                              /\ hs = HopsOf(Catalogued(a))
                              /\ LegsRight(hs, behind),
           \/ ask' = [ask EXCEPT ![r] = a] /\ hops' = [hops EXCEPT ![r] = hs]
           \/ a = ask[r] /\ hs = hops[r] /\ UNCHANGED <<ask, hops>>,
           CacheRight(cache)', outcome[r] # "brouter"
    PROVE  RouteInv'
<1>1. Functions
    BY DEF RouteInv
<1>2. ask'[r] = a /\ hops'[r] = hs
    BY <1>1 DEF Functions
<1>3. PlanInv(r)'
    BY <1>1, <1>2, WalkKeeps
<1>4. Functions'
    BY <1>1 DEF Functions, Walk, Done
<1>5. ASSUME NEW q \in Requests, q # r PROVE PlanInv(q)'
    <2>1. ask'[q] = ask[q] /\ hops'[q] = hops[q]
        BY <1>1, <1>5 DEF Functions
    <2>2. legs'[q] = legs[q] /\ stage'[q] = stage[q] /\ outcome'[q] = outcome[q]
        BY <1>1, <1>5 DEF Functions, Walk, Done
    <2>3. QED
        BY <1>5, <2>1, <2>2, OthersStay
<1>6. QED
    BY <1>3, <1>4, <1>5 DEF RouteInv

\* A request that stops walking without a route.
LEMMA LeavesKeeps ==
    ASSUME RouteInv, Functions', NEW r \in Requests,
           stage'[r] # "brouter", outcome'[r] # "brouter",
           \A q \in Requests : q # r => /\ ask'[q] = ask[q] /\ stage'[q] = stage[q]
                                        /\ outcome'[q] = outcome[q],
           UNCHANGED <<cache, hops, legs>>
    PROVE  RouteInv'
<1>1. PlanInv(r)'
    BY DEF PlanInv
<1>2. ASSUME NEW q \in Requests, q # r PROVE PlanInv(q)'
    <2>1. /\ ask'[q] = ask[q] /\ hops'[q] = hops[q] /\ legs'[q] = legs[q]
          /\ stage'[q] = stage[q] /\ outcome'[q] = outcome[q]
        BY <1>2
    <2>2. QED
        BY <1>2, <2>1, OthersStay
<1>3. QED
    BY <1>1, <1>2 DEF RouteInv, CacheRight

LEMMA OfferedAreDownloads ==
    ASSUME NEW q, NEW a \in Offered(q) PROVE a.kind # "plan"
<1>1. \A trip, name, from, to : Download(trip, name, from, to).kind \in {"full", "day"}
    BY DEF Download
<1>2. PICK trip, name, from, to : a = Download(trip, name, from, to)
    BY DEF Offered
<1>3. QED
    BY <1>1, <1>2

LEMMA InitRoutes == RouteInit => RouteInv
    BY DEF RouteInit, RouteInv, Functions, CacheRight, PlanInv

LEMMA StepRoutes == RouteInv /\ [RouteNext]_routeVars => RouteInv'
<1> SUFFICES ASSUME RouteInv, [RouteNext]_routeVars PROVE RouteInv'
    OBVIOUS
<1>0. Functions /\ CacheRight(cache) /\ \A r \in Requests : PlanInv(r)
    BY DEF RouteInv
<1>1. ASSUME NEW r \in Requests, NEW trip \in Trips, NEW target \in Targets,
             AskPlan(r, trip, target)
      PROVE  RouteInv'
    <2> DEFINE a == Plan(trip, target)
    <2>1. stage[r] = "idle" /\ ask' = [ask EXCEPT ![r] = a] /\ UNCHANGED <<cache, expiries>>
        BY <1>1 DEF AskPlan
    <2>2. outcome[r] # "brouter"
        BY <1>0, <2>1 DEF PlanInv
    <2>3. CASE Catalogued(a) = None
        <3>1. stage' = [stage EXCEPT ![r] = "seeded"] /\ UNCHANGED <<hops, legs, outcome>>
            BY <1>1, <2>3 DEF AskPlan
        <3>2. Functions' /\ stage'[r] # "brouter" /\ outcome'[r] # "brouter"
            BY <1>0, <2>1, <2>2, <3>1 DEF Functions
        <3>3. \A q \in Requests : q # r => /\ ask'[q] = ask[q] /\ stage'[q] = stage[q]
                                           /\ outcome'[q] = outcome[q]
            BY <1>0, <2>1, <3>1 DEF Functions
        <3>4. QED
            BY <2>1, <3>1, <3>2, <3>3, LeavesKeeps
    <2>4. CASE Catalogued(a) # None
        <3>1. Start(r, a)
            BY <1>1, <2>4 DEF AskPlan
        <3>2. a.kind = "plan"
            BY DEF Plan
        <3>3. LegsRight(HopsOf(Catalogued(a)), <<>>)
            <4>1. HopsOf(Catalogued(a)) \in Seq(Hop)
                BY <2>4, CatalogueHops
            <4>2. <<>> \in Seq(Metres) /\ Len(<<>>) = 0
                OBVIOUS
            <4>3. QED
                BY <4>1, <4>2 DEF LegsRight
        <3>4. Wanted(a) = Catalogued(a)
            BY <3>2 DEF Wanted
        <3>5. /\ hops' = [hops EXCEPT ![r] = HopsOf(Catalogued(a))]
              /\ Walk(r, a, HopsOf(Catalogued(a)), <<>>, cache)
            <4>1. hops' = [hops EXCEPT ![r] = HopsOf(Catalogued(a))]
                BY <3>1, <3>4 DEF Start
            <4>2. hops'[r] = HopsOf(Catalogued(a))
                BY <1>0, <4>1 DEF Functions
            <4>3. QED
                BY <3>1, <4>1, <4>2 DEF Start
        <3>6. CacheRight(cache)'
            BY <1>0, <2>1 DEF CacheRight
        <3> HIDE DEF a
        <3>7. QED
            BY <1>0, <2>1, <2>2, <2>4, <3>3, <3>5, <3>6, WalkStep
    <2>5. QED
        BY <2>3, <2>4
<1>2. ASSUME NEW r \in Requests, NEW a, a.kind # "plan", AskDownload(r, a)
      PROVE  RouteInv'
    <2>1. stage[r] = "idle" /\ ask' = [ask EXCEPT ![r] = a] /\ UNCHANGED <<cache, expiries>>
        BY <1>2 DEF AskDownload
    <2>2. outcome[r] # "brouter"
        BY <1>0, <2>1 DEF PlanInv
    <2>3. CASE ResolvedVariant(a) = <<>>
        <3>1. Done(r, "not_found") /\ UNCHANGED <<hops, legs>>
            BY <1>2, <2>3 DEF AskDownload
        <3>2. Functions' /\ stage'[r] # "brouter" /\ outcome'[r] # "brouter"
            BY <1>0, <2>1, <3>1 DEF Functions, Done
        <3>3. \A q \in Requests : q # r => /\ ask'[q] = ask[q] /\ stage'[q] = stage[q]
                                           /\ outcome'[q] = outcome[q]
            BY <1>0, <2>1, <3>1 DEF Functions, Done
        <3>4. QED
            BY <2>1, <3>1, <3>2, <3>3, LeavesKeeps
    <2>4. CASE ResolvedVariant(a) # <<>>
        <3>1. Start(r, a)
            BY <1>2, <2>4 DEF AskDownload
        <3>2. PICK hs : hs = HopsOf(Wanted(a))
            OBVIOUS
        <3>3. hops' = [hops EXCEPT ![r] = hs] /\ Walk(r, a, hs, <<>>, cache)
            <4>1. hops' = [hops EXCEPT ![r] = hs]
                BY <3>1, <3>2 DEF Start
            <4>2. hops'[r] = hs
                BY <1>0, <4>1 DEF Functions
            <4>3. QED
                BY <3>1, <4>1, <4>2 DEF Start
        <3>4. CacheRight(cache)'
            BY <1>0, <2>1 DEF CacheRight
        <3>5. QED
            BY <1>0, <1>2, <2>1, <2>2, <3>3, <3>4, WalkStep
    <2>5. QED
        BY <2>3, <2>4
<1>3. ASSUME NEW r \in Requests, Fetched(r) PROVE RouteInv'
    <2> DEFINE next == NextHop(r)
               hop == <<next.from, next.to>>
    <2>1. stage[r] = "brouter" /\ UNCHANGED <<ask, hops, expiries>>
        BY <1>3 DEF Fetched
    <2>2. PICK m \in Lengths(next.from, next.to) :
             /\ cache' = [h \in DOMAIN cache \cup {hop} |-> IF h = hop THEN m ELSE cache[h]]
             /\ Walk(r, ask[r], hops[r], Append(legs[r], m), cache')
        BY <1>3 DEF Fetched
    <2>3. CacheRight(cache')
        <3>1. ASSUME NEW h \in DOMAIN cache' PROVE cache'[h] \in Lengths(h[1], h[2])
            <4>1. CASE h = hop
                <5>1. cache'[h] = m /\ h[1] = next.from /\ h[2] = next.to
                    BY <2>2, <4>1
                <5>2. QED
                    BY <2>2, <5>1
            <4>2. CASE h # hop
                <5>1. h \in DOMAIN cache /\ cache'[h] = cache[h]
                    BY <2>2, <3>1, <4>2
                <5>2. QED
                    BY <1>0, <5>1 DEF CacheRight
            <4>3. QED
                BY <4>1, <4>2
        <3>2. QED
            BY <3>1 DEF CacheRight
    <2>4. outcome[r] # "brouter"
        BY <1>0, <2>1 DEF PlanInv
    <2>5. UNCHANGED <<ask, hops>>
        BY <2>1
    <2>6. ASSUME ask[r].kind = "plan"
          PROVE  /\ Catalogued(ask[r]) # None
                 /\ hops[r] = HopsOf(Catalogued(ask[r]))
                 /\ LegsRight(hops[r], Append(legs[r], m))
        <3>1. PlanHops(r) /\ Len(legs[r]) + 1 \in 1..Len(hops[r]) /\ ~ next.ferry
            BY <1>0, <2>1, <2>6 DEF PlanInv
        <3>2. hops[r] \in Seq(Hop)
            BY <3>1, CatalogueHops DEF PlanHops
        <3>3. LegsRight(hops[r], Append(legs[r], m))
            BY <2>2, <3>1, <3>2, AnswerIsRight DEF PlanHops, NextHop
        <3>4. QED
            BY <3>1, <3>3 DEF PlanHops
    <2>7. CacheRight(cache)'
        BY <2>3
    <2>8. QED
        BY <2>2, <2>3, <2>4, <2>5, <2>6, <2>7, WalkStep
<1>4. ASSUME NEW r \in Requests, FetchFails(r) PROVE RouteInv'
    <2>1. stage[r] = "brouter" /\ UNCHANGED <<cache, ask, hops, legs>>
        BY <1>4 DEF FetchFails
    <2>2. outcome[r] # "brouter"
        BY <1>0, <2>1 DEF PlanInv
    <2>3. \/ stage' = [stage EXCEPT ![r] = "seeded"] /\ UNCHANGED outcome
          \/ \E what \in {"error", "bad_gateway"} : Done(r, what)
        BY <1>4 DEF FetchFails
    <2>4. Functions' /\ stage'[r] # "brouter" /\ outcome'[r] # "brouter"
        BY <1>0, <2>1, <2>2, <2>3 DEF Functions, Done
    <2>5. \A q \in Requests : q # r => /\ ask'[q] = ask[q] /\ stage'[q] = stage[q]
                                       /\ outcome'[q] = outcome[q]
        BY <1>0, <2>1, <2>3 DEF Functions, Done
    <2>6. QED
        BY <2>1, <2>4, <2>5, LeavesKeeps
<1>5. ASSUME NEW r \in Requests, LookUpSeeded(r) \/ RoutesQueryFails(r) \/ Geocode(r)
      PROVE  RouteInv'
    <2>1. stage[r] \in {"seeded", "geocode"} /\ UNCHANGED <<cache, ask, hops, legs>>
        BY <1>5 DEF LookUpSeeded, RoutesQueryFails, Geocode
    <2>2. outcome[r] # "brouter"
        BY <1>0, <2>1 DEF PlanInv
    <2>3. \/ stage' = [stage EXCEPT ![r] = "geocode"] /\ UNCHANGED outcome
          \/ \E what \in {"seeded", "seeded_bare", "error", "generic", "stub"} : Done(r, what)
        BY <1>5 DEF LookUpSeeded, RoutesQueryFails, Geocode
    <2>4. Functions' /\ stage'[r] # "brouter" /\ outcome'[r] # "brouter"
        BY <1>0, <2>1, <2>2, <2>3 DEF Functions, Done
    <2>5. \A q \in Requests : q # r => /\ ask'[q] = ask[q] /\ stage'[q] = stage[q]
                                       /\ outcome'[q] = outcome[q]
        BY <1>0, <2>1, <2>3 DEF Functions, Done
    <2>6. QED
        BY <2>1, <2>4, <2>5, LeavesKeeps
<1>6. ASSUME NEW h \in DOMAIN cache, Expire(h) PROVE RouteInv'
    <2>1. UNCHANGED <<ask, stage, hops, legs, outcome>>
        BY <1>6 DEF Expire
    <2>2. CacheRight(cache)'
        BY <1>0, <1>6 DEF Expire, CacheRight
    <2>3. QED
        BY <1>0, <2>1, <2>2 DEF RouteInv, Functions, PlanInv, PlanHops, NextHop
<1>7. CASE UNCHANGED routeVars
    BY <1>0, <1>7 DEF routeVars, RouteInv, Functions, CacheRight, PlanInv, PlanHops, NextHop
<1>8. QED
    BY <1>1, <1>2, <1>3, <1>4, <1>5, <1>6, <1>7, OfferedAreDownloads DEF RouteNext, Serve

\* Each variant of a catalogued route becomes one variant of the plan.
LEMMA VariantsOfRoute ==
    ASSUME NEW r \in Requests, outcome[r] = "brouter", Catalogued(ask[r]) # None
    PROVE  /\ Len(Variants(r)) = Len(Catalogued(ask[r]))
           /\ Cardinality({i \in 1..Len(Variants(r)) : Variants(r)[i].default}) = 1
<1>1. PICK cvs : cvs = Catalogued(ask[r])
    OBVIOUS
<1>2. Len(cvs) \in Nat /\ OneDefault(cvs)
    BY <1>1, CataloguedAreWhole DEF Catalogued
<1>3. PICK built : built = [i \in 1..Len(cvs) |->
                               BuiltVariant(cvs[i], LegsOf(cvs, legs[r], i), ask[r].target)]
    OBVIOUS
<1>4. Variants(r) = built
    BY <1>1, <1>3 DEF Variants
<1>5. Len(built) = Len(cvs)
    BY <1>2, <1>3
<1>6. \A i \in 1..Len(cvs) : built[i].default = cvs[i].default
    <2>1. \A v, ls, target : BuiltVariant(v, ls, target).default = v.default
        BY DEF BuiltVariant
    <2>2. QED
        BY <1>3, <2>1
<1>7. PICK i \in 1..Len(cvs) : \A j \in 1..Len(cvs) : cvs[j].default <=> j = i
    BY <1>2 DEF OneDefault
<1>8. {j \in 1..Len(built) : built[j].default} = {i}
    <2>1. ASSUME NEW j \in 1..Len(cvs) PROVE built[j].default <=> j = i
        <3>1. cvs[j].default <=> j = i
            BY <1>7, Zenon
        <3>2. built[j].default = cvs[j].default
            BY <1>6
        <3>3. QED
            BY <3>1, <3>2, Zenon
    <2>2. \A j : j \in 1..Len(built) /\ built[j].default <=> j = i
        BY <1>5, <1>7, <2>1, Zenon
    <2>3. QED
        BY <2>2, Zenon
<1>9. QED
    BY <1>1, <1>4, <1>5, <1>8, FS_Singleton

\* A route that says it is real is complete, whichever fetches failed, whoever shares the
\* cache and whatever expires in it.
THEOREM RoutesAreWhole == RouteSpec => []AnswersAreWhole
<1>1. ASSUME RouteInv PROVE AnswersAreWhole
    <2> SUFFICES ASSUME NEW r \in Requests, outcome[r] = "brouter"
                 PROVE  /\ Len(Variants(r)) = Len(Catalogued(ask[r]))
                        /\ Cardinality({i \in 1..Len(Variants(r)) : Variants(r)[i].default}) = 1
                        /\ Len(legs[r]) = Len(hops[r])
                        /\ \A i \in 1..Len(hops[r]) :
                              IF hops[r][i].ferry
                              THEN legs[r][i] = 0
                              ELSE legs[r][i] \in Lengths(hops[r][i].from, hops[r][i].to)
        BY DEF AnswersAreWhole, Routed
    <2>1. PlanHops(r) /\ Len(legs[r]) = Len(hops[r])
        BY <1>1 DEF RouteInv, PlanInv
    <2>2. QED
        BY <2>1, VariantsOfRoute DEF PlanHops, LegsRight
<1>2. QED
    BY <1>1, InitRoutes, StepRoutes, PTL DEF RouteSpec

-----------------------------------------------------------------------------
\* A plan says the same of a route in all its parts

\* What the properties say of a plan, from its stops.
LEMMA PlanIsBestSplit ==
    ASSUME NEW v, NEW target \in Nat \ {0}, v.total \in Int,
           StopsRight(v.stops, v.total), v.days = SuggestDayPlan(v.stops, target)
    PROVE  DaysAddUp(v) /\ (Len(v.days) > 1 => IsBest(v, target))
<1>1. PICK stops, days, total : stops = v.stops /\ days = v.days /\ total = v.total
    OBVIOUS
<1>2. PICK n \in Nat : n = Len(stops) /\ n >= 2
    BY <1>1 DEF StopsRight
<1>3. PICK S : S = ToSet(stops)
    OBVIOUS
<1>4. /\ stops \in Seq(S)
      /\ \A i \in 1..n : stops[i].from_start \in Nat /\ stops[i].segment \in Int
      /\ \A sums \in Running(n, [i \in 1..n |-> stops[i].segment]) :
            /\ 2 * (sums[n] - sums[1]) <= 2 * total + n
            /\ 2 * total <= 2 * (sums[n] - sums[1]) + n
    BY <1>1, <1>2, <1>3 DEF StopsRight
<1>5. Measured(stops)
    BY <1>2, <1>4 DEF Measured
<1>6. PICK sums : sums \in Running(n, [i \in 1..n |-> stops[i].segment])
    <2>1. [i \in 1..n |-> stops[i].segment] \in [1..n -> Int]
        BY <1>4
    <2>2. QED
        BY <2>1, RunningExists
<1>7. n \in 1..n
    BY <1>2
<1>8. /\ Len(days) = DayCount(stops, target)
      /\ days[1].from = stops[1].town
      /\ Last(days).to = Last(stops).town
      /\ \A d \in 2..Len(days) : days[d].from = days[d - 1].to
      /\ Together(days) = sums[n] - sums[1]
    <2>1. \A i \in 1..Len(stops) : stops[i].segment \in Int
        BY <1>2, <1>4
    <2>2. sums \in Running(Len(stops), [i \in 1..Len(stops) |-> stops[i].segment])
        BY <1>2, <1>6
    <2>3. stops[Len(stops)].from_start \in Nat /\ Len(stops) >= 2 /\ days = SuggestDayPlan(stops, target)
        BY <1>1, <1>2, <1>4, <1>7
    <2>4. /\ Len(days) = DayCount(stops, target)
          /\ days[1].from = stops[1].town
          /\ Last(days).to = Last(stops).town
          /\ \A d \in 2..Len(days) : days[d].from = days[d - 1].to
          /\ Together(days) = sums[Len(stops)] - sums[1]
        <3>1. stops \in Seq(S) /\ target \in Nat \ {0}
            BY <1>4
        <3>2. /\ Len(days) = DayCount(stops, target) /\ Len(days) \in 1..(Len(stops) - 1)
              /\ days[1].from = stops[1].town
              /\ Last(days).to = Last(stops).town
              /\ \A d \in 2..Len(days) : days[d].from = days[d - 1].to
              /\ \A d \in 1..Len(days) : days[d].km \in Int
              /\ Together(days) = sums[Len(stops)] - sums[1]
            BY <3>1, <1>5, <2>1, <2>2, <2>3, DaysLeadOn, SMTT(30)
        <3>3. QED
            BY <3>2
    <2>5. QED
        BY <1>2, <2>4
<1>9. DaysAddUp(v)
    <2>1. /\ 2 * Together(days) <= 2 * total + n
          /\ 2 * total <= 2 * Together(days) + n
        BY <1>4, <1>6, <1>8
    <2>2. QED
        BY <1>1, <1>2, <1>8, <2>1 DEF DaysAddUp
<1>10. ASSUME Len(days) > 1 PROVE IsBest(v, target)
    <2>1. stops[Len(stops)].from_start \in Nat /\ Len(stops) >= 2
        BY <1>2, <1>4, <1>7
    <2>2. \A other \in AllEnds(stops, Len(days)) :
             Cost(stops, target, PlanEnds(stops, target)) <= Cost(stops, target, other)
        BY <1>5, <1>8, <1>10, <2>1, EndsAreBest
    <2>3. QED
        BY <1>1, <2>2 DEF IsBest
<1>11. QED
    BY <1>1, <1>9, <1>10

\* The stops of a seeded route that does not go backwards.
LEMMA StopsOfSeeded ==
    ASSUME NEW rows, rows \in Seq(ToSet(rows)), Len(rows) >= 2,
           \A i \in 1..Len(rows) : rows[i].from_start \in Nat,
           Head(rows).from_start = 0 \/ Last(rows).from_start = 0,
           Acceptable(rows)
    PROVE  /\ Last(SeededStops(rows)).from_start \in Nat
           /\ StopsRight(SeededStops(rows), Last(SeededStops(rows)).from_start)
<1>1. PICK n \in Nat : n = Len(rows) /\ n >= 2
    OBVIOUS
<1>2. PICK stops : stops = SeededStops(rows)
    OBVIOUS
<1>3. stops = [i \in 1..n |->
        [town |-> rows[i].town, ferry |-> rows[i].ferry, from_start |-> rows[i].from_start,
         segment |-> IF i = 1 THEN 0 ELSE rows[i].from_start - rows[i - 1].from_start]]
    BY <1>1, <1>2 DEF SeededStops
<1>4. Len(stops) = n /\ DOMAIN stops = 1..n
    BY <1>3
<1>5. stops \in Seq(ToSet(stops))
    <2>1. stops \in [1..n -> ToSet(stops)]
        BY <1>3, <1>4 DEF ToSet
    <2>2. QED
        BY <2>1, FunctionIsList
<1>6. \A i \in 1..n : rows[i].from_start \in Nat /\ stops[i].from_start = rows[i].from_start
    BY <1>1, <1>3
<1>7. \A i \in 2..n : /\ i \in 1..n /\ i - 1 \in 1..n
                      /\ stops[i].segment = rows[i].from_start - rows[i - 1].from_start
    <2>1. ASSUME NEW i \in 2..n
          PROVE  /\ i \in 1..n /\ i - 1 \in 1..n
                 /\ stops[i].segment = rows[i].from_start - rows[i - 1].from_start
        <3>1. i \in 1..n /\ i # 1 /\ i - 1 \in 1..n
            OBVIOUS
        <3>2. QED
            BY <1>3, <3>1
    <2>2. QED
        BY <2>1
<1>8. stops[1].segment = 0
    BY <1>1, <1>3
<1>9. \A i \in 1..n : stops[i].segment \in Int
    <2>1. ASSUME NEW i \in 1..n PROVE stops[i].segment \in Int
        <3>1. CASE i = 1
            BY <1>8, <3>1
        <3>2. CASE i # 1
            <4>1. i \in 2..n
                BY <3>2
            <4>2. i - 1 \in 1..n /\ stops[i].segment = rows[i].from_start - rows[i - 1].from_start
                BY <4>1, <1>7
            <4>3. PICK now \in Nat, past \in Nat : now = rows[i].from_start /\ past = rows[i - 1].from_start
                BY <4>2, <1>6
            <4>4. QED
                BY <4>2, <4>3
        <3>3. QED
            BY <3>1, <3>2
    <2>2. QED
        BY <2>1
<1>10. PICK total \in Nat : total = rows[n].from_start /\ total = Last(stops).from_start
    <2>1. Last(stops) = stops[n] /\ n \in 1..n
        BY <1>1, <1>4 DEF Last
    <2>2. QED
        BY <1>6, <2>1
<1>11. rows[1].from_start = 0
    <2> DEFINE good == {k \in 0..(n - 1) : rows[1].from_start <= rows[k + 1].from_start}
    <2>1. 0 \in good
        BY <1>1, <1>6
    <2>2. ASSUME NEW k \in 1..(n - 1), k - 1 \in good PROVE k \in good
        <3>1. PICK i \in 2..n : i = k + 1 /\ i - 1 = k /\ (k - 1) + 1 = k
            BY <1>1
        <3>2. rows[i - 1].from_start <= rows[i].from_start
            BY <1>1 DEF Acceptable
        <3>3. rows[1].from_start <= rows[k].from_start
            BY <2>2, <3>1
        <3>4. rows[1].from_start \in Nat /\ rows[k].from_start \in Nat /\ rows[k + 1].from_start \in Nat
            BY <1>6, <1>7, <3>1
        <3>5. rows[1].from_start <= rows[k + 1].from_start
            <4>1. PICK first \in Nat, past \in Nat, now \in Nat :
                     first = rows[1].from_start /\ past = rows[k].from_start /\ now = rows[k + 1].from_start
                BY <3>4
            <4>2. first <= past /\ past <= now
                BY <4>1, <3>1, <3>2, <3>3
            <4>3. QED
                BY <4>1, <4>2
        <3>6. QED
            BY <3>5
    <2>3. n - 1 \in Nat /\ n - 1 \in 0..(n - 1) /\ (n - 1) + 1 = n
        BY <1>1
    <2> HIDE DEF good
    <2>4. n - 1 \in good
        BY <2>1, <2>2, <2>3, AllUpTo
    <2>5. rows[1].from_start <= rows[n].from_start
        BY <2>3, <2>4 DEF good
    <2>6. Head(rows) = rows[1] /\ Last(rows) = rows[n]
        BY <1>1 DEF Last
    <2>7. rows[1].from_start \in Nat
        BY <1>1, <1>6
    <2>8. PICK first \in Nat : first = rows[1].from_start
        BY <2>7
    <2>9. first = 0 \/ total = 0
        BY <1>10, <2>6, <2>8
    <2>10. first <= total
        BY <1>10, <2>5, <2>8
    <2>11. QED
        BY <2>8, <2>9, <2>10
<1>12. ASSUME NEW sums \in Running(n, [i \in 1..n |-> stops[i].segment])
       PROVE  sums[n] - sums[1] = total
    <2>1. \A k \in 0..n : sums[k] \in Int
        BY DEF Running
    <2>2. sums[0] = 0 /\ \A k \in 1..n : sums[k] = sums[k - 1] + stops[k].segment
        BY DEF Running
    <2>3. sums[1] = 0
        BY <1>1, <1>8, <2>2
    <2> DEFINE good == {k \in 0..(n - 1) : sums[k + 1] = rows[k + 1].from_start}
    <2>4. 0 \in good
        BY <1>1, <1>11, <2>3
    <2>5. ASSUME NEW k \in 1..(n - 1), k - 1 \in good PROVE k \in good
        <3>1. PICK i \in 2..n : i = k + 1 /\ i - 1 = k /\ (k - 1) + 1 = k
            BY <1>1
        <3>2. sums[i] = sums[k] + stops[i].segment
            BY <1>7, <2>2, <3>1
        <3>3. sums[k] = rows[k].from_start
            BY <2>5, <3>1
        <3>4. stops[i].segment = rows[i].from_start - rows[k].from_start
            BY <1>7, <3>1
        <3>5. rows[k].from_start \in Nat /\ rows[i].from_start \in Nat
            BY <1>6, <1>7, <3>1
        <3>6. sums[i] = rows[i].from_start
            BY <3>2, <3>3, <3>4, <3>5
        <3>7. QED
            BY <3>1, <3>6
    <2>6. n - 1 \in Nat /\ n - 1 \in 0..(n - 1) /\ (n - 1) + 1 = n
        BY <1>1
    <2> HIDE DEF good
    <2>7. n - 1 \in good
        BY <2>4, <2>5, <2>6, AllUpTo
    <2>8. sums[n] = rows[n].from_start
        BY <2>6, <2>7 DEF good
    <2>9. sums[n] = total
        BY <1>10, <2>8
    <2>10. QED
        BY <2>3, <2>9
<1>13. StopsRight(stops, total)
    <2>1. ASSUME NEW sums \in Running(n, [i \in 1..n |-> stops[i].segment])
          PROVE  /\ 2 * (sums[n] - sums[1]) <= 2 * total + n
                 /\ 2 * total <= 2 * (sums[n] - sums[1]) + n
        BY <1>12
    <2>2. QED
        BY <1>1, <1>4, <1>5, <1>6, <1>9, <2>1 DEF StopsRight
<1>14. QED
    BY <1>2, <1>10, <1>13

\* Both ways along a corridor, the first and the last place are stops for the night.
LEMMA SleptAtBothEnds ==
    ASSUME NEW start, NEW end, NEW vs, vs = CorridorVariants(start, end), vs # None,
           NEW i \in 1..Len(vs)
    PROVE  1 \in Overnight(vs[i]) /\ Len(vs[i].anchors) \in Overnight(vs[i])
<1>1. PICK f \in 1..Len(Files) : FiledAs(vs, f, start, end)
    BY CataloguedAreFiled
<1>2. \/ vs = Files[f].variants
      \/ vs = [j \in 1..Len(Files[f].variants) |-> ReversedVariant(Files[f].variants[j])]
    BY <1>1 DEF FiledAs
<1>3. Valid(Files[f]) /\ f \in DOMAIN Files
    BY FilesAreValid DEF FilesAreValid
<1>4. PICK vars0 \in Seq(Variant) : vars0 = Files[f].variants
    BY <1>3 DEF Valid
<1>5. i \in 1..Len(vars0) /\ i \in DOMAIN vars0
    BY <1>2, <1>4
<1>6. PICK v \in Variant : v = vars0[i]
    BY <1>5
<1>7. PICK chain \in Seq(Anchor) : chain = v.anchors
    BY DEF Variant
<1>8. PICK n \in Nat : n = Len(chain) /\ n >= 2
    BY <1>3, <1>4, <1>5, <1>6, <1>7 DEF Valid
<1>9. Head(chain).overnight /\ Last(chain).overnight
    BY <1>3, <1>4, <1>5, <1>6, <1>7, VariantsEndAtNights, Zenon DEF VariantsEndAtNights
<1>10. chain[1].overnight /\ chain[n].overnight
    <2>1. Head(chain) = chain[1] /\ Last(chain) = chain[n]
        BY <1>8 DEF Last
    <2>2. QED
        BY <1>9, <2>1, Zenon
<1>11. 1 \in 1..n /\ n \in 1..n
    BY <1>8
<1>12. CASE vs = Files[f].variants
    <2>1. vs[i].anchors = chain
        BY <1>4, <1>6, <1>7, <1>12
    <2>2. QED
        BY <1>8, <1>10, <1>11, <2>1 DEF Overnight
<1>13. CASE vs = [j \in 1..Len(Files[f].variants) |-> ReversedVariant(Files[f].variants[j])]
    <2>1. vs[i] = ReversedVariant(v)
        BY <1>4, <1>5, <1>6, <1>13
    <2>2. vs[i].anchors = Reverse(chain)
        BY <1>7, <2>1 DEF ReversedVariant, Variant
    <2>3. Reverse(chain) = [k \in 1..n |-> chain[(n - k) + 1]]
        BY <1>8 DEF Reverse
    <2>4. PICK back : back = Reverse(chain)
        OBVIOUS
    <2>5. Len(back) = n
        BY <2>3, <2>4
    <2>6. back[1] = chain[n] /\ back[n] = chain[1]
        BY <1>8, <1>11, <2>3, <2>4
    <2>7. back[1].overnight /\ back[n].overnight
        BY <1>10, <2>6, Zenon
    <2>8. vs[i].anchors = back
        BY <2>2, <2>4
    <2>9. QED
        BY <1>11, <2>5, <2>7, <2>8 DEF Overnight
<1>14. QED
    BY <1>2, <1>12, <1>13

LEMMA FlattenedLength ==
    ASSUME NEW S, NEW seqs \in Seq(Seq(S)),
           NEW r \in Running(Len(seqs), [k \in 1..Len(seqs) |-> Len(seqs[k])])
    PROVE  Len(FlattenSeq(seqs)) = r[Len(seqs)]
<1>1. PICK g \in Flats(S, seqs) : FlattenSeq(seqs) = g[Len(seqs)]
    BY FlattenSeqIsFlat
<1>2. Len(seqs) \in 0..Len(seqs)
    OBVIOUS
<1>3. QED
    BY <1>1, <1>2, FlatsAreLaidOut

HopCount(v) == Len(v.anchors) - 1

LEMMA HopsOfVariant ==
    ASSUME NEW v \in Variant, Len(v.anchors) >= 2
    PROVE  Hops(v) \in Seq(Hop) /\ Len(Hops(v)) = HopCount(v) /\ HopCount(v) \in Nat
<1>1. PICK chain \in Seq(Anchor) : chain = v.anchors
    BY DEF Variant
<1>2. PICK n \in Nat : n = Len(chain) /\ n >= 2 /\ n - 1 \in Nat
    BY <1>1
<1>3. \A k \in 1..(n - 1) : chain[k] \in Anchor /\ chain[k + 1] \in Anchor
    <2>1. \A k \in 1..(n - 1) : k \in 1..n /\ k + 1 \in 1..n
        OBVIOUS
    <2>2. \A k \in 1..n : chain[k] \in Anchor
        BY <1>2
    <2>3. QED
        BY <2>1, <2>2
<1>4. Hops(v) = [k \in 1..(n - 1) |->
                    [from |-> chain[k].town, to |-> chain[k + 1].town,
                     ferry |-> chain[k + 1].ferry]]
    BY <1>1, <1>2 DEF Hops
<1>5. Hops(v) \in [1..(n - 1) -> Hop]
    BY <1>3, <1>4 DEF Anchor, Hop
<1>6. QED
    BY <1>1, <1>2, <1>5, FunctionIsList DEF HopCount

\* How many hops the first variants have.
LEMMA HopsUpTo ==
    ASSUME NEW cvs \in Seq(Variant), \A i \in 1..Len(cvs) : Len(cvs[i].anchors) >= 2,
           NEW r \in Running(Len(cvs), [i \in 1..Len(cvs) |-> HopCount(cvs[i])]),
           NEW m \in 0..Len(cvs), NEW vs, DOMAIN vs = 1..m, \A i \in 1..m : vs[i] = cvs[i]
    PROVE  Len(HopsOf(vs)) = r[m]
<1>1. PICK n \in Nat : n = Len(cvs) /\ m \in 0..n
    OBVIOUS
<1>2. m \in Nat /\ Len(vs) = m
    <2>1. m \in Nat
        OBVIOUS
    <2>2. QED
        BY <2>1
<1>3. \A i \in 1..m : i \in 1..n /\ vs[i] \in Variant /\ Len(vs[i].anchors) >= 2
    BY <1>1
<1>4. PICK lists : lists = [i \in 1..m |-> Hops(vs[i])]
    OBVIOUS
<1>5. \A i \in 1..m : lists[i] \in Seq(Hop) /\ Len(lists[i]) = HopCount(cvs[i])
    BY <1>3, <1>4, HopsOfVariant
<1>6. PICK L : L = Seq(Hop)
    OBVIOUS
<1>7. lists \in [1..m -> L]
    BY <1>4, <1>5, <1>6
<1>8. lists \in Seq(L) /\ Len(lists) = m
    BY <1>2, <1>7, FunctionIsList
<1>9. PICK q : q = [k \in 0..m |-> r[k]]
    OBVIOUS
<1>10. q \in Running(m, [k \in 1..m |-> Len(lists[k])])
    <2>1. r \in [0..n -> Int] /\ r[0] = 0
        BY <1>1 DEF Running
    <2>2. \A k \in 1..n : r[k] = r[k - 1] + HopCount(cvs[k])
        BY <1>1 DEF Running
    <2>3. q \in [0..m -> Int] /\ q[0] = 0
        BY <1>1, <1>9, <2>1
    <2>4. ASSUME NEW k \in 1..m PROVE q[k] = q[k - 1] + Len(lists[k])
        <3>1. k \in 1..n /\ k \in 0..m /\ k - 1 \in 0..m
            BY <1>1
        <3>2. q[k] = r[k] /\ q[k - 1] = r[k - 1]
            BY <1>9, <3>1
        <3>3. QED
            BY <1>5, <2>2, <3>1, <3>2
    <2>5. QED
        BY <2>3, <2>4 DEF Running
<1>11. Len(FlattenSeq(lists)) = q[m]
    <2>1. lists \in Seq(Seq(Hop))
        BY <1>6, <1>8
    <2>2. q \in Running(Len(lists), [k \in 1..Len(lists) |-> Len(lists[k])])
        BY <1>8, <1>10
    <2>3. QED
        BY <1>8, <2>1, <2>2, FlattenedLength
<1>12. HopsOf(vs) = FlattenSeq(lists)
    BY <1>2, <1>4 DEF HopsOf
<1>13. q[m] = r[m]
    BY <1>1, <1>9
<1>14. QED
    BY <1>11, <1>12, <1>13

\* A variant's share of the lengths that were walked has one for each of its hops.
LEMMA LegsAreWhole ==
    ASSUME NEW cvs \in Seq(Variant), \A i \in 1..Len(cvs) : Len(cvs[i].anchors) >= 2,
           NEW ls \in Seq(Nat), Len(ls) = Len(HopsOf(cvs)), NEW i \in 1..Len(cvs)
    PROVE  LegsOf(cvs, ls, i) \in Seq(Nat) /\ Len(LegsOf(cvs, ls, i)) = Len(cvs[i].anchors) - 1
<1>1. PICK n \in Nat : n = Len(cvs) /\ i \in 1..n
    OBVIOUS
<1>2. \A k \in 1..n : HopCount(cvs[k]) \in Nat /\ Len(Hops(cvs[k])) = HopCount(cvs[k])
    BY <1>1, HopsOfVariant
<1>3. PICK val : val = [k \in 1..n |-> HopCount(cvs[k])]
    OBVIOUS
<1>4. val \in [1..n -> Nat] /\ val \in [1..n -> Int]
    BY <1>2, <1>3
<1>5. PICK r : r \in Running(n, val)
    BY <1>4, RunningExists
<1>6. r \in Running(Len(cvs), [k \in 1..Len(cvs) |-> HopCount(cvs[k])])
    BY <1>1, <1>3, <1>5
<1>7. Len(HopsOf(cvs)) = r[n]
    <2>1. n \in 0..Len(cvs) /\ DOMAIN cvs = 1..n
        BY <1>1
    <2>2. \A vs : DOMAIN vs = 1..n /\ (\A k \in 1..n : vs[k] = cvs[k]) => Len(HopsOf(vs)) = r[n]
        BY <1>6, <2>1, HopsUpTo
    <2>3. \A k \in 1..n : cvs[k] = cvs[k]
        OBVIOUS
    <2>4. QED
        BY <2>1, <2>2, <2>3
<1>8. PICK j \in 0..n : j = i - 1 /\ j + 1 = i
    BY <1>1
<1>9. Len(HopsOf(SubSeq(cvs, 1, i - 1))) = r[j]
    <2>1. PICK first : first = SubSeq(cvs, 1, i - 1)
        OBVIOUS
    <2>2. first = [k \in 1..j |-> cvs[k]]
        BY <1>1, <1>8, <2>1
    <2>3. j \in 0..Len(cvs) /\ DOMAIN first = 1..j /\ \A k \in 1..j : first[k] = cvs[k]
        BY <1>1, <1>8, <2>2
    <2>4. QED
        BY <1>6, <2>1, <2>3, HopsUpTo
<1>10. r[i] = r[j] + HopCount(cvs[i]) /\ r[j] >= r[0] /\ r[n] >= r[i] /\ r[0] = 0 /\ r[j] \in Int
    <2>1. i \in 1..n /\ i - 1 = j /\ r[0] = 0 /\ r[j] \in Int
        BY <1>1, <1>5, <1>8 DEF Running
    <2>2. r[i] = r[j] + val[i]
        BY <1>5, <2>1 DEF Running
    <2>3. r[j] >= r[0]
        <3>1. 0 \in 0..n /\ j \in 0..n
            OBVIOUS
        <3>2. \A x \in 0..n : r[x] >= r[0]
            BY <1>4, <1>5, <3>1, RunningGrows
        <3>3. QED
            BY <3>1, <3>2
    <2>4. r[n] >= r[i]
        <3>1. i \in 0..n /\ n \in i..n
            BY <1>1
        <3>2. QED
            BY <1>4, <1>5, <3>1, RunningGrows
    <2>5. QED
        BY <1>3, <2>1, <2>2, <2>3, <2>4
<1>11. PICK h \in Nat, b \in Nat : h = HopCount(cvs[i]) /\ b = r[j] /\ b + h <= Len(ls)
    <2>1. HopCount(cvs[i]) \in Nat
        BY <1>1, <1>2
    <2>2. r[j] \in Nat /\ r[j] + HopCount(cvs[i]) <= Len(ls)
        BY <1>7, <1>10, <2>1
    <2>3. QED
        BY <2>1, <2>2
<1>12. LegsOf(cvs, ls, i) = SubSeq(ls, b + 1, b + h)
    BY <1>1, <1>2, <1>9, <1>11 DEF LegsOf
<1>13. SubSeq(ls, b + 1, b + h) \in Seq(Nat) /\ Len(SubSeq(ls, b + 1, b + h)) = h
    <2>1. PICK k \in Nat, c \in Nat : k = b + 1 /\ c = b + h
        BY <1>11
    <2>2. k \in 1..(Len(ls) + 1) /\ c \in (k - 1)..Len(ls)
        BY <1>11, <2>1
    <2>3. SubSeq(ls, k, c) \in Seq(Nat) /\ Len(SubSeq(ls, k, c)) = (c - k) + 1
        BY <2>2, SubSeqProperties
    <2>4. (c - k) + 1 = h
        BY <2>1
    <2>5. QED
        BY <2>1, <2>3, <2>4
<1>14. QED
    BY <1>11, <1>12, <1>13 DEF HopCount

LEMMA TotalIsWhole ==
    ASSUME NEW ls \in Seq(Nat)
    PROVE  Rounded(Total(ls)) \in Nat
<1>1. PICK n \in Nat : n = Len(ls)
    OBVIOUS
<1>2. ls \in [1..n -> Nat] /\ ls \in [1..n -> Int]
    BY <1>1
<1>3. PICK r : r \in Running(n, ls)
    BY <1>2, RunningExists
<1>4. Total(ls) = r[n]
    BY <1>2, <1>3, TotalIsSum
<1>5. r[n] \in Nat
    <2>1. 0 \in 0..n /\ n \in 0..n
        OBVIOUS
    <2>2. r[n] >= r[0]
        BY <1>2, <1>3, <2>1, RunningGrows
    <2>3. r[0] = 0 /\ r[n] \in Int
        BY <1>3, <2>1 DEF Running
    <2>4. QED
        BY <2>2, <2>3
<1>6. QED
    BY <1>4, <1>5, RoundedIsNear

\* What a plan says of a variant agrees with itself.
VariantRight(v, target) ==
    /\ v.total \in Nat /\ v.total = v.stops[Len(v.stops)].from_start
    /\ StopsRight(v.stops, v.total)
    /\ v.days = SuggestDayPlan(v.stops, target)

LEMMA BuiltIsRight ==
    ASSUME NEW cv, NEW n \in Nat, n = Len(cv.anchors), n >= 2,
           1 \in Overnight(cv), n \in Overnight(cv),
           NEW ls \in Seq(Nat), Len(ls) = n - 1, NEW target \in Nat \ {0}
    PROVE  VariantRight(BuiltVariant(cv, ls, target), target)
<1>1. PICK v : v = BuiltVariant(cv, ls, target)
    OBVIOUS
<1>2. /\ v.stops = Stops(cv, ls) /\ v.total = Rounded(Total(ls))
      /\ v.days = SuggestDayPlan(v.stops, target)
    BY <1>1 DEF BuiltVariant
<1>3. /\ StopsRight(v.stops, v.total)
      /\ v.total = v.stops[Len(v.stops)].from_start
    BY <1>2, StopsOfVariant
<1>4. v.total \in Nat
    BY <1>2, TotalIsWhole
<1>5. QED
    BY <1>1, <1>2, <1>3, <1>4 DEF VariantRight

\* The same for a seeded route that the response model accepts.
LEMMA SeededIsRight ==
    ASSUME NEW trip \in DOMAIN SeededRoutes, Acceptable(SeededRoutes[trip]),
           NEW target \in Nat \ {0}
    PROVE  VariantRight(SeededVariant(SeededRoutes[trip], target), target)
<1>1. PICK rows, v : rows = SeededRoutes[trip] /\ v = SeededVariant(rows, target)
    OBVIOUS
<1>2. /\ rows \in Seq(ToSet(rows)) /\ Len(rows) >= 2
      /\ \A i \in 1..Len(rows) : rows[i].from_start \in Nat
      /\ Head(rows).from_start = 0 \/ Last(rows).from_start = 0
    BY <1>1, DistancesAreNumbers DEF DistancesAreNumbers
<1>3. /\ v.stops = SeededStops(rows) /\ v.total = Last(v.stops).from_start
      /\ v.days = SuggestDayPlan(v.stops, target)
    BY <1>1 DEF SeededVariant
<1>4. v.total \in Nat /\ StopsRight(v.stops, v.total)
    BY <1>1, <1>2, <1>3, StopsOfSeeded
<1>5. QED
    BY <1>1, <1>3, <1>4 DEF VariantRight, Last

\* A plan asks for a target that the tool accepts; only a plan goes to the seeded routes,
\* and it ends with one that the response model accepts.
AskRight(r) ==
    /\ stage[r] # "idle" /\ ask[r].kind = "plan" => ask[r].target \in Targets
    /\ stage[r] = "seeded" => ask[r].kind = "plan"
    /\ outcome[r] = "seeded" =>
          /\ stage[r] = "done" /\ ask[r].kind = "plan"
          /\ ask[r].trip \in DOMAIN SeededRoutes
          /\ Acceptable(SeededRoutes[ask[r].trip])

AskInv == \A r \in Requests : AskRight(r)

LEMMA AskStays ==
    ASSUME AskInv, NEW q \in Requests, ask'[q] = ask[q], stage'[q] = stage[q],
           outcome'[q] = outcome[q]
    PROVE  AskRight(q)'
<1>1. AskRight(q)
    BY DEF AskInv
<1>2. QED
    BY <1>1 DEF AskRight

\* Where a request is after it walked on.
LEMMA WalkLeads ==
    ASSUME Functions, NEW r \in Requests, NEW a, NEW hs, NEW behind, NEW c,
           Walk(r, a, hs, behind, c)
    PROVE  /\ stage'[r] \in {"brouter", "done"}
           /\ outcome'[r] \in {outcome[r], "brouter", "not_found", "gpx"}
           /\ \A q \in Requests : q # r => stage'[q] = stage[q] /\ outcome'[q] = outcome[q]
    BY DEF Functions, Walk, Done

LEMMA InitAsk == RouteInit => AskInv
    BY DEF RouteInit, AskInv, AskRight

LEMMA StepAsk == RouteInv /\ AskInv /\ [RouteNext]_routeVars => AskInv'
<1> SUFFICES ASSUME RouteInv, AskInv, [RouteNext]_routeVars, NEW q \in Requests
             PROVE  AskRight(q)'
    BY DEF AskInv
<1>0. Functions /\ AskRight(q)
    BY DEF RouteInv, AskInv
<1>1. ASSUME NEW r \in Requests, NEW trip \in Trips, NEW target \in Targets,
             AskPlan(r, trip, target)
      PROVE  AskRight(q)'
    <2> DEFINE a == Plan(trip, target)
    <2>1. stage[r] = "idle" /\ ask' = [ask EXCEPT ![r] = a]
        BY <1>1 DEF AskPlan
    <2>2. a.kind = "plan" /\ a.target \in Targets
        BY DEF Plan
    <2>3. /\ stage'[r] \in {"seeded", "brouter", "done"}
          /\ outcome'[r] \in {outcome[r], "brouter", "not_found", "gpx"}
          /\ \A p \in Requests : p # r => stage'[p] = stage[p] /\ outcome'[p] = outcome[p]
        <3>1. CASE Catalogued(a) = None
            <4>1. stage' = [stage EXCEPT ![r] = "seeded"] /\ UNCHANGED outcome
                BY <1>1, <3>1 DEF AskPlan
            <4>2. QED
                BY <1>0, <4>1 DEF Functions
        <3>2. CASE Catalogued(a) # None
            <4>1. Walk(r, a, hops'[r], <<>>, cache)
                BY <1>1, <3>2 DEF AskPlan, Start
            <4> HIDE DEF a
            <4>2. QED
                BY <1>0, <4>1, WalkLeads
        <3>3. QED
            BY <3>1, <3>2
    <2>4. CASE q = r
        <3>1. ask'[r] = a /\ outcome[r] # "seeded"
            BY <1>0, <2>1, <2>4 DEF Functions, AskRight
        <3> HIDE DEF a
        <3>2. QED
            BY <2>2, <2>3, <2>4, <3>1 DEF AskRight
    <2>5. CASE q # r
        <3>1. ask'[q] = ask[q]
            BY <1>0, <2>1, <2>5 DEF Functions
        <3>2. QED
            BY <2>3, <2>5, <3>1, AskStays
    <2>6. QED
        BY <2>4, <2>5
<1>2. ASSUME NEW r \in Requests, NEW a, a.kind # "plan", AskDownload(r, a)
      PROVE  AskRight(q)'
    <2>1. stage[r] = "idle" /\ ask' = [ask EXCEPT ![r] = a]
        BY <1>2 DEF AskDownload
    <2>2. /\ stage'[r] \in {"brouter", "done"}
          /\ outcome'[r] \in {outcome[r], "brouter", "not_found", "gpx"}
          /\ \A p \in Requests : p # r => stage'[p] = stage[p] /\ outcome'[p] = outcome[p]
        <3>1. CASE ResolvedVariant(a) = <<>>
            <4>1. Done(r, "not_found")
                BY <1>2, <3>1 DEF AskDownload
            <4>2. QED
                BY <1>0, <4>1 DEF Functions, Done
        <3>2. CASE ResolvedVariant(a) # <<>>
            <4>1. Walk(r, a, hops'[r], <<>>, cache)
                BY <1>2, <3>2 DEF AskDownload, Start
            <4>2. QED
                BY <1>0, <4>1, WalkLeads
        <3>3. QED
            BY <3>1, <3>2
    <2>3. CASE q = r
        <3>1. ask'[r] = a /\ outcome[r] # "seeded"
            BY <1>0, <2>1, <2>3 DEF Functions, AskRight
        <3>2. QED
            BY <1>2, <2>2, <2>3, <3>1 DEF AskRight
    <2>4. CASE q # r
        <3>1. ask'[q] = ask[q]
            BY <1>0, <2>1, <2>4 DEF Functions
        <3>2. QED
            BY <2>2, <2>4, <3>1, AskStays
    <2>5. QED
        BY <2>3, <2>4
<1>3. ASSUME NEW r \in Requests, Fetched(r) PROVE AskRight(q)'
    <2>1. stage[r] = "brouter" /\ ask' = ask
        BY <1>3 DEF Fetched
    <2>2. \E m : Walk(r, ask[r], hops[r], Append(legs[r], m), cache')
        BY <1>3 DEF Fetched
    <2>3. /\ stage'[r] \in {"brouter", "done"}
          /\ outcome'[r] \in {outcome[r], "brouter", "not_found", "gpx"}
          /\ \A p \in Requests : p # r => stage'[p] = stage[p] /\ outcome'[p] = outcome[p]
        BY <1>0, <2>2, WalkLeads
    <2>4. CASE q = r
        BY <1>0, <2>1, <2>3, <2>4 DEF AskRight
    <2>5. CASE q # r
        BY <2>1, <2>3, <2>5, AskStays
    <2>6. QED
        BY <2>4, <2>5
<1>4. ASSUME NEW r \in Requests, FetchFails(r) PROVE AskRight(q)'
    <2>1. /\ stage[r] = "brouter" /\ ask' = ask
          /\ \/ stage' = [stage EXCEPT ![r] = "seeded"] /\ UNCHANGED outcome /\ IsPlan(r)
             \/ \E what \in {"error", "bad_gateway"} : Done(r, what)
        BY <1>4 DEF FetchFails
    <2>2. CASE q = r
        BY <1>0, <2>1, <2>2 DEF Functions, AskRight, Done, IsPlan
    <2>3. CASE q # r
        <3>1. stage'[q] = stage[q] /\ outcome'[q] = outcome[q] /\ ask'[q] = ask[q]
            BY <1>0, <2>1, <2>3 DEF Functions, Done
        <3>2. QED
            BY <3>1, AskStays
    <2>4. QED
        BY <2>2, <2>3
<1>5. ASSUME NEW r \in Requests, LookUpSeeded(r) PROVE AskRight(q)'
    <2>1. stage[r] = "seeded" /\ ask' = ask
        BY <1>5 DEF LookUpSeeded
    <2>2. \/ /\ ask[r].trip \in DOMAIN SeededRoutes
             /\ \/ Acceptable(SeededRoutes[ask[r].trip]) /\ Done(r, "seeded")
                \/ Done(r, "error") \/ Done(r, "seeded_bare")
          \/ stage' = [stage EXCEPT ![r] = "geocode"] /\ UNCHANGED outcome
        BY <1>5 DEF LookUpSeeded
    <2>3. CASE q = r
        BY <1>0, <2>1, <2>2, <2>3 DEF Functions, AskRight, Done
    <2>4. CASE q # r
        <3>1. stage'[q] = stage[q] /\ outcome'[q] = outcome[q] /\ ask'[q] = ask[q]
            BY <1>0, <2>1, <2>2, <2>4 DEF Functions, Done
        <3>2. QED
            BY <3>1, AskStays
    <2>5. QED
        BY <2>3, <2>4
<1>6. ASSUME NEW r \in Requests, RoutesQueryFails(r) \/ Geocode(r) PROVE AskRight(q)'
    <2>1. /\ stage[r] \in {"seeded", "geocode"} /\ ask' = ask
          /\ \E what \in {"error", "generic", "stub"} : Done(r, what)
        BY <1>6 DEF RoutesQueryFails, Geocode
    <2>2. CASE q = r
        BY <1>0, <2>1, <2>2 DEF Functions, AskRight, Done
    <2>3. CASE q # r
        <3>1. stage'[q] = stage[q] /\ outcome'[q] = outcome[q] /\ ask'[q] = ask[q]
            BY <1>0, <2>1, <2>3 DEF Functions, Done
        <3>2. QED
            BY <3>1, AskStays
    <2>4. QED
        BY <2>2, <2>3
<1>7. ASSUME NEW h \in DOMAIN cache, Expire(h) PROVE AskRight(q)'
    BY <1>7, AskStays DEF Expire
<1>8. CASE UNCHANGED routeVars
    BY <1>8, AskStays DEF routeVars
<1>9. QED
    BY <1>1, <1>2, <1>3, <1>4, <1>5, <1>6, <1>7, <1>8, OfferedAreDownloads DEF RouteNext, Serve

LEMMA RoutesKeepInv == RouteSpec => [](RouteInv /\ AskInv)
<1>1. RouteInit => RouteInv /\ AskInv
    BY InitRoutes, InitAsk
<1>2. RouteInv /\ AskInv /\ [RouteNext]_routeVars => RouteInv' /\ AskInv'
    BY StepRoutes, StepAsk
<1>3. QED
    BY <1>1, <1>2, PTL DEF RouteSpec

\* What a variant of a routed plan is built from.
BuiltFrom(v, cv, ls, target) ==
    /\ v = BuiltVariant(cv, ls, target)
    /\ cv \in Variant /\ Len(cv.anchors) \in Nat /\ Len(cv.anchors) >= 2
    /\ 1 \in Overnight(cv) /\ Len(cv.anchors) \in Overnight(cv)
    /\ ls \in Seq(Nat) /\ Len(ls) = Len(cv.anchors) - 1

LEMMA RoutedAreBuilt ==
    ASSUME RouteInv, NEW r \in Requests, outcome[r] = "brouter"
    PROVE  /\ Catalogued(ask[r]) # None /\ Len(Variants(r)) = Len(Catalogued(ask[r]))
           /\ \A i \in 1..Len(Variants(r)) : \E ls :
                 BuiltFrom(Variants(r)[i], Catalogued(ask[r])[i], ls, ask[r].target)
<1>1. PlanInv(r)
    BY DEF RouteInv
<1>2. PICK cvs : cvs = Catalogued(ask[r]) /\ cvs # None
    BY <1>1 DEF PlanInv, PlanHops
<1>3. /\ cvs \in Seq(Variant) /\ \A k \in 1..Len(cvs) : Len(cvs[k].anchors) >= 2
      /\ cvs = CorridorVariants(ask[r].trip[1], ask[r].trip[2])
    BY <1>2, CataloguedAreWhole DEF Catalogued
<1>4. Len(Variants(r)) = Len(cvs)
    BY <1>2, VariantsOfRoute
<1>5. PICK ls : ls = legs[r]
    OBVIOUS
<1>6. ls \in Seq(Metres) /\ Len(ls) = Len(HopsOf(cvs))
    BY <1>1, <1>2, <1>5 DEF PlanInv, PlanHops, LegsRight
<1>7. ls \in Seq(Nat)
    <2>1. Metres \subseteq Nat
        BY DistancesAreNumbers DEF DistancesAreNumbers, Metres
    <2>2. ls \in [1..Len(ls) -> Nat] /\ Len(ls) \in Nat
        <3>1. PICK n \in Nat : n = Len(ls)
            BY <1>6
        <3>2. ls \in [1..n -> Metres]
            BY <1>6, <3>1
        <3>3. QED
            BY <2>1, <3>1, <3>2
    <2>3. QED
        BY <2>2, FunctionIsList
<1>8. ASSUME NEW i \in 1..Len(cvs)
      PROVE  \E mine : BuiltFrom(Variants(r)[i], cvs[i], mine, ask[r].target)
    <2>1. PICK mine : mine = LegsOf(cvs, ls, i)
        OBVIOUS
    <2>2. mine \in Seq(Nat) /\ Len(mine) = Len(cvs[i].anchors) - 1
        BY <1>3, <1>6, <1>7, <2>1, LegsAreWhole
    <2>3. Variants(r)[i] = BuiltVariant(cvs[i], mine, ask[r].target)
        BY <1>2, <1>5, <2>1 DEF Variants
    <2>4. cvs[i] \in Variant /\ Len(cvs[i].anchors) >= 2
        BY <1>3
    <2>5. Len(cvs[i].anchors) \in Nat
        BY <2>4 DEF Variant
    <2>6. 1 \in Overnight(cvs[i]) /\ Len(cvs[i].anchors) \in Overnight(cvs[i])
        BY <1>2, <1>3, SleptAtBothEnds
    <2>7. QED
        BY <2>2, <2>3, <2>4, <2>5, <2>6 DEF BuiltFrom
<1>9. QED
    BY <1>2, <1>4, <1>8

\* All variants of a plan that was made are right.
LEMMA PlansAreRight ==
    ASSUME RouteInv, AskInv, NEW r \in Requests, outcome[r] \in {"brouter", "seeded"}
    PROVE  /\ ask[r].target \in Nat \ {0}
           /\ \A i \in 1..Len(Variants(r)) : VariantRight(Variants(r)[i], ask[r].target)
<1>1. PlanInv(r) /\ AskRight(r)
    BY DEF RouteInv, AskInv
<1>2. ask[r].target \in Nat \ {0}
    BY <1>1, DistancesAreNumbers DEF PlanInv, AskRight, DistancesAreNumbers
<1> SUFFICES ASSUME NEW i \in 1..Len(Variants(r))
             PROVE  VariantRight(Variants(r)[i], ask[r].target)
    BY <1>2
<1>3. CASE outcome[r] = "brouter"
    <2>1. PICK ls : BuiltFrom(Variants(r)[i], Catalogued(ask[r])[i], ls, ask[r].target)
        BY <1>3, RoutedAreBuilt
    <2>2. PICK cv : cv = Catalogued(ask[r])[i]
        OBVIOUS
    <2>3. VariantRight(BuiltVariant(cv, ls, ask[r].target), ask[r].target)
        BY <1>2, <2>1, <2>2, BuiltIsRight DEF BuiltFrom
    <2>4. QED
        BY <2>1, <2>2, <2>3 DEF BuiltFrom
<1>4. CASE outcome[r] = "seeded"
    <2>1. ask[r].trip \in DOMAIN SeededRoutes /\ Acceptable(SeededRoutes[ask[r].trip])
        BY <1>1, <1>4 DEF AskRight
    <2>2. PICK v : v = SeededVariant(SeededRoutes[ask[r].trip], ask[r].target)
        OBVIOUS
    <2>3. Variants(r) = <<v>>
        BY <1>4, <2>2 DEF Variants
    <2>4. Variants(r)[i] = v
        BY <2>3
    <2>5. QED
        BY <1>2, <2>1, <2>2, <2>4, SeededIsRight
<1>5. QED
    BY <1>3, <1>4

\* Whatever the router answers and whoever else asks, the days of every plan - routed or
\* seeded - lead from its start to its end, each from where the one before ended, ride the
\* stated distance but for the rounding, and no other way to spend as many days comes
\* nearer to the target: what the dynamic program of _suggest_day_plan is there for.
THEOREM PlansAreBest == RouteSpec => []PlansAreBestSplits
<1>1. ASSUME RouteInv, AskInv PROVE PlansAreBestSplits
    <2> SUFFICES ASSUME NEW r \in Requests, outcome[r] \in {"brouter", "seeded"},
                        NEW i \in 1..Len(Variants(r))
                 PROVE  /\ DaysAddUp(Variants(r)[i])
                        /\ Len(Variants(r)[i].days) > 1 => IsBest(Variants(r)[i], ask[r].target)
        BY DEF PlansAreBestSplits
    <2>1. ask[r].target \in Nat \ {0} /\ VariantRight(Variants(r)[i], ask[r].target)
        BY <1>1, PlansAreRight
    <2>2. PICK v, target : v = Variants(r)[i] /\ target = ask[r].target
        OBVIOUS
    <2>3. v.total \in Int /\ StopsRight(v.stops, v.total) /\ v.days = SuggestDayPlan(v.stops, target)
        BY <2>1, <2>2 DEF VariantRight
    <2>4. target \in Nat \ {0}
        BY <2>1, <2>2
    <2>5. QED
        BY <2>2, <2>3, <2>4, PlanIsBestSplit
<1>2. QED
    BY <1>1, RoutesKeepInv, PTL

-----------------------------------------------------------------------------
\* A plan and the critique

\* The average of the days, as the critique takes it.
LEMMA DraftRides ==
    ASSUME NEW v, NEW c \in Nat \ {0}, DOMAIN v.days = 1..c,
           \A d \in 1..c : v.days[d].km \in Int,
           NEW target \in Nat \ {0}, NEW total, total = Together(v.days),
           ~ DriftsBy(25, total, c, target)
    PROVE  ~ Blocked(CheckConstraintDrift(DraftOf(v), target))
<1>1. PICK draft0 : draft0 = DraftOf(v)
    OBVIOUS
<1>2. Len(v.days) = c
    OBVIOUS
<1>3. DOMAIN draft0 = 1..c /\ Len(draft0) = c
    BY <1>1, <1>2 DEF DraftOf
<1>4. \A d \in 1..c : draft0[d].km = v.days[d].km
    BY <1>1, <1>2 DEF DraftOf, DraftedDay
<1>5. PICK val : val = [x \in 1..c |-> v.days[x].km]
    OBVIOUS
<1>6. val = [x \in 1..c |-> draft0[x].km]
    BY <1>4, <1>5
<1>7. val \in [1..c -> Int]
    BY <1>5
<1>8. PICK r : r \in Running(c, val)
    BY <1>7, RunningExists
<1>9. Together(v.days) = r[c]
    BY <1>5, <1>8, TogetherIsSum
<1>10. Together(draft0) = r[c]
    <2>1. \A x \in 1..c : draft0[x].km \in Int
        BY <1>4
    <2>2. QED
        BY <1>3, <1>6, <1>8, <2>1, TogetherIsSum
<1>11. CheckConstraintDrift(draft0, target) =
         IF ~ DriftsBy(12, Together(draft0), Len(draft0), target) THEN {}
         ELSE {Issue(IF DriftsBy(25, Together(draft0), Len(draft0), target) THEN "blocker" ELSE "warning",
                     "constraint_drift", 1..Len(draft0))}
    BY DEF CheckConstraintDrift, Together
<1>12. \A i \in CheckConstraintDrift(draft0, target) : i.severity = "warning"
    BY <1>3, <1>9, <1>10, <1>11 DEF Issue
<1>13. QED
    BY <1>1, <1>12 DEF Blocked

\* The days of a plan come to its distance, give or take half a target and the roundings.
LEMMA NearEnough ==
    ASSUME NEW km \in Int, NEW total \in Int, NEW n \in Nat, NEW c \in Nat, c >= 3,
           NEW target \in Nat \ {0}, 2 * n < target,
           NEW planned \in Int, planned = c * target,
           2 * km <= 2 * total + n, 2 * total <= 2 * km + n,
           2 * total <= 2 * planned + target, 2 * planned <= 2 * total + target
    PROVE  ~ DriftsBy(25, km, c, target)
<1>1. planned = c * target
    OBVIOUS
<1>2. planned >= 3 * target
    BY <1>1
<1>3. /\ km > planned => 4 * (km - planned) < 3 * target
      /\ km <= planned => 4 * (planned - km) < 3 * target
    BY <1>1
<1>4. QED
    BY <1>1, <1>2, <1>3 DEF DriftsBy

LEMMA DaysOfPlan ==
    ASSUME NEW stops, NEW total, StopsRight(stops, total), NEW target \in Nat \ {0},
           NEW days, days = SuggestDayPlan(stops, target)
    PROVE  /\ Len(days) = DayCount(stops, target) /\ Len(days) \in 1..(Len(stops) - 1)
           /\ DOMAIN days = 1..Len(days)
           /\ \A d \in 1..Len(days) : days[d].km \in Int
<1>1. PICK n \in Nat : n = Len(stops) /\ n >= 2
    BY DEF StopsRight
<1>2. PICK S : S = ToSet(stops)
    OBVIOUS
<1>3. stops \in Seq(S) /\ \A i \in 1..n : stops[i].from_start \in Nat /\ stops[i].segment \in Int
    BY <1>1, <1>2 DEF StopsRight
<1>4. Measured(stops)
    BY <1>1, <1>3 DEF Measured
<1>5. PICK sums : sums \in Running(n, [i \in 1..n |-> stops[i].segment])
    <2>1. [i \in 1..n |-> stops[i].segment] \in [1..n -> Int]
        BY <1>3
    <2>2. QED
        BY <2>1, RunningExists
<1>6. stops[Len(stops)].from_start \in Nat /\ Len(stops) >= 2 /\ Len(stops) \in Nat
    <2>1. n \in 1..n
        BY <1>1
    <2>2. QED
        BY <1>1, <1>3, <2>1
<1>7. /\ Len(days) = DayCount(stops, target) /\ Len(days) \in 1..(Len(stops) - 1)
      /\ \A d \in 1..Len(days) : days[d].km \in Int
    <2>1. \A i \in 1..Len(stops) : stops[i].segment \in Int
        BY <1>1, <1>3
    <2>2. sums \in Running(Len(stops), [i \in 1..Len(stops) |-> stops[i].segment])
        BY <1>1, <1>5
    <2>3. stops \in Seq(S)
        BY <1>3
    <2>4. QED
        BY <1>4, <1>6, <2>1, <2>2, <2>3, DaysLeadOn
<1>8. PICK c \in Nat : c = Len(days) /\ c = DayCount(stops, target)
    BY <1>1, <1>7
<1>9. PICK e : e = PlanEnds(stops, target)
    OBVIOUS
<1>10. Len(e) = c + 1
    BY <1>4, <1>6, <1>8, <1>9, EndsAreBest
<1>11. DOMAIN days = 1..c
    BY <1>6, <1>9, <1>10, PlanIsListed
<1>12. QED
    BY <1>7, <1>8, <1>11

\* A plan of three days or more, with enough stops and a target well above the roundings,
\* is not refused for its average.
LEMMA PlanShips ==
    ASSUME NEW v, NEW target \in Nat \ {0}, VariantRight(v, target),
           Len(v.days) >= 3, Uncapped(v, target), RoundingIsSlight(v, target)
    PROVE  ~ Blocked(CheckConstraintDrift(DraftOf(v), target))
<1>0. /\ v.total \in Nat /\ StopsRight(v.stops, v.total)
      /\ v.total = v.stops[Len(v.stops)].from_start
      /\ v.days = SuggestDayPlan(v.stops, target)
    BY DEF VariantRight
<1>1. PICK stops, days : stops = v.stops /\ days = v.days
    OBVIOUS
<1>2. PICK total \in Nat : total = v.total /\ total = stops[Len(stops)].from_start
    BY <1>0, <1>1
<1>3. PICK n \in Nat : n = Len(stops) /\ n >= 2
    BY <1>0, <1>1 DEF StopsRight
<1>4. DaysAddUp(v)
    <2>1. v.total \in Int
        BY <1>0
    <2>2. QED
        BY <1>0, <2>1, PlanIsBestSplit
<1>5. PICK c \in Nat : c = Len(days) /\ c >= 3
    <2>1. Len(days) \in 1..(n - 1)
        BY <1>0, <1>1, <1>3, DaysOfPlan
    <2>2. QED
        BY <1>1, <2>1
<1>6. /\ DOMAIN days = 1..c /\ \A d \in 1..c : days[d].km \in Int
      /\ c = DayCount(stops, target)
    BY <1>0, <1>1, <1>5, DaysOfPlan
<1>7. PICK km \in Int : km = Together(days)
    <2>1. [x \in 1..c |-> days[x].km] \in [1..c -> Int]
        BY <1>6
    <2>2. PICK r : r \in Running(c, [x \in 1..c |-> days[x].km])
        BY <2>1, RunningExists
    <2>3. Together(days) = r[c]
        BY <1>6, <2>2, TogetherIsSum
    <2>4. r[c] \in Int
        BY <2>2 DEF Running
    <2>5. QED
        BY <2>3, <2>4
<1>8. 2 * km <= 2 * total + n /\ 2 * total <= 2 * km + n
    BY <1>1, <1>2, <1>3, <1>4, <1>7 DEF DaysAddUp
<1>9. PICK ratio \in Nat : /\ ratio = RoundedRatio(total, target)
                           /\ 2 * (ratio * target) <= 2 * total + target
                           /\ 2 * total <= 2 * (ratio * target) + target
    BY RoundedRatioIsNearest
<1>10. c = ratio \/ (c = n - 1 /\ ratio >= n)
    <2>1. Len(stops) \in Nat /\ Len(stops) >= 2 /\ stops[Len(stops)].from_start \in Nat
        BY <1>2, <1>3
    <2>2. DayCount(stops, target) > 1
        BY <1>5, <1>6
    <2>3. QED
        BY <1>2, <1>3, <1>6, <1>9, <2>1, <2>2, DayCountRange
<1>11. 2 * total <= (2 * n - 1) * target
    BY <1>1, <1>2, <1>3 DEF Uncapped
<1>12. PICK planned \in Int : planned = c * target
    OBVIOUS
<1>13. 2 * planned <= 2 * total + target /\ 2 * total <= 2 * planned + target
    <2>1. PICK long \in Int : long = ratio * target
        OBVIOUS
    <2>2. 2 * long <= 2 * total + target /\ 2 * total <= 2 * long + target
        BY <1>9, <2>1
    <2>3. CASE c = ratio
        BY <1>12, <2>1, <2>2, <2>3
    <2>4. CASE c = n - 1 /\ ratio >= n
        <3>1. (2 * n - 1) * target = 2 * planned + target
            BY <1>12, <2>4
        <3>2. 2 * total <= 2 * planned + target
            BY <1>11, <3>1
        <3>3. PICK more \in Nat : ratio = c + more
            <4>1. ratio - c \in Nat /\ ratio = c + (ratio - c)
                BY <2>4
            <4>2. QED
                BY <4>1
        <3>4. PICK extra \in Nat : extra = more * target
            OBVIOUS
        <3>5. long = planned + extra
            BY <1>12, <2>1, <3>3, <3>4
        <3>6. QED
            BY <2>2, <3>2, <3>5
    <2>5. QED
        BY <1>10, <2>3, <2>4
<1>14. 2 * n < target
    BY <1>1, <1>3 DEF RoundingIsSlight
<1>15. ~ DriftsBy(25, km, c, target)
    <2>1. total \in Int /\ c \in Nat /\ c >= 3 /\ planned = c * target
        BY <1>5, <1>12
    <2>2. QED
        BY <1>8, <1>13, <1>14, <2>1, NearEnough
<1>16. c \in Nat \ {0}
    BY <1>5
<1>17. QED
    BY <1>1, <1>6, <1>7, <1>15, <1>16, DraftRides

\* The critique never blocks a plan of get_route for its average day, whichever distances
\* the router answers: the day count that one tool rounds to lies within half a daily
\* target of the distance, and with three days or more that is less than the quarter
\* that the other one allows.
THEOREM PlansShip == RouteSpec => []SuggestedPlansShip
<1>1. ASSUME RouteInv, AskInv PROVE SuggestedPlansShip
    <2> SUFFICES ASSUME NEW r \in Requests, outcome[r] \in {"brouter", "seeded"},
                        NEW i \in 1..Len(Variants(r)), NEW v, v = Variants(r)[i],
                        NEW target, target = ask[r].target,
                        Len(v.days) >= 3, Uncapped(v, target), RoundingIsSlight(v, target)
                 PROVE  ~ Blocked(CheckConstraintDrift(DraftOf(v), target))
        BY DEF SuggestedPlansShip
    <2>1. target \in Nat \ {0} /\ VariantRight(v, target)
        BY <1>1, PlansAreRight
    <2>2. QED
        BY <2>1, PlanShips
<1>2. QED
    BY <1>1, RoutesKeepInv, PTL

-----------------------------------------------------------------------------
\* A plan and its tracks

\* The track from one night to the next: the towns from the one to the other.
Stretch(v, p, track, x) ==
    /\ Len(track) \in Nat /\ Len(track) >= 2
    /\ Head(track) = v.anchors[p[x]].town /\ Last(track) = v.anchors[p[x + 1]].town

LEMMA TracksAreStretches ==
    ASSUME NEW v \in Variant, NEW n \in Nat, n = Len(v.anchors), n >= 2,
           1 \in Overnight(v), n \in Overnight(v), NEW p, p = Nights(v)
    PROVE  /\ Len(p) \in Nat /\ Len(p) >= 2
           /\ Polylines(v) \in Seq(ToSet(Polylines(v))) /\ Len(Polylines(v)) = Len(p) - 1
           /\ \A x \in 1..(Len(p) - 1) : Stretch(v, p, Polylines(v)[x], x)
<1>1. InTurn(p, n, Overnight(v))
    BY NightsInTurn
<1>2. PICK m \in Nat : m = Len(p) /\ m >= 2 /\ p[1] = 1 /\ p[m] = n
    BY <1>1, TurnsGoOn
<1>3. p \in Seq(Nat) /\ \A x \in 1..(m - 1) : p[x] < p[x + 1]
    BY <1>1, <1>2 DEF InTurn
<1>4. PICK chain \in Seq(Anchor) : chain = v.anchors
    BY DEF Variant
<1>5. Head(v.anchors).overnight
    <2>1. v.anchors[1].overnight
        BY Zenon DEF Overnight
    <2>2. Head(chain) = chain[1]
        BY <1>4
    <2>3. QED
        BY <1>4, <2>1, <2>2, Zenon
<1>6. PICK ends : ends = Tail(p)
    OBVIOUS
<1>7. Len(ends) = m - 1 /\ \A x \in 1..(m - 1) : ends[x] = p[x + 1]
    BY <1>2, <1>3, <1>6
<1> DEFINE begin(x) == IF x = 1 THEN 1 ELSE ends[x - 1]
<1>8. Polylines(v) = [x \in 1..(m - 1) |->
                        [i \in 1..(ends[x] - begin(x) + 1) |-> v.anchors[begin(x) + i - 1].town]]
    BY <1>5, <1>6, <1>7 DEF Polylines
<1>9. ASSUME NEW x \in 1..(m - 1) PROVE begin(x) = p[x]
    <2>1. CASE x = 1
        BY <1>2, <2>1
    <2>2. CASE x # 1
        <3>1. x - 1 \in 1..(m - 1) /\ (x - 1) + 1 = x
            BY <2>2
        <3>2. QED
            BY <1>7, <2>2, <3>1
    <2>3. QED
        BY <2>1, <2>2
<1> HIDE DEF begin
<1>10. ASSUME NEW x \in 1..(m - 1) PROVE Stretch(v, p, Polylines(v)[x], x)
    <2>1. x \in 1..m /\ x + 1 \in 1..m
        BY <1>2
    <2>2. PICK a \in Nat, b \in Nat : a = p[x] /\ b = p[x + 1] /\ a < b
        BY <1>2, <1>3, <2>1
    <2>3. PICK track : track = Polylines(v)[x]
        OBVIOUS
    <2>4. track = [i \in 1..(b - a + 1) |-> v.anchors[a + i - 1].town]
        <3>1. track = [i \in 1..(ends[x] - begin(x) + 1) |-> v.anchors[begin(x) + i - 1].town]
            BY <1>8, <2>3
        <3>2. ends[x] = b /\ begin(x) = a
            BY <1>7, <1>9, <2>2
        <3>3. QED
            BY <3>1, <3>2
    <2>5. PICK k \in Nat : k = b - a + 1 /\ k >= 2 /\ a + 1 - 1 = a /\ a + k - 1 = b
        BY <2>2, SMTT(30)
    <2>6. track = [i \in 1..k |-> v.anchors[a + i - 1].town]
        BY <2>4, <2>5
    <2>7. Len(track) = k /\ 1 \in 1..k /\ k \in 1..k
        BY <2>5, <2>6
    <2>8. track[1] = v.anchors[a].town /\ track[k] = v.anchors[b].town
        BY <2>5, <2>6, <2>7
    <2>9. Head(track) = track[1] /\ Last(track) = track[k]
        BY <2>7 DEF Last
    <2>10. QED
        BY <2>2, <2>3, <2>5, <2>7, <2>8, <2>9 DEF Stretch
<1>11. Polylines(v) \in Seq(ToSet(Polylines(v))) /\ Len(Polylines(v)) = m - 1
    <2>1. PICK k \in Nat : k = m - 1
        BY <1>2
    <2>2. PICK f : f = Polylines(v)
        OBVIOUS
    <2>3. f = [x \in 1..k |-> f[x]] /\ DOMAIN f = 1..k
        BY <1>8, <2>1, <2>2
    <2>4. f \in [1..k -> ToSet(f)]
        BY <2>3 DEF ToSet
    <2>5. QED
        BY <2>1, <2>2, <2>4, FunctionIsList
<1>12. QED
    BY <1>2, <1>10, <1>11

\* Where nights are in towns of their own, the name of a town leads to its stop.
Apart(v, p) == \A x, y \in 1..Len(p) : v.anchors[p[x]].town = v.anchors[p[y]].town => x = y

LEMMA StopIsFound ==
    ASSUME NEW v, NEW p, p = Nights(v), Len(p) \in Nat, Apart(v, p),
           NEW x \in 1..Len(p), NEW town, town = v.anchors[p[x]].town
    PROVE  StopIndex(v, town) = x
<1> DEFINE at == {i \in 1..Len(p) : v.anchors[p[i]].town = town}
<1>1. at = {x}
    BY DEF Apart
<1>2. StopIndex(v, town) = IF at = {} THEN 0 ELSE Min(at)
    BY DEF StopIndex
<1> HIDE DEF at
<1>3. Min({x}) = x
    BY DEF Min
<1>4. QED
    BY <1>1, <1>2, <1>3

LEMMA SliceIsFound ==
    ASSUME NEW v, NEW p, p = Nights(v), Len(p) \in Nat, Apart(v, p),
           NEW a \in 1..Len(p), NEW b \in 1..Len(p), a < b,
           NEW from, from = v.anchors[p[a]].town, NEW to, to = v.anchors[p[b]].town
    PROVE  Slice(v, from, to) = SubSeq(Polylines(v), a, b - 1)
<1>1. StopIndex(v, from) = a /\ StopIndex(v, to) = b
    BY StopIsFound
<1>2. QED
    BY <1>1 DEF Slice

\* A prefix and what follows it.
LEMMA PrefixGrows ==
    ASSUME NEW S, NEW s \in Seq(S), NEW a \in Nat, NEW b \in Nat, a <= b, b <= Len(s)
    PROVE  /\ SubSeq(s, a + 1, b) \in Seq(S)
           /\ SubSeq(s, 1, a) \o SubSeq(s, a + 1, b) = SubSeq(s, 1, b)
<1>1. Len(s) \in Nat
    OBVIOUS
<1>2. SubSeq(s, a + 1, b) \in Seq(S)
    <2>1. a + 1 \in Int /\ b \in Int
        OBVIOUS
    <2>2. ASSUME NEW i \in (a + 1)..b PROVE s[i] \in S
        <3>1. i \in 1..Len(s)
            BY <1>1
        <3>2. QED
            BY <3>1
    <2>3. QED
        BY <2>1, <2>2, SubSeqProperties
<1>3. SubSeq(s, 1, a) \o SubSeq(s, a + 1, b) = SubSeq(s, 1, b)
    <2>1. 1 \in 1..(Len(s) + 1) /\ a \in (1 - 1)..Len(s) /\ b \in a..Len(s)
        BY <1>1
    <2>2. QED
        BY <2>1, ConcatAdjacentSubSeq
<1>4. QED
    BY <1>2, <1>3

\* A list cut at each of e.
Cuts(s, e, c) == [d \in 1..c |-> SubSeq(s, e[d], e[d + 1] - 1)]

LEMMA CutsJoin ==
    ASSUME NEW S, NEW s \in Seq(S), NEW c \in Nat, NEW e \in Splits(c, Len(s) + 1)
    PROVE  FlattenSeq(Cuts(s, e, c)) = s
<1>1. PICK n \in Nat : n = Len(s)
    OBVIOUS
<1>2. e \in [1..(c + 1) -> Nat] /\ e[1] = 1 /\ e[c + 1] = n + 1 /\ \A d \in 1..c : e[d] < e[d + 1]
    BY <1>1 DEF Splits
<1>3. \A d \in 1..(c + 1) : e[d] >= d /\ e[d] <= n + 1
    <2>1. n + 1 \in Nat /\ e \in Splits(c, n + 1)
        BY <1>1
    <2>2. QED
        BY <2>1, SplitsGoOn
<1>4. PICK parts : parts = Cuts(s, e, c)
    OBVIOUS
<1>5. ASSUME NEW d \in 1..c
      PROVE  \E a \in Nat, b \in Nat : /\ e[d] = a + 1 /\ e[d + 1] = b + 1 /\ a <= b /\ b <= n
                                       /\ parts[d] = SubSeq(s, a + 1, b)
    <2>1. d \in 1..(c + 1) /\ d + 1 \in 1..(c + 1)
        OBVIOUS
    <2>2. PICK x \in Nat, y \in Nat : x = e[d] /\ y = e[d + 1]
        BY <1>2, <2>1
    <2>3. x >= 1 /\ x < y /\ y <= n + 1
        BY <1>2, <1>3, <2>1, <2>2
    <2>4. PICK a \in Nat, b \in Nat : x = a + 1 /\ y = b + 1
        <3>1. x - 1 \in Nat /\ x = (x - 1) + 1 /\ y - 1 \in Nat /\ y = (y - 1) + 1
            BY <2>3
        <3>2. QED
            BY <3>1
    <2>5. (b + 1) - 1 = b /\ a <= b /\ b <= n
        BY <2>3, <2>4
    <2>6. parts[d] = SubSeq(s, e[d], e[d + 1] - 1)
        BY <1>4 DEF Cuts
    <2>7. QED
        BY <2>2, <2>4, <2>5, <2>6
<1>6. PICK L : L = Seq(S)
    OBVIOUS
<1>7. parts \in Seq(L) /\ Len(parts) = c
    <2>1. ASSUME NEW d \in 1..c PROVE parts[d] \in L
        <3>1. PICK a \in Nat, b \in Nat : /\ e[d] = a + 1 /\ e[d + 1] = b + 1 /\ a <= b /\ b <= n
                                         /\ parts[d] = SubSeq(s, a + 1, b)
            BY <1>5
        <3>2. SubSeq(s, a + 1, b) \in Seq(S)
            BY <1>1, <3>1, PrefixGrows
        <3>3. QED
            BY <1>6, <3>1, <3>2
    <2>2. parts \in [1..c -> L]
        BY <1>4, <2>1 DEF Cuts
    <2>3. QED
        BY <2>2, FunctionIsList
<1>8. PICK g \in Flats(S, parts) : FlattenSeq(parts) = g[c]
    <2>1. parts \in Seq(Seq(S))
        BY <1>6, <1>7
    <2>2. QED
        BY <1>7, <2>1, FlattenSeqIsFlat
<1>9. g[0] = <<>> /\ \A d \in 1..c : g[d] = g[d - 1] \o parts[d]
    BY <1>7, <1>8 DEF Flats
<1> DEFINE upto(d) == \A b \in Nat : e[d + 1] = b + 1 => g[d] = SubSeq(s, 1, b)
<1> DEFINE good == {d \in 0..c : upto(d)}
<1>10. upto(0)
    <2>1. SubSeq(s, 1, 0) = <<>>
        OBVIOUS
    <2>2. ASSUME NEW b \in Nat, e[0 + 1] = b + 1 PROVE g[0] = SubSeq(s, 1, b)
        <3>1. 0 + 1 = 1
            OBVIOUS
        <3>2. b = 0
            BY <1>2, <2>2, <3>1
        <3>3. QED
            BY <1>9, <2>1, <3>2
    <2>3. QED
        BY <2>2
<1>11. ASSUME NEW d \in 1..c, upto(d - 1) PROVE upto(d)
    <2>1. PICK a \in Nat, b \in Nat : /\ e[d] = a + 1 /\ e[d + 1] = b + 1 /\ a <= b /\ b <= n
                                     /\ parts[d] = SubSeq(s, a + 1, b)
        BY <1>5
    <2>2. (d - 1) + 1 = d
        OBVIOUS
    <2>3. g[d - 1] = SubSeq(s, 1, a)
        BY <1>11, <2>1, <2>2
    <2>4. g[d] = g[d - 1] \o parts[d]
        BY <1>9
    <2>5. SubSeq(s, 1, a) \o SubSeq(s, a + 1, b) = SubSeq(s, 1, b)
        <3>1. a <= b /\ b <= Len(s)
            BY <1>1, <2>1
        <3>2. QED
            BY <3>1, PrefixGrows
    <2>6. g[d] = SubSeq(s, 1, b)
        BY <2>1, <2>3, <2>4, <2>5
    <2>7. ASSUME NEW z \in Nat, e[d + 1] = z + 1 PROVE g[d] = SubSeq(s, 1, z)
        <3>1. z = b
            BY <2>1, <2>7
        <3>2. QED
            BY <2>6, <3>1
    <2>8. QED
        BY <2>7
<1> HIDE DEF upto
<1>12. upto(c)
    <2>1. 0 \in good
        BY <1>10
    <2>2. ASSUME NEW d \in 1..c, d - 1 \in good PROVE d \in good
        <3>1. upto(d - 1)
            BY <2>2
        <3>2. QED
            BY <1>11, <3>1
    <2> HIDE DEF good
    <2>3. c \in 0..c
        OBVIOUS
    <2>4. c \in good
        BY <2>1, <2>2, <2>3, AllUpTo
    <2>5. QED
        BY <2>4 DEF good
<1>13. g[c] = SubSeq(s, 1, n)
    BY <1>2, <1>12 DEF upto
<1>14. SubSeq(s, 1, n) = s
    BY <1>1
<1>15. QED
    BY <1>4, <1>8, <1>13, <1>14

\* As many names as there are things: no two have the same.
LEMMA ManyNamesDiffer ==
    ASSUME NEW m \in Nat, NEW name, Cardinality({name[k] : k \in 1..m}) = m
    PROVE  \A x, y \in 1..m : name[x] = name[y] => x = y
<1> DEFINE f == [k \in 1..m |-> name[k]]
<1> DEFINE S == 1..m
<1> DEFINE T == {name[k] : k \in 1..m}
<1>1. f \in Surjection(S, T)
    <2>1. f \in [S -> T]
        OBVIOUS
    <2>2. \A t \in T : \E k \in S : f[k] = t
        OBVIOUS
    <2>3. QED
        BY <2>1, <2>2 DEF Surjection
<1>2. IsFiniteSet(S) /\ Cardinality(S) = m
    <2>1. 1 \in Nat /\ m \in Int
        OBVIOUS
    <2>2. QED
        BY <2>1, FS_Interval
<1> HIDE DEF f, S, T
<1>3. f \in Injection(S, T)
    <2>1. Cardinality(T) = m
        BY DEF T
    <2>2. QED
        BY <1>1, <1>2, <2>1, FS_Surjection
<1>4. \A x, y \in S : f[x] = f[y] => x = y
    BY <1>3 DEF Injection, IsInjective
<1>5. QED
    BY <1>4 DEF f, S

LEMMA TownsOfStops ==
    ASSUME NEW cv, NEW ls, NEW m \in Nat, m = Len(Nights(cv))
    PROVE  \A x \in 1..m : Stops(cv, ls)[x].town = cv.anchors[Nights(cv)[x]].town
    BY DEF Stops

\* The track of a day leads where the day does.
DayTrack(cv, day, part) ==
    /\ SliceOfDay(cv, day) = part
    /\ Head(Head(part)) = day.from /\ Last(Last(part)) = day.to

\* It is cut off the whole one.
LEMMA DayIsCut ==
    ASSUME NEW cv \in Variant, NEW n \in Nat, n = Len(cv.anchors), n >= 2,
           1 \in Overnight(cv), n \in Overnight(cv),
           NEW p, p = Nights(cv), NEW m \in Nat, m = Len(p), Apart(cv, p),
           NEW track, track = Polylines(cv)
    PROVE  \A a, b \in 1..m : a < b => \A day :
              day.from = cv.anchors[p[a]].town /\ day.to = cv.anchors[p[b]].town =>
                 DayTrack(cv, day, SubSeq(track, a, b - 1))
<1> SUFFICES ASSUME NEW a \in 1..m, NEW b \in 1..m, a < b, NEW day,
                    day.from = cv.anchors[p[a]].town, day.to = cv.anchors[p[b]].town
             PROVE  DayTrack(cv, day, SubSeq(track, a, b - 1))
    OBVIOUS
<1>1. SliceOfDay(cv, day) = SubSeq(track, a, b - 1)
    <2>1. a \in 1..Len(p) /\ b \in 1..Len(p) /\ Len(p) \in Nat
        OBVIOUS
    <2>2. PICK from, to : from = day.from /\ to = day.to
        OBVIOUS
    <2>3. Slice(cv, from, to) = SubSeq(Polylines(cv), a, b - 1)
        BY <2>1, <2>2, SliceIsFound, SMTT(30)
    <2>4. QED
        BY <2>2, <2>3 DEF SliceOfDay
<1>2. PICK S : S = ToSet(track)
    OBVIOUS
<1>3. /\ track \in Seq(S) /\ Len(track) = m - 1
      /\ \A x \in 1..(m - 1) : Stretch(cv, p, track[x], x)
    <2>1. /\ Polylines(cv) \in Seq(ToSet(Polylines(cv))) /\ Len(Polylines(cv)) = Len(p) - 1
          /\ \A x \in 1..(Len(p) - 1) : Stretch(cv, p, Polylines(cv)[x], x)
        BY TracksAreStretches
    <2>2. QED
        BY <1>2, <2>1
<1>4. PICK z \in Nat : z = b - 1 /\ b = z + 1 /\ a <= z /\ z \in 1..(m - 1) /\ a \in 1..(m - 1)
    OBVIOUS
<1>5. PICK part : part = SubSeq(track, a, z)
    OBVIOUS
<1>6. part \in Seq(S) /\ Len(part) = (z - a) + 1 /\ part[1] = track[a] /\ part[(z - a) + 1] = track[z]
    <2>1. a \in Int /\ z \in Int /\ \A i \in a..z : track[i] \in S
        <3>1. \A i \in a..z : i \in 1..Len(track)
            BY <1>3, <1>4
        <3>2. QED
            BY <1>3, <1>4, <3>1
    <2>2. /\ part \in Seq(S) /\ Len(part) = IF a <= z THEN z - a + 1 ELSE 0
          /\ \A i \in 1..(z - a + 1) : part[i] = track[a + i - 1]
        BY <1>5, <2>1, SubSeqProperties
    <2>3. PICK w \in Nat : w = (z - a) + 1 /\ w >= 1 /\ a + w - 1 = z /\ a + 1 - 1 = a
        BY <1>4
    <2>4. part[1] = track[a + 1 - 1] /\ part[w] = track[a + w - 1]
        BY <2>2, <2>3
    <2>5. QED
        BY <1>4, <2>2, <2>3, <2>4
<1>7. Head(part) = track[a] /\ Last(part) = track[z]
    <2>1. Last(part) = part[Len(part)]
        BY DEF Last
    <2>2. Head(part) = part[1]
        OBVIOUS
    <2>3. QED
        BY <1>6, <2>1, <2>2, Zenon
<1>8. Head(track[a]) = cv.anchors[p[a]].town
    BY <1>3, <1>4 DEF Stretch
<1>9. Last(track[z]) = cv.anchors[p[z + 1]].town
    BY <1>3, <1>4 DEF Stretch
<1>10. QED
    BY <1>1, <1>4, <1>5, <1>7, <1>8, <1>9 DEF DayTrack

\* The plan and the export walk the same variant each on its own, and agree.
LEMMA TracksOfPlan ==
    ASSUME NEW v, NEW cv, NEW ls, NEW target \in Nat \ {0}, BuiltFrom(v, cv, ls, target),
           Apart(cv, Nights(cv))
    PROVE  /\ JoinUp(v, cv)
           /\ \A d \in 1..Len(v.days) : SliceOfDay(cv, v.days[d]) # <<>>
<1>1. PICK stops, days : stops = v.stops /\ days = v.days
    OBVIOUS
<1>2. stops = Stops(cv, ls) /\ days = SuggestDayPlan(stops, target)
    BY <1>1 DEF BuiltVariant, BuiltFrom
<1>3. PICK p : p = Nights(cv)
    OBVIOUS
<1>4. PICK n \in Nat : /\ n = Len(cv.anchors) /\ n >= 2 /\ cv \in Variant
                       /\ 1 \in Overnight(cv) /\ n \in Overnight(cv)
                       /\ ls \in Seq(Nat) /\ Len(ls) = n - 1
    BY DEF BuiltFrom
<1>5. PICK m \in Nat : m = Len(p) /\ m >= 2 /\ Len(stops) = m
    <2>1. Len(p) \in Nat /\ Len(p) >= 2
        BY <1>4, <1>3, TracksAreStretches
    <2>2. Len(Stops(cv, ls)) = Len(Nights(cv))
        BY <1>4, StopsOfVariant
    <2>3. QED
        BY <1>2, <1>3, <2>1, <2>2
<1>6. \A x \in 1..m : stops[x].town = cv.anchors[p[x]].town
    BY <1>2, <1>3, <1>5, TownsOfStops
<1>7. Apart(cv, p)
    BY <1>3
<1>8. StopsRight(stops, Rounded(Total(ls)))
    BY <1>4, <1>2, StopsOfVariant
<1>9. Measured(stops) /\ stops[Len(stops)].from_start \in Nat /\ Len(stops) >= 2 /\ Len(stops) \in Nat
    <2>1. \A i \in 1..m : stops[i].from_start \in Nat
        BY <1>5, <1>8 DEF StopsRight
    <2>2. m \in 1..m
        BY <1>5
    <2>3. QED
        BY <1>5, <2>1, <2>2 DEF Measured
<1>10. PICK c \in Nat : c = DayCount(stops, target)
    BY <1>9, DayCountRange
<1>11. PICK e : e = PlanEnds(stops, target)
    OBVIOUS
<1>12. Len(e) = c + 1 /\ e \in Splits(c, m)
    BY <1>5, <1>9, <1>10, <1>11, EndsAreBest
<1>13. Len(days) = c /\ \A d \in 1..c : DayFrom(stops, e, days[d], d)
    BY <1>2, <1>9, <1>11, <1>12, PlanIsListed
<1>14. PICK track : track = Polylines(cv)
    OBVIOUS
<1>15. track \in Seq(ToSet(track)) /\ Len(track) + 1 = m
    <2>1. Polylines(cv) \in Seq(ToSet(Polylines(cv))) /\ Len(Polylines(cv)) = Len(p) - 1
        BY <1>4, <1>3, TracksAreStretches
    <2>2. QED
        BY <1>5, <1>14, <2>1
<1>16. \A a, b \in 1..m : a < b => \A day :
          day.from = cv.anchors[p[a]].town /\ day.to = cv.anchors[p[b]].town =>
             DayTrack(cv, day, SubSeq(track, a, b - 1))
    BY <1>4, <1>3, <1>5, <1>7, <1>14, DayIsCut
<1>17. ASSUME NEW d \in 1..c
       PROVE  /\ DayTrack(cv, days[d], Cuts(track, e, c)[d])
              /\ Cuts(track, e, c)[d] # <<>>
    <2>1. d \in 1..(c + 1) /\ d + 1 \in 1..(c + 1)
        OBVIOUS
    <2>2. e \in [1..(c + 1) -> Nat] /\ e[d] < e[d + 1]
        BY <1>12 DEF Splits
    <2>3. \A x \in 1..(c + 1) : e[x] >= x /\ e[x] <= m
        BY <1>12, SplitsGoOn
    <2>4. PICK a \in 1..m, b \in 1..m : a = e[d] /\ b = e[d + 1] /\ a < b
        BY <2>1, <2>2, <2>3
    <2>5. PICK day : day = days[d]
        OBVIOUS
    <2>6. day.from = cv.anchors[p[a]].town /\ day.to = cv.anchors[p[b]].town
        BY <1>6, <1>13, <2>4, <2>5 DEF DayFrom
    <2>7. DayTrack(cv, day, SubSeq(track, a, b - 1))
        BY <1>16, <2>4, <2>6
    <2>8. SubSeq(track, a, b - 1) # <<>>
        <3>1. PICK z \in Nat : z = b - 1 /\ a <= z /\ z <= Len(track)
            BY <1>15, <2>4
        <3>2. Len(SubSeq(track, a, z)) = (z - a) + 1
            BY <1>15, <3>1
        <3>3. (z - a) + 1 # 0
            BY <3>1
        <3>4. QED
            BY <3>1, <3>2, <3>3
    <2>9. QED
        BY <2>4, <2>5, <2>7, <2>8 DEF Cuts
<1>18. [d \in 1..c |-> SliceOfDay(cv, days[d])] = Cuts(track, e, c)
    BY <1>17 DEF Cuts, DayTrack
<1>19. FlattenSeq(Cuts(track, e, c)) = track
    BY <1>12, <1>15, CutsJoin
<1>20. \A d \in 1..c : SliceOfDay(cv, days[d]) # <<>>
    BY <1>17 DEF DayTrack
<1>21. JoinUp(v, cv)
    BY <1>1, <1>13, <1>14, <1>17, <1>18, <1>19 DEF JoinUp, DayTrack
<1>22. QED
    BY <1>1, <1>13, <1>20, <1>21

\* Where no stop of a plan comes twice, its nights are in towns of their own.
LEMMA StopsAreApart ==
    ASSUME NEW v, NEW cv, NEW ls, NEW target \in Nat \ {0}, BuiltFrom(v, cv, ls, target),
           Cardinality({v.stops[k].town : k \in 1..Len(v.stops)}) = Len(v.stops)
    PROVE  Apart(cv, Nights(cv))
<1>1. PICK stops : stops = v.stops /\ stops = Stops(cv, ls)
    BY DEF BuiltVariant, BuiltFrom
<1>2. PICK p : p = Nights(cv)
    OBVIOUS
<1>3. PICK m \in Nat : m = Len(p) /\ Len(stops) = m
    <2>1. Len(p) \in Nat
        BY <1>2, TracksAreStretches DEF BuiltFrom
    <2>2. Len(Stops(cv, ls)) = Len(Nights(cv))
        BY StopsOfVariant DEF BuiltFrom
    <2>3. QED
        BY <1>1, <1>2, <2>1, <2>2
<1>4. \A x \in 1..m : stops[x].town = cv.anchors[p[x]].town
    BY <1>1, <1>2, <1>3, TownsOfStops
<1>5. PICK towns : towns = [k \in 1..m |-> stops[k].town]
    OBVIOUS
<1>6. {towns[k] : k \in 1..m} = {stops[k].town : k \in 1..m}
    BY <1>5
<1>7. Cardinality({towns[k] : k \in 1..m}) = m
    BY <1>1, <1>3, <1>6
<1>8. \A x, y \in 1..m : towns[x] = towns[y] => x = y
    BY <1>7, ManyNamesDiffer
<1>9. QED
    BY <1>2, <1>3, <1>4, <1>5, <1>8 DEF Apart

\* Numbers in turn differ.
LEMMA TurnsDiffer ==
    ASSUME NEW n \in Nat, NEW set, NEW p, InTurn(p, n, set),
           NEW x \in 1..Len(p), NEW y \in 1..Len(p), p[x] = p[y]
    PROVE  x = y
<1>1. PICK m \in Nat : m = Len(p)
    BY DEF InTurn
<1>2. /\ \A k \in 1..m : p[k] \in Nat
      /\ \A k \in 1..(m - 1) : p[k] < p[k + 1]
    BY <1>1 DEF InTurn
<1>3. ASSUME NEW u \in 1..m, NEW w \in 1..m, u < w PROVE p[u] < p[w]
    <2> DEFINE good == {k \in 0..(m - u) : p[u + k] >= p[u] + k}
    <2>1. 0 \in good
        BY <1>2
    <2>2. ASSUME NEW k \in 1..(m - u), k - 1 \in good PROVE k \in good
        <3>1. PICK f \in 1..(m - 1) : f = u + (k - 1) /\ f + 1 = u + k
            OBVIOUS
        <3>2. p[f] >= p[u] + (k - 1)
            BY <2>2, <3>1
        <3>3. p[f] < p[f + 1] /\ p[f] \in Nat /\ p[f + 1] \in Nat /\ p[u] \in Nat
            BY <1>2, <3>1
        <3>4. p[f + 1] >= p[u] + k
            BY <3>2, <3>3, SMTT(30)
        <3>5. QED
            BY <3>1, <3>4
    <2> HIDE DEF good
    <2>3. m - u \in Nat /\ w - u \in 0..(m - u)
        BY <1>3
    <2>4. w - u \in good
        BY <2>1, <2>2, <2>3, AllUpTo
    <2>5. u + (w - u) = w
        OBVIOUS
    <2>6. p[w] >= p[u] + (w - u)
        BY <2>4, <2>5 DEF good
    <2>7. QED
        BY <1>2, <1>3, <2>6, SMTT(30)
<1>4. x \in 1..m /\ y \in 1..m
    BY <1>1
<1>5. ~ (x < y) /\ ~ (y < x)
    BY <1>2, <1>3, <1>4
<1>6. QED
    BY <1>4, <1>5

\* Anchors for the night in towns of their own make stops in towns of their own.
LEMMA NightsApart ==
    ASSUME NEW v, Len(v.anchors) \in Nat,
           \A a, b \in Overnight(v) : v.anchors[a].town = v.anchors[b].town => a = b
    PROVE  Apart(v, Nights(v))
<1>1. InTurn(Nights(v), Len(v.anchors), Overnight(v))
    BY NightsInTurn
<1>2. PICK p : p = Nights(v)
    OBVIOUS
<1>3. \A x \in 1..Len(p) : p[x] \in Overnight(v)
    BY <1>1, <1>2 DEF InTurn
<1>4. \A x, y \in 1..Len(p) : p[x] = p[y] => x = y
    <2>1. PICK n \in Nat : n = Len(v.anchors)
        OBVIOUS
    <2>2. PICK set : set = Overnight(v)
        OBVIOUS
    <2>3. InTurn(p, n, set)
        BY <1>1, <1>2, <2>1, <2>2
    <2>4. QED
        BY <2>3, TurnsDiffer
<1>5. QED
    BY <1>2, <1>3, <1>4 DEF Apart

\* The variants of a corridor have names of their own, and off a loop its stops too.
LEMMA NamesLead ==
    ASSUME NEW start, NEW end, NEW vs, vs = CorridorVariants(start, end), vs # None
    PROVE  /\ \A j, k \in 1..Len(vs) : vs[j].name = vs[k].name => j = k
           /\ start # end => \A j \in 1..Len(vs) : Apart(vs[j], Nights(vs[j]))
<1>1. PICK f \in 1..Len(Files) : FiledAs(vs, f, start, end)
    BY CataloguedAreFiled
<1>2. /\ {Files[f].start, Files[f].end} = {start, end}
      /\ \/ vs = Files[f].variants
         \/ vs = [j \in 1..Len(Files[f].variants) |-> ReversedVariant(Files[f].variants[j])]
    BY <1>1 DEF FiledAs
<1>3. Valid(Files[f]) /\ f \in DOMAIN Files
    BY FilesAreValid DEF FilesAreValid
<1>4. PICK filed \in Seq(Variant) : filed = Files[f].variants
    BY <1>3 DEF Valid
<1>5. PICK c \in Nat : c = Len(filed) /\ DOMAIN filed = 1..c /\ Len(vs) = c
    <2>1. PICK c \in Nat : c = Len(filed) /\ DOMAIN filed = 1..c
        BY <1>4
    <2>2. Len(vs) = c
        BY <1>2, <1>4, <2>1
    <2>3. QED
        BY <2>1, <2>2
<1>6. \A j \in 1..c : vs[j] = filed[j] \/ vs[j] = ReversedVariant(filed[j])
    BY <1>2, <1>4, <1>5
<1>7. \A j \in 1..c : filed[j] \in Variant
    BY <1>4, <1>5
<1>8. \A j \in 1..c : vs[j].name = filed[j].name
    BY <1>6, <1>7 DEF ReversedVariant, Variant
<1>9. \A j, k \in 1..c : filed[j].name = filed[k].name => j = k
    <2>1. \A j, k \in DOMAIN Files[f].variants :
             Files[f].variants[j].name = Files[f].variants[k].name => j = k
        BY <1>3, NamesTellApart, Zenon DEF NamesTellApart
    <2>2. QED
        BY <1>4, <1>5, <2>1, Zenon
<1>10. \A j, k \in 1..c : vs[j].name = vs[k].name => j = k
    BY <1>8, <1>9
<1>11. ASSUME start # end, NEW j \in 1..c PROVE Apart(vs[j], Nights(vs[j]))
    <2>1. Files[f].start # Files[f].end
        <3>1. PICK s, t : s = Files[f].start /\ t = Files[f].end
            OBVIOUS
        <3>2. {s, t} = {start, end}
            BY <1>2, <3>1
        <3>3. s # t
            BY <1>11, <3>2, SMTT(30)
        <3>4. QED
            BY <3>1, <3>3
    <2>2. PICK v \in Variant : v = filed[j]
        BY <1>7
    <2>3. PICK chain \in Seq(Anchor) : chain = v.anchors
        BY DEF Variant
    <2>4. PICK n \in Nat : n = Len(chain) /\ DOMAIN chain = 1..n
        BY <2>3
    <2>5. j \in DOMAIN Files[f].variants /\ chain = Files[f].variants[j].anchors
        BY <1>4, <1>5, <2>2, <2>3
    <2>6. \A a, b \in {k \in DOMAIN chain : chain[k].overnight} :
             chain[a].town = chain[b].town => a = b
        <3>1. \A a, b \in {k \in DOMAIN Files[f].variants[j].anchors :
                              Files[f].variants[j].anchors[k].overnight} :
                 Files[f].variants[j].anchors[a].town = Files[f].variants[j].anchors[b].town => a = b
            BY <1>3, <2>1, <2>5, NamesTellApart, Zenon DEF NamesTellApart
        <3>2. QED
            BY <2>5, <3>1, Zenon
    <2>7. PICK towns : towns = [k \in 1..n |-> chain[k].town]
        OBVIOUS
    <2>8. \A a, b \in 1..n : chain[a].overnight /\ chain[b].overnight /\ towns[a] = towns[b] => a = b
        <3>1. ASSUME NEW a \in 1..n, NEW b \in 1..n, chain[a].overnight, chain[b].overnight,
                     chain[a].town = chain[b].town
              PROVE  a = b
            BY <2>4, <2>6, <3>1, Zenon
        <3>2. \A a \in 1..n : towns[a] = chain[a].town
            BY <2>7
        <3>3. QED
            BY <3>1, <3>2, Zenon
    <2>9. CASE vs[j] = v
        <3>1. Overnight(vs[j]) = {k \in 1..n : chain[k].overnight}
            BY <2>3, <2>4, <2>9 DEF Overnight
        <3>2. \A a, b \in Overnight(vs[j]) : vs[j].anchors[a].town = vs[j].anchors[b].town => a = b
            BY <2>3, <2>4, <2>6, <2>9, <3>1, Zenon
        <3>3. Len(vs[j].anchors) \in Nat
            BY <2>3, <2>4, <2>9
        <3>4. QED
            BY <3>2, <3>3, NightsApart
    <2>10. CASE vs[j] = ReversedVariant(v)
        <3>1. PICK back : back = Reverse(chain) /\ vs[j].anchors = back
            BY <2>3, <2>10 DEF ReversedVariant, Variant
        <3>2. back = [k \in 1..n |-> chain[(n - k) + 1]]
            BY <2>4, <3>1 DEF Reverse
        <3>3. Len(back) = n
            BY <3>2
        <3>4. \A k \in 1..n : (n - k) + 1 \in 1..n /\ back[k] = chain[(n - k) + 1]
            BY <3>2
        <3>5. ASSUME NEW a \in Overnight(vs[j]), NEW b \in Overnight(vs[j]),
                     vs[j].anchors[a].town = vs[j].anchors[b].town
              PROVE  a = b
            <4>1. a \in 1..n /\ b \in 1..n /\ back[a].overnight /\ back[b].overnight
                BY <3>1, <3>3, Zenon DEF Overnight
            <4>2. PICK u, w : u = (n - a) + 1 /\ w = (n - b) + 1
                OBVIOUS
            <4>3. u \in 1..n /\ w \in 1..n /\ back[a] = chain[u] /\ back[b] = chain[w]
                BY <3>4, <4>1, <4>2
            <4>4. chain[u].overnight /\ chain[w].overnight /\ chain[u].town = chain[w].town
                BY <3>1, <3>5, <4>1, <4>3, Zenon
            <4>5. u = w
                BY <2>4, <2>6, <4>3, <4>4, Zenon
            <4>6. QED
                BY <4>1, <4>2, <4>5
        <3>6. Len(vs[j].anchors) \in Nat
            BY <3>1, <3>3
        <3>7. QED
            BY <3>5, <3>6, NightsApart
    <2>11. QED
        BY <1>6, <2>2, <2>9, <2>10
<1>12. QED
    BY <1>5, <1>10, <1>11

\* A download finds its variant, and a track unless it is for a day of a loop.
Sound(a) ==
    /\ a.kind # "plan" /\ ResolvedVariant(a) # <<>>
    /\ Track(a) = <<>> => a.kind = "day" /\ a.trip[1] = a.trip[2]

\* What the page offers for a variant of a plan.
OfferedFor(q, a, v, from, to) ==
    /\ a = Download(ask[q].trip, v.name, from, to)
    /\ \/ from = None
       \/ \E d \in 1..Len(v.days) : from = v.days[d].from /\ to = v.days[d].to

LEMMA OfferedForVariant ==
    ASSUME NEW q, NEW a \in Offered(q)
    PROVE  /\ outcome[q] = "brouter"
           /\ \E i \in 1..Len(Variants(q)) : \E from, to :
                 OfferedFor(q, a, Variants(q)[i], from, to)
<1>1. outcome[q] = "brouter"
    <2>1. SUFFICES ASSUME outcome[q] # "brouter" PROVE FALSE
        OBVIOUS
    <2>2. Len(<<>>) = 0 /\ 1..0 = {}
        OBVIOUS
    <2>3. QED
        BY <2>1, <2>2 DEF Offered
<1>2. PICK variants : variants = Variants(q)
    OBVIOUS
<1>3. PICK i \in {j \in 1..Len(variants) : Len(variants[j].days) >= 3} :
         a \in LET v == variants[i]
               IN  {Download(ask[q].trip, v.name, None, None)}
                   \cup {Download(ask[q].trip, v.name, v.days[d].from, v.days[d].to) :
                           d \in 1..Len(v.days)}
    BY <1>1, <1>2 DEF Offered
<1>4. PICK v : v = variants[i]
    OBVIOUS
<1>5. \/ a = Download(ask[q].trip, v.name, None, None)
      \/ \E d \in 1..Len(v.days) : a = Download(ask[q].trip, v.name, v.days[d].from, v.days[d].to)
    BY <1>3, <1>4
<1>6. \E from, to : OfferedFor(q, a, v, from, to)
    <2>1. CASE a = Download(ask[q].trip, v.name, None, None)
        <3>1. OfferedFor(q, a, v, None, None)
            BY <2>1 DEF OfferedFor
        <3>2. QED
            BY <3>1
    <2>2. CASE \E d \in 1..Len(v.days) :
                  a = Download(ask[q].trip, v.name, v.days[d].from, v.days[d].to)
        <3>1. PICK d \in 1..Len(v.days) :
                 a = Download(ask[q].trip, v.name, v.days[d].from, v.days[d].to)
            BY <2>2
        <3>2. OfferedFor(q, a, v, v.days[d].from, v.days[d].to)
            BY <3>1 DEF OfferedFor
        <3>3. QED
            BY <3>2
    <2>3. QED
        BY <1>5, <2>1, <2>2
<1>7. QED
    BY <1>1, <1>2, <1>3, <1>4, <1>6

\* A name that only one variant has leads to it.
LEMMA NameIsResolved ==
    ASSUME NEW a, NEW cvs, cvs = Catalogued(a), cvs # None, NEW i \in 1..Len(cvs),
           cvs[i].name = a.name, Len(cvs) \in Nat,
           \A j, k \in 1..Len(cvs) : cvs[j].name = cvs[k].name => j = k
    PROVE  ResolvedVariant(a) = <<cvs[i]>>
<1> DEFINE hits == {k \in 1..Len(Catalogued(a)) : Catalogued(a)[k].name = a.name}
<1>1. hits = {i}
    BY Zenon
<1>2. ResolvedVariant(a) = IF Catalogued(a) = None \/ hits = {} THEN <<>>
                           ELSE <<Catalogued(a)[Min(hits)]>>
    BY DEF ResolvedVariant
<1> HIDE DEF hits
<1>3. Min({i}) = i
    BY DEF Min
<1>4. QED
    BY <1>1, <1>2, <1>3

\* Whatever the page offers can be downloaded, except for a day of a loop.
LEMMA OfferedAreSound ==
    ASSUME RouteInv, AskInv, NEW q \in Requests, NEW a \in Offered(q)
    PROVE  Sound(a)
<1>1. /\ outcome[q] = "brouter"
      /\ \E i \in 1..Len(Variants(q)) : \E from, to :
            OfferedFor(q, a, Variants(q)[i], from, to)
    BY OfferedForVariant
<1>2. PICK i \in 1..Len(Variants(q)) : \E from, to : OfferedFor(q, a, Variants(q)[i], from, to)
    BY <1>1
<1>3. PICK from, to : OfferedFor(q, a, Variants(q)[i], from, to)
    BY <1>2
<1>4. PICK v, target : v = Variants(q)[i] /\ target = ask[q].target
    OBVIOUS
<1>5. PICK cvs : cvs = Catalogued(ask[q]) /\ cvs # None /\ i \in 1..Len(cvs)
    BY <1>1, RoutedAreBuilt
<1>6. PICK cv, ls : cv = cvs[i] /\ BuiltFrom(v, cv, ls, target)
    BY <1>1, <1>4, <1>5, RoutedAreBuilt
<1>7. target \in Nat \ {0}
    BY <1>1, <1>4, PlansAreRight
<1>8. a = Download(ask[q].trip, v.name, from, to)
    BY <1>3, <1>4 DEF OfferedFor
<1>9. /\ a.trip = ask[q].trip /\ a.name = v.name /\ a.from = from /\ a.to = to
      /\ a.kind = IF from = None THEN "full" ELSE "day"
    BY <1>8 DEF Download
<1>10. Catalogued(a) = cvs
    BY <1>5, <1>9 DEF Catalogued
<1>11. v.name = cv.name
    BY <1>6 DEF BuiltFrom, BuiltVariant
<1>12. cvs = CorridorVariants(a.trip[1], a.trip[2])
    BY <1>10 DEF Catalogued
<1>13. ResolvedVariant(a) = <<cv>>
    <2>1. \A j, k \in 1..Len(cvs) : cvs[j].name = cvs[k].name => j = k
        BY <1>5, <1>12, NamesLead
    <2>2. cvs \in Seq(Variant)
        BY <1>5, <1>12, CataloguedAreWhole
    <2>3. QED
        BY <1>5, <1>6, <1>9, <1>10, <1>11, <2>1, <2>2, NameIsResolved
<1>14. a.kind # "plan" /\ Wanted(a)[1] = cv
    BY <1>9, <1>13 DEF Wanted
<1>15. ResolvedVariant(a) # <<>>
    BY <1>13
<1>16. CASE from = None
    <2>1. Track(a) = Polylines(cv)
        BY <1>9, <1>14, <1>16 DEF Track
    <2>2. PICK m \in Nat : m = Len(Nights(cv)) /\ m >= 2
        BY <1>6, TracksAreStretches DEF BuiltFrom
    <2>3. Len(Polylines(cv)) = m - 1
        BY <1>6, <2>2, TracksAreStretches DEF BuiltFrom
    <2>4. Polylines(cv) # <<>>
        BY <2>2, <2>3
    <2>5. QED
        BY <1>14, <1>15, <2>1, <2>4 DEF Sound
<1>17. CASE from # None
    <2>1. PICK d \in 1..Len(v.days) : from = v.days[d].from /\ to = v.days[d].to
        BY <1>3, <1>4, <1>17 DEF OfferedFor
    <2>2. Track(a) = SliceOfDay(cv, v.days[d])
        BY <1>9, <1>14, <1>17, <2>1 DEF Track, SliceOfDay
    <2>3. a.trip[1] # a.trip[2] => Track(a) # <<>>
        <3>1. SUFFICES ASSUME a.trip[1] # a.trip[2] PROVE Track(a) # <<>>
            OBVIOUS
        <3>2. Apart(cv, Nights(cv))
            BY <1>5, <1>6, <1>12, <3>1, NamesLead
        <3>3. QED
            BY <1>6, <1>7, <2>2, <3>2, TracksOfPlan
    <2>4. a.kind = "day"
        BY <1>9, <1>17
    <2>5. QED
        BY <1>14, <1>15, <2>3, <2>4 DEF Sound
<1>18. QED
    BY <1>16, <1>17

\* A request that is no plan is a download that was offered.
DownloadRight(r) ==
    /\ stage[r] # "idle" => ask[r].kind = "plan" \/ Sound(ask[r])
    /\ outcome[r] = "not_found" =>
          stage[r] = "done" /\ ask[r].kind = "day" /\ ask[r].trip[1] = ask[r].trip[2]

DownloadInv == \A r \in Requests : DownloadRight(r)

LEMMA WalkAnswers ==
    ASSUME Functions, NEW r \in Requests, NEW a, NEW hs, NEW behind, NEW c,
           Walk(r, a, hs, behind, c), ask'[r] = a, a.kind = "plan" \/ Sound(a),
           outcome[r] # "not_found"
    PROVE  DownloadRight(r)'
<1>1. CASE UNCHANGED outcome
    BY <1>1 DEF DownloadRight
<1>2. CASE Done(r, IF a.kind = "plan" THEN "brouter"
                   ELSE IF Track(a) = <<>> THEN "not_found" ELSE "gpx")
    <2>1. stage'[r] = "done"
        BY <1>2 DEF Done, Functions
    <2>2. outcome'[r] = IF a.kind = "plan" THEN "brouter"
                        ELSE IF Track(a) = <<>> THEN "not_found" ELSE "gpx"
        BY <1>2 DEF Done, Functions
    <2>3. outcome'[r] = "not_found" => a.kind = "day" /\ a.trip[1] = a.trip[2]
        BY <2>2 DEF Sound
    <2>4. QED
        BY <2>1, <2>3 DEF DownloadRight
<1>3. QED
    BY <1>1, <1>2 DEF Walk

LEMMA OtherDownloads ==
    ASSUME DownloadInv, NEW q \in Requests, ask'[q] = ask[q], stage'[q] = stage[q],
           outcome'[q] = outcome[q]
    PROVE  DownloadRight(q)'
<1>1. DownloadRight(q)
    BY DEF DownloadInv
<1>2. QED
    BY <1>1 DEF DownloadRight

LEMMA InitDownload == RouteInit => DownloadInv
    BY DEF RouteInit, DownloadInv, DownloadRight

LEMMA StepDownload == RouteInv /\ AskInv /\ DownloadInv /\ [RouteNext]_routeVars => DownloadInv'
<1> SUFFICES ASSUME RouteInv, AskInv, DownloadInv, [RouteNext]_routeVars, NEW q \in Requests
             PROVE  DownloadRight(q)'
    BY DEF DownloadInv
<1>0. Functions /\ \A r \in Requests : DownloadRight(r) /\ AskRight(r)
    BY DEF RouteInv, AskInv, DownloadInv
<1>1. ASSUME NEW r \in Requests, NEW trip \in Trips, NEW target \in Targets,
             AskPlan(r, trip, target)
      PROVE  DownloadRight(q)'
    <2>1. PICK a : a = Plan(trip, target)
        OBVIOUS
    <2>2. stage[r] = "idle" /\ ask' = [ask EXCEPT ![r] = a]
        BY <1>1, <2>1 DEF AskPlan
    <2>3. a.kind = "plan"
        BY <2>1 DEF Plan
    <2>4. \/ stage' = [stage EXCEPT ![r] = "seeded"] /\ UNCHANGED outcome
          \/ Walk(r, a, hops'[r], <<>>, cache)
        BY <1>1, <2>1 DEF AskPlan, Start
    <2>5. CASE q = r
        <3>1. ask'[r] = a /\ outcome[r] # "not_found"
            BY <1>0, <2>2 DEF Functions, DownloadRight
        <3>2. CASE UNCHANGED outcome
            BY <2>3, <2>5, <3>1, <3>2 DEF DownloadRight
        <3>3. CASE Walk(r, a, hops'[r], <<>>, cache)
            BY <1>0, <2>3, <2>5, <3>1, <3>3, WalkAnswers
        <3>4. QED
            BY <2>4, <3>2, <3>3
    <2>6. CASE q # r
        <3>1. ask'[q] = ask[q]
            BY <1>0, <2>2, <2>6 DEF Functions
        <3>2. stage'[q] = stage[q] /\ outcome'[q] = outcome[q]
            BY <1>0, <2>4, <2>6, WalkLeads DEF Functions
        <3>3. QED
            BY <3>1, <3>2, OtherDownloads
    <2>7. QED
        BY <2>5, <2>6
<1>2. ASSUME NEW r \in Requests, NEW a, Sound(a), AskDownload(r, a)
      PROVE  DownloadRight(q)'
    <2>1. stage[r] = "idle" /\ ask' = [ask EXCEPT ![r] = a]
        BY <1>2 DEF AskDownload
    <2>2. Walk(r, a, hops'[r], <<>>, cache)
        BY <1>2 DEF AskDownload, Start, Sound
    <2>3. CASE q = r
        <3>1. ask'[r] = a /\ outcome[r] # "not_found"
            BY <1>0, <2>1 DEF Functions, DownloadRight
        <3>2. QED
            BY <1>0, <1>2, <2>2, <2>3, <3>1, WalkAnswers
    <2>4. CASE q # r
        <3>1. ask'[q] = ask[q]
            BY <1>0, <2>1, <2>4 DEF Functions
        <3>2. stage'[q] = stage[q] /\ outcome'[q] = outcome[q]
            BY <1>0, <2>2, <2>4, WalkLeads
        <3>3. QED
            BY <3>1, <3>2, OtherDownloads
    <2>5. QED
        BY <2>3, <2>4
<1>3. ASSUME NEW r \in Requests, Fetched(r) PROVE DownloadRight(q)'
    <2>1. stage[r] = "brouter" /\ ask' = ask
        BY <1>3 DEF Fetched
    <2>2. PICK m : Walk(r, ask[r], hops[r], Append(legs[r], m), cache')
        BY <1>3 DEF Fetched
    <2>3. CASE q = r
        <3>1. PICK a : a = ask[r] /\ ask'[r] = a
            BY <2>1
        <3>2. outcome[r] # "not_found" /\ (a.kind = "plan" \/ Sound(a))
            BY <1>0, <2>1, <3>1 DEF DownloadRight
        <3>3. QED
            BY <1>0, <2>2, <2>3, <3>1, <3>2, WalkAnswers
    <2>4. CASE q # r
        <3>1. stage'[q] = stage[q] /\ outcome'[q] = outcome[q]
            BY <1>0, <2>2, <2>4, WalkLeads
        <3>2. QED
            BY <2>1, <3>1, OtherDownloads
    <2>5. QED
        BY <2>3, <2>4
<1>4. ASSUME NEW r \in Requests, FetchFails(r) \/ LookUpSeeded(r) \/ RoutesQueryFails(r) \/ Geocode(r)
      PROVE  DownloadRight(q)'
    <2>1. /\ stage[r] \in {"brouter", "seeded", "geocode"} /\ ask' = ask
          /\ \/ \E next \in {"seeded", "geocode"} :
                   stage' = [stage EXCEPT ![r] = next] /\ UNCHANGED outcome
             \/ \E what \in {"error", "bad_gateway", "seeded", "seeded_bare", "generic", "stub"} : Done(r, what)
        BY <1>4 DEF FetchFails, LookUpSeeded, RoutesQueryFails, Geocode
    <2>2. CASE q = r
        <3>1. outcome[r] # "not_found" /\ (ask[r].kind = "plan" \/ Sound(ask[r]))
            BY <1>0, <2>1 DEF DownloadRight
        <3>2. outcome'[r] # "not_found"
            BY <1>0, <2>1, <3>1 DEF Functions, Done
        <3>3. QED
            BY <2>1, <2>2, <3>1, <3>2 DEF DownloadRight
    <2>3. CASE q # r
        <3>1. stage'[q] = stage[q] /\ outcome'[q] = outcome[q] /\ ask'[q] = ask[q]
            BY <1>0, <2>1, <2>3 DEF Functions, Done
        <3>2. QED
            BY <3>1, OtherDownloads
    <2>4. QED
        BY <2>2, <2>3
<1>5. ASSUME NEW h \in DOMAIN cache, Expire(h) PROVE DownloadRight(q)'
    BY <1>5, OtherDownloads DEF Expire
<1>6. CASE UNCHANGED routeVars
    BY <1>6, OtherDownloads DEF routeVars
<1>7. QED
    BY <1>1, <1>2, <1>3, <1>4, <1>5, <1>6, OfferedAreSound DEF RouteNext, Serve

LEMMA DownloadsKeepInv == RouteSpec => [](RouteInv /\ AskInv /\ DownloadInv)
<1>1. RouteInit => DownloadInv
    BY InitDownload
<1>2. (RouteInv /\ AskInv) /\ DownloadInv /\ [RouteNext]_routeVars => DownloadInv'
    BY StepDownload
<1>3. QED
    BY <1>1, <1>2, RoutesKeepInv, PTL DEF RouteSpec

\* The plan and the GPX export collect the stops and the tracks in loops of their own, and
\* still agree: the day tracks of a plan are its whole track, cut at the nights, each from
\* where its day starts to where it ends.  The page offers no download that is not there,
\* except the day that ends a loop where it starts.
THEOREM TracksAreCut == RouteSpec => []TracksJoinUp
<1>1. ASSUME RouteInv, AskInv, DownloadInv PROVE TracksJoinUp
    <2>1. ASSUME NEW r \in Requests, Routed(r), NEW i \in 1..Len(Variants(r)),
                 NEW v, v = Variants(r)[i],
                 Cardinality({v.stops[n].town : n \in 1..Len(v.stops)}) = Len(v.stops)
          PROVE  JoinUp(v, Catalogued(ask[r])[i])
        <3>1. outcome[r] = "brouter"
            BY <2>1 DEF Routed
        <3>2. PICK cv, target : cv = Catalogued(ask[r])[i] /\ target = ask[r].target
            OBVIOUS
        <3>3. PICK ls : BuiltFrom(v, cv, ls, target)
            BY <1>1, <2>1, <3>1, <3>2, RoutedAreBuilt
        <3>4. target \in Nat \ {0}
            BY <1>1, <3>1, <3>2, PlansAreRight
        <3>5. Apart(cv, Nights(cv))
            BY <2>1, <3>3, <3>4, StopsAreApart
        <3>6. QED
            BY <3>2, <3>3, <3>4, <3>5, TracksOfPlan
    <2>2. ASSUME NEW r \in Requests, outcome[r] = "not_found"
          PROVE  ask[r].kind = "day" /\ ask[r].trip[1] = ask[r].trip[2]
        BY <1>1, <2>2 DEF DownloadInv, DownloadRight
    <2>3. QED
        BY <2>1, <2>2, Zenon DEF TracksJoinUp
<1>2. QED
    BY <1>1, DownloadsKeepInv, PTL
=============================================================================
