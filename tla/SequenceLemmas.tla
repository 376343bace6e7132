--------------------------- MODULE SequenceLemmas ---------------------------
(***************************************************************************)
(* Facts the proofs of several components rest on: induction and recursion *)
(* on the natural numbers, and what Append, Tail and SubSeq do to          *)
(* sequences.                                                              *)
(***************************************************************************)
EXTENDS Integers, Sequences, WellFoundedInduction, TLAPS

-----------------------------------------------------------------------------
(***************************************************************************)
(* Induction, with a set in the place of a predicate.                      *)
(***************************************************************************)

\* A set of natural numbers that is not empty has a least element.
LEMMA LeastNumber ==
    ASSUME NEW S \in SUBSET Nat, S # {}
    PROVE  \E n \in S : \A m \in S : n <= m
<1> DEFINE R == OpToRel(<, Nat)
<1>1. IsWellFoundedOn(R, Nat)
  BY NatLessThanWellFounded
<1>2. \A a, b \in Nat : a < b => <<a, b>> \in R
  BY DEF OpToRel
<1> HIDE DEF R
<1>3. PICK x \in S : \A y \in S : ~(<<y, x>> \in R)
  BY <1>1, WFMin
<1>4. x \in Nat /\ \A y \in S : y \in Nat
  OBVIOUS
<1>5. \A y \in S : ~(y < x)
  BY <1>2, <1>3, <1>4
<1> QED
  BY <1>4, <1>5

\* A set that has 0, and with a number the next one, has every number.
LEMMA NumberInduction ==
    ASSUME NEW S \in SUBSET Nat, 0 \in S, \A n \in S : n + 1 \in S
    PROVE  S = Nat
<1> SUFFICES ASSUME Nat \ S # {} PROVE FALSE
  OBVIOUS
<1>1. PICK n \in Nat \ S : \A m \in Nat \ S : n <= m
  BY LeastNumber
<1>2. n - 1 \in Nat /\ n - 1 \notin Nat \ S
  BY <1>1
<1> QED
  BY <1>2

-----------------------------------------------------------------------------
(***************************************************************************)
(* Recursion on numbers.  A recursive function of the model is a CHOOSE of *)
(* one that satisfies its equation: that there is one has to be proved.    *)
(***************************************************************************)

\* A set that has 0, and with a number below n the next one, has all up to n.
LEMMA InductionUpTo ==
    ASSUME NEW n \in Nat, NEW S \in SUBSET Nat, 0 \in S,
           \A j \in 0 .. n - 1 : j \in S => j + 1 \in S
    PROVE  \A j \in 0 .. n : j \in S
<1> DEFINE T == {j \in Nat : j <= n => j \in S}
<1>1. T \in SUBSET Nat /\ 0 \in T
  OBVIOUS
<1>2. ASSUME NEW j \in T PROVE j + 1 \in T
  <2> SUFFICES ASSUME j + 1 <= n PROVE j + 1 \in S
    OBVIOUS
  <2>1. j \in 0 .. n - 1 /\ j \in S
    OBVIOUS
  <2> QED
    BY <2>1
<1>3. T = Nat
  <2> HIDE DEF T
  <2> QED
    BY <1>1, <1>2, NumberInduction
<1> QED
  BY <1>3

\* f is computed by the step s from x up to n.
Computes(f, n, x, s) ==
    /\ f[0] = x
    /\ \A i \in 1 .. n : f[i] = s[<<f[i - 1], i>>]

\* There is a function for every start and every step.
LEMMA Recursion ==
    ASSUME NEW S, NEW n \in Nat, NEW x \in S, NEW s \in [S \X (1 .. n) -> S]
    PROVE  \E f \in [0 .. n -> S] : Computes(f, n, x, s)
<1> DEFINE T == {m \in Nat : m <= n => \E f \in [0 .. m -> S] : Computes(f, m, x, s)}
<1>1. 0 \in T
  <2>1. [i \in 0 .. 0 |-> x] \in [0 .. 0 -> S]
    OBVIOUS
  <2>2. Computes([i \in 0 .. 0 |-> x], 0, x, s)
    BY DEF Computes
  <2> QED
    BY <2>1, <2>2
<1>2. ASSUME NEW m \in Nat, m \in T PROVE m + 1 \in T
  <2> SUFFICES ASSUME m + 1 <= n
               PROVE  \E f \in [0 .. m + 1 -> S] : Computes(f, m + 1, x, s)
    OBVIOUS
  <2>1. PICK g \in [0 .. m -> S] : Computes(g, m, x, s)
    BY <1>2
  <2>2. g[m] \in S /\ m + 1 \in 1 .. n
    OBVIOUS
  <2>3. s[<<g[m], m + 1>>] \in S
    BY <2>2
  <2> DEFINE f == [i \in 0 .. m + 1 |-> IF i = m + 1 THEN s[<<g[m], m + 1>>] ELSE g[i]]
  <2>4. f \in [0 .. m + 1 -> S]
    BY <2>3
  <2>5. f[0] = x
    BY <2>1 DEF Computes
  <2>6. ASSUME NEW i \in 1 .. m + 1 PROVE f[i] = s[<<f[i - 1], i>>]
    <3>1. CASE i = m + 1
      <4>1. i - 1 = m /\ m \in 0 .. m + 1 /\ m # m + 1
        BY <3>1
      <4>2. f[i] = s[<<g[m], i>>] /\ f[i - 1] = g[m]
        BY <3>1, <4>1
      <4> HIDE DEF f
      <4> QED
        BY <4>2
    <3>2. CASE i # m + 1
      <4>1. i \in 1 .. m /\ i - 1 \in 0 .. m /\ i - 1 # m + 1
        BY <3>2
      <4>2. f[i] = g[i] /\ f[i - 1] = g[i - 1]
        BY <4>1
      <4> HIDE DEF f
      <4> QED
        BY <2>1, <4>1, <4>2 DEF Computes
    <3> QED
      BY <3>1, <3>2
  <2>7. Computes(f, m + 1, x, s)
    <3> HIDE DEF f
    <3> QED
      BY <2>5, <2>6 DEF Computes
  <2> HIDE DEF f
  <2> QED
    BY <2>4, <2>7
<1>3. n \in T
  <2>1. T = Nat
    <3> HIDE DEF T
    <3>1. T \in SUBSET Nat
      BY DEF T
    <3> QED
      BY <1>1, <1>2, <3>1, NumberInduction
  <2> HIDE DEF T
  <2> QED
    BY <2>1
<1> QED
  BY <1>3

-----------------------------------------------------------------------------
(***************************************************************************)
(* Sequences of anything.                                                  *)
(***************************************************************************)
IsSeq(q) == \E S : q \in Seq(S)

\* What Append does to a sequence of whatever elements.
LEMMA AppendFacts ==
    ASSUME NEW q, NEW x, IsSeq(q)
    PROVE  /\ IsSeq(Append(q, x))
           /\ Append(q, x) # << >>
           /\ Len(q) \in Nat
           /\ Len(Append(q, x)) = Len(q) + 1
           /\ DOMAIN q = 1 .. Len(q)
           /\ DOMAIN Append(q, x) = 1 .. Len(q) + 1
           /\ \A i \in 1 .. Len(q) : Append(q, x)[i] = q[i]
           /\ Append(q, x)[Len(q) + 1] = x
  <1>1. PICK S : q \in Seq(S)
    BY DEF IsSeq
  <1>2. q \in Seq(S \cup {x}) /\ x \in S \cup {x}
    BY <1>1
  <1>3. Append(q, x) \in Seq(S \cup {x})
    BY <1>2
  <1>4. IsSeq(Append(q, x))
    BY <1>3 DEF IsSeq
  <1>5. QED
    BY <1>2, <1>3, <1>4

\* What Tail does to a sequence of whatever elements.
LEMMA TailFacts ==
    ASSUME NEW q, IsSeq(q), q # << >>
    PROVE  /\ IsSeq(Tail(q))
           /\ Len(q) \in Nat /\ 1 \in DOMAIN q /\ Head(q) = q[1]
           /\ DOMAIN q = 1 .. Len(q)
           /\ Len(Tail(q)) = Len(q) - 1
           /\ DOMAIN Tail(q) = 1 .. Len(q) - 1
           /\ \A i \in 1 .. Len(q) - 1 : Tail(q)[i] = q[i + 1]
           /\ Len(q) = 1 => Tail(q) = << >>
  <1>1. PICK S : q \in Seq(S)
    BY DEF IsSeq
  <1>2. Tail(q) \in Seq(S)
    BY <1>1
  <1>3. IsSeq(Tail(q))
    BY <1>2 DEF IsSeq
  <1>4. \A t \in Seq(S) : Len(t) = 0 => t = << >>
    OBVIOUS
  <1>5. Len(Tail(q)) = Len(q) - 1 /\ Len(q) \in Nat
    BY <1>1
  <1>6. Len(q) = 1 => Len(Tail(q)) = 0
    BY <1>5
  <1>7. Len(q) = 1 => Tail(q) = << >>
    BY <1>2, <1>4, <1>6, Zenon
  <1>8. QED
    BY <1>1, <1>2, <1>3, <1>7

\* A function on an initial segment is a sequence.
LEMMA FunctionIsSeq ==
    ASSUME NEW q, NEW k \in Nat, q = [i \in 1 .. k |-> q[i]]
    PROVE  IsSeq(q)
  <1>1. q \in [1 .. k -> {q[i] : i \in 1 .. k}]
    OBVIOUS
  <1>2. q \in Seq({q[i] : i \in 1 .. k})
    BY <1>1
  <1>3. QED
    BY <1>2 DEF IsSeq

\* The empty and the one-element sequence.
LEMMA ShortSeqs ==
    /\ IsSeq(<< >>) /\ DOMAIN << >> = {}
    /\ \A x : /\ IsSeq(<<x>>) /\ DOMAIN <<x>> = {1}
              /\ Len(<<x>>) = 1 /\ <<x>>[1] = x /\ <<x>> # << >>
  <1>1. IsSeq(<< >>) /\ DOMAIN << >> = {}
    <2>1. << >> \in Seq({}) /\ DOMAIN << >> = {}
      OBVIOUS
    <2>2. QED
      BY <2>1 DEF IsSeq
  <1>2. ASSUME NEW x
        PROVE  /\ IsSeq(<<x>>) /\ DOMAIN <<x>> = {1}
               /\ Len(<<x>>) = 1 /\ <<x>>[1] = x /\ <<x>> # << >>
    <2>1. /\ <<x>> \in Seq({x}) /\ DOMAIN <<x>> = {1}
          /\ Len(<<x>>) = 1 /\ <<x>>[1] = x /\ <<x>> # << >>
      OBVIOUS
    <2>2. IsSeq(<<x>>)
      BY <2>1 DEF IsSeq
    <2>3. QED
      BY <2>1, <2>2
  <1>3. QED
    BY <1>1, <1>2

\* What concatenation does to sequences of whatever elements.
LEMMA ConcatFacts ==
    ASSUME NEW p, NEW q, IsSeq(p), IsSeq(q)
    PROVE  /\ IsSeq(p \o q)
           /\ Len(p) \in Nat /\ Len(q) \in Nat
           /\ Len(p \o q) = Len(p) + Len(q)
           /\ \A i \in 1 .. Len(p) : (p \o q)[i] = p[i]
           /\ \A i \in 1 .. Len(q) : (p \o q)[Len(p) + i] = q[i]
  <1>1. PICK S : p \in Seq(S)
    BY DEF IsSeq
  <1>2. PICK T : q \in Seq(T)
    BY DEF IsSeq
  <1>3. p \in Seq(S \cup T) /\ q \in Seq(S \cup T)
    BY <1>1, <1>2
  <1>4. p \o q \in Seq(S \cup T)
    BY <1>3
  <1>5. IsSeq(p \o q)
    BY <1>4 DEF IsSeq
  <1>6. QED
    BY <1>3, <1>4, <1>5

\* The elements of a part are those of the whole from a place on.
Segment(p, w, k) == \A i \in 1 .. Len(p) : p[i] = w[k + i]

LEMMA SegmentIsSubSeq ==
    ASSUME NEW p, NEW w, IsSeq(p), IsSeq(w), NEW k \in Nat, k + Len(p) <= Len(w),
           Segment(p, w, k)
    PROVE  p = SubSeq(w, k + 1, k + Len(p))
  <1>1. PICK S : p \in Seq(S)
    BY DEF IsSeq
  <1>2. PICK T : w \in Seq(T)
    BY DEF IsSeq
  <1>3. p \in Seq(S \cup T) /\ w \in Seq(S \cup T)
    BY <1>1, <1>2
  <1>4. PICK n, m : n = Len(p) /\ m = Len(w)
    OBVIOUS
  <1>5. n \in Nat /\ m \in Nat /\ k + 1 \in 1 .. m + 1 /\ k + n \in k .. m
    BY <1>1, <1>2, <1>4
  <1>6. PICK u : u = SubSeq(w, k + 1, k + n)
    OBVIOUS
  <1>7. u \in Seq(S \cup T) /\ Len(u) = n /\ \A i \in 1 .. n : u[i] = w[k + i]
    BY <1>3, <1>4, <1>5, <1>6
  <1>8. \A i \in 1 .. n : p[i] = u[i]
    BY <1>4, <1>7 DEF Segment
  <1>9. p = u
    BY <1>3, <1>4, <1>7, <1>8
  <1>10. QED
    BY <1>4, <1>6, <1>9

\* A part as long as the whole is the whole.
LEMMA SegmentIsWhole ==
    ASSUME NEW p, NEW w, IsSeq(p), IsSeq(w), Len(p) = Len(w), Segment(p, w, 0)
    PROVE  p = w
  <1>1. PICK S : p \in Seq(S)
    BY DEF IsSeq
  <1>2. PICK T : w \in Seq(T)
    BY DEF IsSeq
  <1>3. p \in Seq(S \cup T) /\ w \in Seq(S \cup T)
    BY <1>1, <1>2
  <1>4. \A i \in 1 .. Len(p) : p[i] = w[i]
    BY <1>1 DEF Segment
  <1>5. QED
    BY <1>3, <1>4
=============================================================================
