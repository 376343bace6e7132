---------------------------- MODULE Demux_proofs ----------------------------
(***************************************************************************)
(* Proofs about Demux for any number of streams, any conversations, any    *)
(* base and number of digits of the length prefix and any cap: the decoder *)
(* of the tap puts together exactly the complete messages of every stream  *)
(* (Reassembled) and gives up on a message over the cap only               *)
(* (FailsOnlyOverCap).                                                     *)
(*                                                                         *)
(* The core is DrainStream: when the bytes in the buffer are a piece of a  *)
(* stream that begins where a message begins, the loop of feed cuts off    *)
(* the messages that end in it and leaves a piece that again begins where  *)
(* a message begins.                                                       *)
(***************************************************************************)
EXTENDS Demux, SequenceLemmas

-----------------------------------------------------------------------------
(***************************************************************************)
(* The length prefix.                                                      *)
(***************************************************************************)

\* What the proofs use of the constants.
LEMMA Parameters ==
    /\ Base \in Nat /\ Base > 1 /\ LengthDigits \in Nat /\ LengthDigits > 0
    /\ MaxSize \in Nat /\ PrefixLen \in Nat /\ PrefixLen = LengthDigits + 1
    /\ Conversations \subseteq Seq(Seq(Bytes)) /\ Bytes \subseteq Nat
BY DemuxAssumption DEF PrefixLen, Bytes

\* Division with remainder by the base.
LEMMA Division ==
    ASSUME NEW n \in Nat
    PROVE  /\ n \div Base \in Nat /\ n % Base \in Bytes
           /\ (n \div Base) * Base + (n % Base) = n
<1>1. Base \in Int /\ Base > 1 /\ n \in Int
  BY Parameters
<1>2. n \div Base \in Nat
  BY <1>1
<1>3. n % Base \in 0 .. Base - 1
  BY <1>1
<1>4. n % Base = n - Base * (n \div Base)
  BY <1>1
<1>5. ASSUME NEW a \in Int, NEW b \in Int PROVE a * b \in Int /\ a * b = b * a
  BY <1>5
<1>6. PICK q : q = n \div Base
  OBVIOUS
<1>7. q * Base = Base * q /\ q * Base \in Int
  BY <1>1, <1>2, <1>5, <1>6
<1> QED
  BY <1>1, <1>2, <1>3, <1>4, <1>6, <1>7 DEF Bytes

\* Every shift drops one digit more.
LEMMA ShiftedFacts ==
    ASSUME NEW n \in Nat
    PROVE  /\ Shifted(n)[0] = n
           /\ \A i \in 0 .. LengthDigits : Shifted(n)[i] \in Nat
           /\ \A i \in 1 .. LengthDigits : Shifted(n)[i] = Shifted(n)[i - 1] \div Base
<1> DEFINE Is(f) == f = [i \in 0 .. LengthDigits |->
                            IF i = 0 THEN n ELSE f[i - 1] \div Base]
           s == [p \in Nat \X (1 .. LengthDigits) |-> p[1] \div Base]
<1>1. s \in [Nat \X (1 .. LengthDigits) -> Nat]
  BY Parameters, Division
<1>2. ASSUME NEW y \in Nat, NEW i \in 1 .. LengthDigits
      PROVE  s[<<y, i>>] = y \div Base
  OBVIOUS
<1> HIDE DEF s
<1>3. PICK f \in [0 .. LengthDigits -> Nat] : Computes(f, LengthDigits, n, s)
  BY <1>1, Parameters, Recursion
<1>4. Is(f)
  <2>1. f = [i \in 0 .. LengthDigits |-> f[i]]
    OBVIOUS
  <2>2. ASSUME NEW i \in 0 .. LengthDigits
        PROVE  f[i] = IF i = 0 THEN n ELSE f[i - 1] \div Base
    <3>1. CASE i = 0
      BY <1>3, <3>1 DEF Computes
    <3>2. CASE i # 0
      <4>1. i \in 1 .. LengthDigits /\ i - 1 \in 0 .. LengthDigits
        BY <3>2, Parameters
      <4>2. f[i - 1] \in Nat
        BY <4>1
      <4> QED
        BY <1>2, <1>3, <3>2, <4>1, <4>2 DEF Computes
    <3> QED
      BY <3>1, <3>2
  <2> QED
    BY <2>1, <2>2, Zenon
<1>5. Shifted(n) = CHOOSE g : Is(g)
  BY DEF Shifted
<1>6. Is(Shifted(n))
  <2> HIDE DEF Is
  <2> QED
    BY <1>4, <1>5
<1>7. PICK g : g = Shifted(n)
  OBVIOUS
<1>8. /\ g[0] = n
      /\ \A i \in 1 .. LengthDigits : g[i] = g[i - 1] \div Base
  <2>1. \A i \in 0 .. LengthDigits : g[i] = IF i = 0 THEN n ELSE g[i - 1] \div Base
    BY <1>6, <1>7
  <2> QED
    BY <2>1, Parameters
<1>9. \A i \in 0 .. LengthDigits : g[i] \in Nat
  <2> DEFINE T == {i \in 0 .. LengthDigits : g[i] \in Nat}
  <2>1. T \in SUBSET Nat /\ 0 \in T
    BY <1>8, Parameters
  <2>2. ASSUME NEW j \in 0 .. LengthDigits - 1, j \in T PROVE j + 1 \in T
    <3>1. g[j] \in Nat /\ j + 1 \in 1 .. LengthDigits /\ j + 1 - 1 = j
      BY <2>2, Parameters
    <3>2. g[j + 1] = g[j] \div Base
      BY <1>8, <3>1
    <3>3. g[j + 1] \in Nat
      BY <3>1, <3>2, Division
    <3>4. j + 1 \in 0 .. LengthDigits
      BY <3>1, Parameters
    <3> QED
      BY <3>3, <3>4
  <2>3. \A i \in 0 .. LengthDigits : i \in T
    <3> HIDE DEF T
    <3> QED
      BY <2>1, <2>2, Parameters, InductionUpTo
  <2> QED
    BY <2>3
<1> QED
  BY <1>7, <1>8, <1>9

\* The equation of LengthIn, on a buffer that has a whole prefix.
LEMMA LengthInFacts ==
    ASSUME NEW b \in Seq(Bytes), Len(b) >= PrefixLen
    PROVE  \E u : /\ LengthIn(b) = u[LengthDigits] /\ u[0] = 0
                  /\ \A i \in 1 .. LengthDigits : u[i] = u[i - 1] * Base + b[1 + i]
<1> DEFINE Is(f) == f = [i \in 0 .. LengthDigits |->
                            IF i = 0 THEN 0 ELSE f[i - 1] * Base + b[1 + i]]
           s == [p \in Int \X (1 .. LengthDigits) |-> p[1] * Base + b[1 + p[2]]]
<1>1. s \in [Int \X (1 .. LengthDigits) -> Int]
  <2>1. ASSUME NEW p \in Int \X (1 .. LengthDigits)
        PROVE  p[1] * Base + b[1 + p[2]] \in Int
    <3>1. p[1] \in Int /\ p[2] \in 1 .. LengthDigits /\ Len(b) \in Nat
      OBVIOUS
    <3>2. 1 + p[2] \in 1 .. Len(b)
      BY <3>1, Parameters
    <3>3. b[1 + p[2]] \in Bytes
      BY <3>2
    <3>4. b[1 + p[2]] \in Int /\ Base \in Int
      BY <3>3, Parameters DEF Bytes
    <3>5. ASSUME NEW x \in Int, NEW y \in Int, NEW z \in Int
          PROVE  x * y + z \in Int
      BY <3>5
    <3> QED
      BY <3>1, <3>4, <3>5
  <2> QED
    BY <2>1
<1>2. ASSUME NEW y \in Int, NEW i \in 1 .. LengthDigits
      PROVE  s[<<y, i>>] = y * Base + b[1 + i]
  OBVIOUS
<1> HIDE DEF s
<1>3. PICK f \in [0 .. LengthDigits -> Int] : Computes(f, LengthDigits, 0, s)
  <2>1. 0 \in Int /\ LengthDigits \in Nat
    BY Parameters
  <2> QED
    BY <1>1, <2>1, Recursion
<1>4. Is(f)
  <2>1. f = [i \in 0 .. LengthDigits |-> f[i]]
    OBVIOUS
  <2>2. ASSUME NEW i \in 0 .. LengthDigits
        PROVE  f[i] = IF i = 0 THEN 0 ELSE f[i - 1] * Base + b[1 + i]
    <3>1. CASE i = 0
      BY <1>3, <3>1 DEF Computes
    <3>2. CASE i # 0
      <4>1. i \in 1 .. LengthDigits /\ i - 1 \in 0 .. LengthDigits
        BY <3>2, Parameters
      <4>2. f[i - 1] \in Int
        BY <4>1
      <4>3. f[i] = s[<<f[i - 1], i>>]
        BY <1>3, <4>1 DEF Computes
      <4> QED
        BY <1>2, <3>2, <4>1, <4>2, <4>3
    <3> QED
      BY <3>1, <3>2
  <2> QED
    BY <2>1, <2>2, Zenon
<1>5. PICK u : u = CHOOSE g : Is(g)
  OBVIOUS
<1>6. LengthIn(b) = u[LengthDigits]
  BY <1>5 DEF LengthIn
<1>7. Is(u)
  <2> HIDE DEF Is
  <2> QED
    BY <1>4, <1>5
<1>8. \A i \in 0 .. LengthDigits : u[i] = IF i = 0 THEN 0 ELSE u[i - 1] * Base + b[1 + i]
  BY <1>7
<1>9. u[0] = 0 /\ \A i \in 1 .. LengthDigits : u[i] = u[i - 1] * Base + b[1 + i]
  BY <1>8, Parameters
<1> QED
  BY <1>6, <1>9

\* The bytes after the first are the digits of n, the most significant first.
HasPrefix(b, n) ==
    \A i \in 1 .. LengthDigits : b[1 + i] = Shifted(n)[LengthDigits - i] % Base

\* BigEndian.Uint32 reads what the sender's prefix says, if the length fits.
LEMMA LengthRead ==
    ASSUME NEW b \in Seq(Bytes), Len(b) >= PrefixLen, NEW n \in Nat,
           HasPrefix(b, n), Shifted(n)[LengthDigits] = 0
    PROVE  LengthIn(b) = n
<1>1. PICK u : /\ LengthIn(b) = u[LengthDigits] /\ u[0] = 0
               /\ \A i \in 1 .. LengthDigits : u[i] = u[i - 1] * Base + b[1 + i]
  BY LengthInFacts
<1>2. PICK g : g = Shifted(n)
  OBVIOUS
<1>3. /\ g[0] = n /\ g[LengthDigits] = 0
      /\ \A i \in 0 .. LengthDigits : g[i] \in Nat
      /\ \A i \in 1 .. LengthDigits : g[i] = g[i - 1] \div Base
  BY <1>2, ShiftedFacts
<1>4. \A i \in 1 .. LengthDigits : b[1 + i] = g[LengthDigits - i] % Base
  BY <1>2 DEF HasPrefix
<1> DEFINE T == {i \in 0 .. LengthDigits : u[i] = g[LengthDigits - i]}
<1>5. T \in SUBSET Nat /\ 0 \in T
  BY <1>1, <1>3, Parameters
<1>6. ASSUME NEW j \in 0 .. LengthDigits - 1, j \in T PROVE j + 1 \in T
  <2>1. PICK d : d = LengthDigits - (j + 1)
    OBVIOUS
  <2>2. /\ j + 1 \in 1 .. LengthDigits /\ j + 1 - 1 = j /\ j + 1 \in 0 .. LengthDigits
        /\ d \in 0 .. LengthDigits /\ d + 1 \in 1 .. LengthDigits
        /\ LengthDigits - j = d + 1 /\ d + 1 - 1 = d
    BY <2>1, Parameters
  <2>3. u[j] = g[d + 1]
    BY <1>6, <2>2
  <2>4. g[d + 1] = g[d] \div Base /\ g[d] \in Nat
    BY <1>3, <2>2
  <2>5. b[1 + (j + 1)] = g[d] % Base
    BY <1>4, <2>1, <2>2
  <2>6. u[j + 1] = u[j] * Base + b[1 + (j + 1)]
    BY <1>1, <2>2
  <2>7. (g[d] \div Base) * Base + (g[d] % Base) = g[d]
    BY <2>4, Division
  <2>8. u[j + 1] = (g[d] \div Base) * Base + (g[d] % Base)
    BY <2>3, <2>4, <2>5, <2>6
  <2> QED
    BY <2>1, <2>2, <2>7, <2>8
<1>7. \A i \in 0 .. LengthDigits : i \in T
  <2> HIDE DEF T
  <2> QED
    BY <1>5, <1>6, Parameters, InductionUpTo
<1>8. u[LengthDigits] = g[LengthDigits - LengthDigits]
  BY <1>7, Parameters
<1> QED
  BY <1>1, <1>3, <1>8, Parameters

-----------------------------------------------------------------------------
(***************************************************************************)
(* The bytes of a stream.                                                  *)
(***************************************************************************)

\* A message on the wire: a prefix with its length, and its bytes.
LEMMA EncodeFacts ==
    ASSUME NEW m \in Seq(Bytes)
    PROVE  /\ Encode(m) \in Seq(Bytes)
           /\ Len(Encode(m)) = PrefixLen + Len(m)
           /\ HasPrefix(Encode(m), Len(m))
           /\ \A i \in 1 .. Len(m) : Encode(m)[PrefixLen + i] = m[i]
<1> DEFINE d == [i \in 1 .. LengthDigits |-> Shifted(Len(m))[LengthDigits - i] % Base]
<1>1. Len(m) \in Nat
  OBVIOUS
<1>2. ASSUME NEW i \in 1 .. LengthDigits
      PROVE  Shifted(Len(m))[LengthDigits - i] % Base \in Bytes
  <2>1. LengthDigits - i \in 0 .. LengthDigits
    BY Parameters
  <2>2. Shifted(Len(m))[LengthDigits - i] \in Nat
    BY <1>1, <2>1, ShiftedFacts
  <2> QED
    BY <2>2, Division
<1>3. d \in [1 .. LengthDigits -> Bytes]
  BY <1>2
<1>4. d \in Seq(Bytes) /\ Len(d) = LengthDigits
  <2> HIDE DEF d
  <2> QED
    BY <1>3, Parameters
<1>5. \A i \in 1 .. LengthDigits : d[i] = Shifted(Len(m))[LengthDigits - i] % Base
  OBVIOUS
<1>6. Encode(m) = (<<0>> \o d) \o m
  BY DEF Encode
<1> HIDE DEF d
<1>7. <<0>> \in Seq(Bytes) /\ Len(<<0>>) = 1
  BY Parameters DEF Bytes
<1>8. PICK p : p = <<0>> \o d
  OBVIOUS
<1>9. /\ p \in Seq(Bytes) /\ Len(p) = PrefixLen
      /\ \A i \in 1 .. LengthDigits : p[1 + i] = d[i]
  BY <1>4, <1>7, <1>8, Parameters
<1>10. PICK e : e = p \o m
  OBVIOUS
<1>11. /\ e \in Seq(Bytes) /\ Len(e) = PrefixLen + Len(m)
       /\ \A i \in 1 .. PrefixLen : e[i] = p[i]
       /\ \A i \in 1 .. Len(m) : e[PrefixLen + i] = m[i]
  <2>1. IsSeq(p) /\ IsSeq(m)
    BY <1>9 DEF IsSeq
  <2>2. /\ Len(e) = Len(p) + Len(m)
        /\ \A i \in 1 .. Len(p) : e[i] = p[i]
        /\ \A i \in 1 .. Len(m) : e[Len(p) + i] = m[i]
    BY <1>10, <2>1, ConcatFacts
  <2>3. e \in Seq(Bytes)
    BY <1>9, <1>10
  <2> QED
    BY <1>9, <2>2, <2>3
<1>12. Encode(m) = e
  BY <1>6, <1>8, <1>10
<1>13. \A i \in 1 .. LengthDigits : e[1 + i] = Shifted(Len(m))[LengthDigits - i] % Base
  <2> SUFFICES ASSUME NEW i \in 1 .. LengthDigits
               PROVE  e[1 + i] = Shifted(Len(m))[LengthDigits - i] % Base
    OBVIOUS
  <2>1. 1 + i \in 1 .. PrefixLen
    BY Parameters
  <2> QED
    BY <1>5, <1>9, <1>11, <2>1
<1> QED
  BY <1>11, <1>12, <1>13 DEF HasPrefix

\* f joins the first sequences of p, by their number.
IsJoin(f, p, n) ==
    f = [i \in 0 .. n |-> IF i = 0 THEN << >> ELSE f[i - 1] \o p[i]]

LEMMA JoinExists ==
    ASSUME NEW S, NEW n \in Nat, NEW p, \A i \in 1 .. n : p[i] \in Seq(S)
    PROVE  \E f : IsJoin(f, p, n)
<1> DEFINE s == [x \in Seq(S) \X (1 .. n) |-> x[1] \o p[x[2]]]
<1>1. << >> \in Seq(S)
  OBVIOUS
<1>2. s \in [Seq(S) \X (1 .. n) -> Seq(S)]
  <2>1. ASSUME NEW x \in Seq(S) \X (1 .. n) PROVE x[1] \o p[x[2]] \in Seq(S)
    <3>1. x[1] \in Seq(S) /\ x[2] \in 1 .. n
      OBVIOUS
    <3>2. p[x[2]] \in Seq(S)
      BY <3>1
    <3> QED
      BY <3>1, <3>2
  <2> QED
    BY <2>1
<1>3. ASSUME NEW q \in Seq(S), NEW i \in 1 .. n PROVE s[<<q, i>>] = q \o p[i]
  OBVIOUS
<1> HIDE DEF s
<1>4. PICK f \in [0 .. n -> Seq(S)] : Computes(f, n, << >>, s)
  BY <1>1, <1>2, Recursion
<1>5. f = [i \in 0 .. n |-> f[i]]
  OBVIOUS
<1>6. ASSUME NEW i \in 0 .. n
      PROVE  f[i] = IF i = 0 THEN << >> ELSE f[i - 1] \o p[i]
  <2>1. CASE i = 0
    BY <1>4, <2>1 DEF Computes
  <2>2. CASE i # 0
    <3>1. i \in 1 .. n /\ i - 1 \in 0 .. n
      BY <2>2
    <3>2. f[i - 1] \in Seq(S) /\ f[i] = s[<<f[i - 1], i>>]
      BY <1>4, <3>1 DEF Computes
    <3>3. f[i] = f[i - 1] \o p[i]
      BY <1>3, <3>1, <3>2
    <3> QED
      BY <2>2, <3>3, Zenon
  <2> QED
    BY <2>1, <2>2
<1>7. f = [i \in 0 .. n |-> IF i = 0 THEN << >> ELSE f[i - 1] \o p[i]]
  BY <1>5, <1>6, Zenon
<1> QED
  BY <1>7 DEF IsJoin

LEMMA JoinFacts ==
    ASSUME NEW S, NEW n \in Nat, NEW p, \A i \in 1 .. n : p[i] \in Seq(S),
           NEW g, IsJoin(g, p, n)
    PROVE  /\ g[0] = << >>
           /\ \A i \in 1 .. n : g[i] = g[i - 1] \o p[i]
           /\ \A i \in 0 .. n : g[i] \in Seq(S)
<1>1. \A i \in 0 .. n : g[i] = IF i = 0 THEN << >> ELSE g[i - 1] \o p[i]
  BY DEF IsJoin
<1>2. g[0] = << >> /\ \A i \in 1 .. n : g[i] = g[i - 1] \o p[i]
  <2>1. 0 \in 0 .. n /\ \A i \in 1 .. n : i \in 0 .. n /\ i # 0
    OBVIOUS
  <2> QED
    BY <1>1, <2>1, Zenon
<1>3. \A i \in 0 .. n : g[i] \in Seq(S)
  <2> DEFINE T == {i \in 0 .. n : g[i] \in Seq(S)}
  <2>1. T \in SUBSET Nat
    OBVIOUS
  <2>2. 0 \in T
    <3>1. g[0] \in Seq(S)
      <4>1. << >> \in Seq(S)
        OBVIOUS
      <4> QED
        BY <1>2, <4>1, Zenon
    <3> QED
      BY <3>1
  <2>3. ASSUME NEW j \in 0 .. n - 1, j \in T PROVE j + 1 \in T
    <3>1. PICK k : k = j + 1
      OBVIOUS
    <3>2. k \in 1 .. n /\ k - 1 = j /\ k \in 0 .. n
      BY <3>1
    <3>3. g[k] = g[k - 1] \o p[k]
      BY <1>2, <3>2, Zenon
    <3>4. p[k] \in Seq(S)
      BY <3>2
    <3>5. g[k - 1] \in Seq(S)
      BY <2>3, <3>2
    <3>6. g[k] \in Seq(S)
      BY <3>3, <3>4, <3>5
    <3> QED
      BY <3>1, <3>2, <3>6
  <2>4. \A i \in 0 .. n : i \in T
    <3> HIDE DEF T
    <3> QED
      BY <2>1, <2>2, <2>3, InductionUpTo
  <2> QED
    BY <2>4
<1> QED
  BY <1>2, <1>3

\* The bytes of the first messages, by their number.
Encoded(c) == [i \in 1 .. Len(c) |-> Encode(c[i])]

IsSent(f, c) ==
    f = [i \in 0 .. Len(c) |-> IF i = 0 THEN << >> ELSE f[i - 1] \o Encode(c[i])]

Sent(c) == CHOOSE f : IsSent(f, c)

\* The equation of Wire.
LEMMA SentFacts ==
    ASSUME NEW c \in Seq(Seq(Bytes))
    PROVE  /\ Wire(c) = Sent(c)[Len(c)] /\ Sent(c)[0] = << >>
           /\ \A i \in 0 .. Len(c) : Sent(c)[i] \in Seq(Bytes)
           /\ \A i \in 1 .. Len(c) : Sent(c)[i] = Sent(c)[i - 1] \o Encode(c[i])
<1>1. Len(c) \in Nat
  OBVIOUS
<1>2. PICK p : p = Encoded(c)
  OBVIOUS
<1>3. ASSUME NEW i \in 1 .. Len(c) PROVE p[i] = Encode(c[i]) /\ p[i] \in Seq(Bytes)
  <2>1. c[i] \in Seq(Bytes)
    OBVIOUS
  <2>2. Encode(c[i]) \in Seq(Bytes)
    BY <2>1, EncodeFacts
  <2> QED
    BY <1>2, <2>2 DEF Encoded
<1>4. ASSUME NEW f
      PROVE  [i \in 0 .. Len(c) |-> IF i = 0 THEN << >> ELSE f[i - 1] \o Encode(c[i])] =
             [i \in 0 .. Len(c) |-> IF i = 0 THEN << >> ELSE f[i - 1] \o p[i]]
  <2>1. ASSUME NEW i \in 0 .. Len(c)
        PROVE  (IF i = 0 THEN << >> ELSE f[i - 1] \o Encode(c[i])) =
               (IF i = 0 THEN << >> ELSE f[i - 1] \o p[i])
    <3>1. i = 0 \/ i \in 1 .. Len(c)
      BY <1>1
    <3> QED
      BY <1>3, <3>1, Zenon
  <2> QED
    BY <2>1, Zenon
<1>5. \A f : IsSent(f, c) <=> IsJoin(f, p, Len(c))
  BY <1>4, Zenon DEF IsSent, IsJoin
<1>6. PICK g : g = Sent(c)
  OBVIOUS
<1>7. IsJoin(g, p, Len(c))
  <2>1. \E f : IsJoin(f, p, Len(c))
    BY <1>1, <1>3, JoinExists
  <2>2. IsSent(g, c)
    BY <1>5, <1>6, <2>1 DEF Sent
  <2> QED
    BY <1>5, <2>2
<1>8. Wire(c) = g[Len(c)]
  BY <1>6 DEF Wire, Sent, IsSent
<1>9. /\ g[0] = << >>
      /\ \A i \in 1 .. Len(c) : g[i] = g[i - 1] \o p[i]
      /\ \A i \in 0 .. Len(c) : g[i] \in Seq(Bytes)
  <2>1. \A i \in 1 .. Len(c) : p[i] \in Seq(Bytes)
    BY <1>3
  <2> QED
    BY <1>1, <1>7, <2>1, JoinFacts
<1>10. \A i \in 1 .. Len(c) : g[i] = g[i - 1] \o Encode(c[i])
  BY <1>3, <1>9, Zenon
<1> QED
  BY <1>6, <1>8, <1>9, <1>10

\* A piece of a sequence.
LEMMA PieceFacts ==
    ASSUME NEW S, NEW w \in Seq(S), NEW m \in 0 .. Len(w), NEW k \in 0 .. m
    PROVE  /\ SubSeq(w, k + 1, m) \in Seq(S)
           /\ Len(SubSeq(w, k + 1, m)) = m - k
           /\ \A i \in 1 .. m - k : SubSeq(w, k + 1, m)[i] = w[k + i]
<1>1. Len(w) \in Nat
  OBVIOUS
<1>2. k + 1 \in 1 .. Len(w) + 1 /\ m \in k .. Len(w)
  BY <1>1
<1> QED
  BY <1>1, <1>2

LEMMA PieceIs ==
    ASSUME NEW S, NEW w \in Seq(S), NEW m \in 0 .. Len(w), NEW k \in 0 .. m,
           NEW p \in Seq(S), Len(p) = m - k, \A i \in 1 .. m - k : p[i] = w[k + i]
    PROVE  p = SubSeq(w, k + 1, m)
<1>1. PICK q : q = SubSeq(w, k + 1, m)
  OBVIOUS
<1>2. q \in Seq(S) /\ Len(q) = m - k /\ \A i \in 1 .. m - k : q[i] = w[k + i]
  BY <1>1, PieceFacts
<1>3. \A i \in 1 .. Len(p) : p[i] = q[i]
  BY <1>2
<1>4. p = q
  BY <1>2, <1>3
<1> QED
  BY <1>1, <1>4

\* q begins with p.
Begins(p, q) == Len(p) <= Len(q) /\ \A i \in 1 .. Len(p) : p[i] = q[i]

\* Where the bytes of the first k messages end.
Place(c, k) == Len(Sent(c)[k])

\* The bytes one more message adds.
LEMMA SentStep ==
    ASSUME NEW c \in Seq(Seq(Bytes)), NEW k \in 1 .. Len(c)
    PROVE  /\ c[k] \in Seq(Bytes) /\ Place(c, k - 1) \in Nat
           /\ Place(c, k) = Place(c, k - 1) + PrefixLen + Len(c[k])
           /\ Begins(Sent(c)[k - 1], Sent(c)[k])
           /\ \A i \in 1 .. PrefixLen + Len(c[k]) :
                 Sent(c)[k][Place(c, k - 1) + i] = Encode(c[k])[i]
<1>1. c[k] \in Seq(Bytes) /\ Len(c) \in Nat
  OBVIOUS
<1>2. k - 1 \in 0 .. Len(c) /\ k \in 0 .. Len(c)
  BY <1>1
<1>3. PICK a, b, e : a = Sent(c)[k - 1] /\ b = Sent(c)[k] /\ e = Encode(c[k])
  OBVIOUS
<1>4. a \in Seq(Bytes) /\ b = a \o e
  BY <1>2, <1>3, SentFacts
<1>5. e \in Seq(Bytes) /\ Len(e) = PrefixLen + Len(c[k])
  BY <1>1, <1>3, EncodeFacts
<1>6. IsSeq(a) /\ IsSeq(e)
  BY <1>4, <1>5 DEF IsSeq
<1>7. /\ Len(a) \in Nat /\ Len(e) \in Nat /\ Len(b) = Len(a) + Len(e)
      /\ \A i \in 1 .. Len(a) : b[i] = a[i]
      /\ \A i \in 1 .. Len(e) : b[Len(a) + i] = e[i]
  BY <1>4, <1>6, ConcatFacts
<1>8. Begins(a, b)
  <2>1. Len(a) <= Len(b)
    BY <1>7
  <2> QED
    BY <1>7, <2>1, Zenon DEF Begins
<1>9. Len(b) = Len(a) + PrefixLen + Len(c[k])
  <2>1. ASSUME NEW x \in Nat, NEW y \in Nat, NEW z \in Nat
        PROVE  x + (y + z) = x + y + z
    BY <2>1
  <2>2. Len(a) \in Nat /\ PrefixLen \in Nat /\ Len(c[k]) \in Nat
    BY <1>1, <1>7, Parameters
  <2>3. Len(b) = Len(a) + (PrefixLen + Len(c[k]))
    BY <1>5, <1>7
  <2> QED
    BY <2>1, <2>2, <2>3, Zenon
<1>10. \A i \in 1 .. PrefixLen + Len(c[k]) : b[Len(a) + i] = e[i]
  BY <1>5, <1>7
<1>11. Place(c, k - 1) = Len(a) /\ Place(c, k) = Len(b)
  BY <1>3 DEF Place
<1> QED
  BY <1>1, <1>3, <1>7, <1>8, <1>9, <1>10, <1>11, Zenon

\* The bytes of fewer messages are a beginning of those of more.
LEMMA SentGrows ==
    ASSUME NEW c \in Seq(Seq(Bytes)), NEW k \in 0 .. Len(c), NEW j \in 0 .. k
    PROVE  /\ Begins(Sent(c)[j], Sent(c)[k])
           /\ Place(c, j) \in Nat /\ Place(c, k) \in Nat
           /\ j < k => Place(c, j) < Place(c, k)
<1> DEFINE n == Len(c)
           Good(i, m) == /\ Begins(Sent(c)[i], Sent(c)[m])
                         /\ Place(c, i) \in Nat /\ Place(c, m) \in Nat
                         /\ i < m => Place(c, i) < Place(c, m)
           T == {m \in 0 .. n : \A i \in 0 .. m : Good(i, m)}
<1>1. n \in Nat
  OBVIOUS
<1>2. ASSUME NEW i \in 0 .. n PROVE Place(c, i) \in Nat /\ Good(i, i)
  <2>1. Sent(c)[i] \in Seq(Bytes)
    BY SentFacts
  <2>2. Len(Sent(c)[i]) \in Nat
    BY <2>1
  <2> QED
    BY <1>1, <2>2 DEF Begins, Place
<1>3. ASSUME NEW m \in 1 .. n, NEW i \in 0 .. m - 1, Good(i, m - 1)
      PROVE  Good(i, m)
  <2>1. /\ m - 1 \in 0 .. n /\ m \in 0 .. n /\ i \in 0 .. n
    BY <1>1
  <2>2. PICK x, y, z : x = Sent(c)[i] /\ y = Sent(c)[m - 1] /\ z = Sent(c)[m]
    OBVIOUS
  <2>3. Begins(x, y) /\ Begins(y, z)
    BY <1>3, <2>2, SentStep
  <2>4. Len(x) \in Nat /\ Len(y) \in Nat /\ Len(z) \in Nat
    BY <1>2, <2>1, <2>2 DEF Place
  <2>5. Begins(x, z)
    BY <2>3, <2>4 DEF Begins
  <2>6. PICK s : s = Len(c[m])
    OBVIOUS
  <2>7. Len(z) = Len(y) + PrefixLen + s /\ s \in Nat
    <3>1. c[m] \in Seq(Bytes) /\ Place(c, m) = Place(c, m - 1) + PrefixLen + Len(c[m])
      BY SentStep
    <3> QED
      BY <2>2, <2>6, <3>1 DEF Place
  <2>8. Len(x) < Len(z)
    BY <2>3, <2>4, <2>7, Parameters DEF Begins
  <2> QED
    BY <2>2, <2>4, <2>5, <2>8 DEF Place
<1> HIDE DEF Good
<1>4. T \in SUBSET Nat
  BY <1>1
<1>5. 0 \in T
  BY <1>1, <1>2
<1>6. ASSUME NEW m \in 0 .. n - 1, m \in T PROVE m + 1 \in T
  <2>1. m + 1 \in 1 .. n /\ m + 1 \in 0 .. n /\ m + 1 - 1 = m
    BY <1>1
  <2>2. ASSUME NEW i \in 0 .. m + 1 PROVE Good(i, m + 1)
    <3>1. CASE i = m + 1
      BY <1>2, <2>1, <3>1
    <3>2. CASE i # m + 1
      <4>1. i \in 0 .. m
        BY <3>2
      <4>2. Good(i, m)
        BY <1>6, <4>1
      <4> QED
        BY <1>3, <2>1, <4>1, <4>2
    <3> QED
      BY <3>1, <3>2
  <2> QED
    BY <2>1, <2>2
<1>7. \A m \in 0 .. n : m \in T
  <2> HIDE DEF T
  <2> QED
    BY <1>1, <1>4, <1>5, <1>6, InductionUpTo
<1>8. Good(j, k)
  BY <1>7
<1> QED
  BY <1>8 DEF Good

\* Where the bytes of a message are on the wire.
LEMMA WireFacts ==
    ASSUME NEW c \in Seq(Seq(Bytes)), NEW k \in 0 .. Len(c)
    PROVE  /\ Wire(c) \in Seq(Bytes) /\ Len(Wire(c)) \in Nat
           /\ Place(c, k) \in Nat /\ Place(c, k) <= Len(Wire(c))
           /\ Place(c, 0) = 0 /\ Place(c, Len(c)) = Len(Wire(c))
           /\ Begins(Sent(c)[k], Wire(c))
<1>1. Len(c) \in Nat
  OBVIOUS
<1>2. 0 \in 0 .. Len(c) /\ Len(c) \in 0 .. Len(c) /\ k \in 0 .. Len(c)
  BY <1>1
<1>3. Wire(c) = Sent(c)[Len(c)] /\ Sent(c)[0] = << >> /\ Wire(c) \in Seq(Bytes)
  BY <1>2, SentFacts
<1>4. Begins(Sent(c)[k], Wire(c)) /\ Place(c, k) \in Nat
  BY <1>2, <1>3, SentGrows
<1>5. Place(c, 0) = 0 /\ Place(c, Len(c)) = Len(Wire(c)) /\ Len(Wire(c)) \in Nat
  BY <1>3 DEF Place
<1>6. Place(c, k) <= Len(Wire(c))
  BY <1>4 DEF Begins, Place
<1> QED
  BY <1>3, <1>4, <1>5, <1>6

LEMMA WireMessage ==
    ASSUME NEW c \in Seq(Seq(Bytes)), NEW k \in Nat, k < Len(c)
    PROVE  /\ c[k + 1] \in Seq(Bytes)
           /\ Place(c, k + 1) = Place(c, k) + PrefixLen + Len(c[k + 1])
           /\ \A i \in 1 .. PrefixLen + Len(c[k + 1]) :
                 Wire(c)[Place(c, k) + i] = Encode(c[k + 1])[i]
<1>1. PICK j : j = k + 1
  OBVIOUS
<1>2. Len(c) \in Nat
  OBVIOUS
<1>3. j \in 1 .. Len(c) /\ j \in 0 .. Len(c) /\ j - 1 = k
  BY <1>1, <1>2
<1>4. /\ c[j] \in Seq(Bytes) /\ Place(c, k) \in Nat
      /\ Place(c, j) = Place(c, k) + PrefixLen + Len(c[j])
      /\ \A i \in 1 .. PrefixLen + Len(c[j]) :
            Sent(c)[j][Place(c, k) + i] = Encode(c[j])[i]
  BY <1>3, SentStep
<1>5. Begins(Sent(c)[j], Wire(c))
  BY <1>3, WireFacts
<1>6. ASSUME NEW i \in 1 .. PrefixLen + Len(c[j])
      PROVE  Wire(c)[Place(c, k) + i] = Encode(c[j])[i]
  <2>1. PICK s, p, q : s = Len(c[j]) /\ p = Place(c, k) /\ q = PrefixLen
    OBVIOUS
  <2>2. s \in Nat /\ p \in Nat /\ q \in Nat
    BY <1>4, <2>1, Parameters
  <2>3. p + i \in 1 .. p + PrefixLen + s
    <3>1. i \in 1 .. q + s
      BY <2>1
    <3>2. p + i \in 1 .. p + q + s
      BY <2>2, <3>1
    <3> QED
      BY <2>1, <3>2
  <2>4. Place(c, k) + i \in 1 .. Len(Sent(c)[j])
    BY <1>4, <2>1, <2>3 DEF Place
  <2> QED
    BY <1>4, <1>5, <2>4 DEF Begins
<1> QED
  BY <1>1, <1>4, <1>6, Zenon

-----------------------------------------------------------------------------
(***************************************************************************)
(* The loop of feed.                                                       *)
(***************************************************************************)

\* A length is a number.
LEMMA LengthInNat ==
    ASSUME NEW b \in Seq(Bytes), Len(b) >= PrefixLen
    PROVE  LengthIn(b) \in Nat
<1>1. PICK u : /\ LengthIn(b) = u[LengthDigits] /\ u[0] = 0
               /\ \A i \in 1 .. LengthDigits : u[i] = u[i - 1] * Base + b[1 + i]
  BY LengthInFacts
<1> DEFINE T == {i \in 0 .. LengthDigits : u[i] \in Nat}
<1>2. T \in SUBSET Nat /\ 0 \in T
  BY <1>1, Parameters
<1>3. ASSUME NEW j \in 0 .. LengthDigits - 1, j \in T PROVE j + 1 \in T
  <2>1. PICK k : k = j + 1
    OBVIOUS
  <2>2. k \in 1 .. LengthDigits /\ k - 1 = j /\ 1 + k \in 1 .. Len(b)
    BY <2>1, Parameters
  <2>3. u[k] = u[k - 1] * Base + b[1 + k]
    BY <1>1, <2>2
  <2>4. u[k - 1] \in Nat /\ Base \in Nat
    BY <1>3, <2>2, Parameters
  <2>5. b[1 + k] \in Nat
    BY <2>2, Parameters DEF Bytes
  <2>6. ASSUME NEW x \in Nat, NEW y \in Nat, NEW z \in Nat PROVE x * y + z \in Nat
    BY <2>6
  <2>7. u[k] \in Nat
    BY <2>3, <2>4, <2>5, <2>6
  <2>8. j + 1 \in 0 .. LengthDigits
    BY Parameters
  <2> QED
    BY <2>1, <2>7, <2>8
<1>4. \A i \in 0 .. LengthDigits : i \in T
  <2> HIDE DEF T
  <2> QED
    BY <1>2, <1>3, Parameters, InductionUpTo
<1>5. LengthDigits \in T
  <2> HIDE DEF T
  <2> QED
    BY <1>4, Parameters
<1> QED
  BY <1>1, <1>5

\* The last bytes of a buffer.
Remaining(b, left) == SubSeq(b, Len(b) - left + 1, Len(b))

LEMMA RemainingFacts ==
    ASSUME NEW b \in Seq(Bytes), NEW left \in 0 .. Len(b)
    PROVE  /\ Remaining(b, left) \in Seq(Bytes)
           /\ Len(Remaining(b, left)) = left
           /\ \A i \in 1 .. left : Remaining(b, left)[i] = b[Len(b) - left + i]
<1>1. PICK n, k : n = Len(b) /\ k = n - left
  OBVIOUS
<1>2. n \in Nat /\ k \in 0 .. n /\ n - k = left
  BY <1>1
<1>3. PICK r : r = SubSeq(b, k + 1, n)
  OBVIOUS
<1>4. r \in Seq(Bytes) /\ Len(r) = left /\ \A i \in 1 .. left : r[i] = b[k + i]
  BY <1>1, <1>2, <1>3, PieceFacts
<1> QED
  BY <1>1, <1>3, <1>4 DEF Remaining

\* A round looks only at what the later rounds make of fewer bytes.
LEMMA RoundDepends ==
    ASSUME NEW b \in Seq(Bytes), NEW f, NEW g, \A i \in 0 .. Len(b) - 1 : f[i] = g[i]
    PROVE  Round(b, f) = Round(b, g)
<1>1. CASE Len(b) < PrefixLen
  BY <1>1, Zenon DEF Round
<1>2. CASE ~(Len(b) < PrefixLen)
  <2>1. Len(b) \in Nat /\ Len(b) >= PrefixLen
    BY <1>2, Parameters
  <2>2. LengthIn(b) \in Nat
    BY <2>1, LengthInNat
  <2>3. CASE Len(b) < PrefixLen + LengthIn(b)
    BY <2>3, Zenon DEF Round
  <2>4. CASE ~(Len(b) < PrefixLen + LengthIn(b))
    <3>1. Len(b) - (PrefixLen + LengthIn(b)) \in 0 .. Len(b) - 1
      BY <2>1, <2>2, <2>4, Parameters
    <3>2. f[Len(b) - (PrefixLen + LengthIn(b))] = g[Len(b) - (PrefixLen + LengthIn(b))]
      BY <3>1
    <3> QED
      BY <3>2, Zenon DEF Round
  <2> QED
    BY <2>3, <2>4
<1> QED
  BY <1>1, <1>2

\* The loop on the last bytes of a buffer, by how many they are.
IsLoop(f, b, m) == f = [left \in 0 .. m |-> Round(Remaining(b, left), f)]

LEMMA LoopExists ==
    ASSUME NEW b \in Seq(Bytes)
    PROVE  \E f : IsLoop(f, b, Len(b))
<1> DEFINE n == Len(b)
           T == {m \in 0 .. n : \E f : IsLoop(f, b, m)}
<1>1. n \in Nat
  OBVIOUS
<1>2. T \in SUBSET Nat
  BY <1>1
<1>3. ASSUME NEW m \in 0 .. n, NEW g, NEW x,
             m = 0 \/ IsLoop(g, b, m - 1), x = Round(Remaining(b, m), g)
      PROVE  IsLoop([left \in 0 .. m |-> IF left = m THEN x ELSE g[left]], b, m)
  <2> DEFINE f == [left \in 0 .. m |-> IF left = m THEN x ELSE g[left]]
  <2>1. ASSUME NEW left \in 0 .. m PROVE f[left] = Round(Remaining(b, left), f)
    <3>1. \A i \in 0 .. left - 1 : g[i] = f[i]
      BY <1>1
    <3>2. left \in 0 .. Len(b) /\ left - 1 \in Int
      BY <1>1
    <3>3. PICK r : r = Remaining(b, left)
      OBVIOUS
    <3>4. r \in Seq(Bytes) /\ Len(r) = left
      BY <3>2, <3>3, RemainingFacts
    <3>5. \A i \in 0 .. Len(r) - 1 : g[i] = f[i]
      BY <3>1, <3>4
    <3> HIDE DEF f
    <3>6. Round(r, g) = Round(r, f)
      BY <3>4, <3>5, RoundDepends
    <3>7. f[left] = Round(r, g)
      <4>1. CASE left = m
        <5>1. f[left] = x
          BY <4>1 DEF f
        <5> QED
          BY <1>3, <3>3, <4>1, <5>1, Zenon
      <4>2. CASE left # m
        <5>1. f[left] = g[left] /\ m # 0 /\ left \in 0 .. m - 1
          BY <1>1, <4>2 DEF f
        <5>2. IsLoop(g, b, m - 1)
          BY <1>3, <5>1
        <5>3. g[left] = Round(Remaining(b, left), g)
          BY <5>1, <5>2 DEF IsLoop
        <5> QED
          BY <3>3, <5>1, <5>3, Zenon
      <4> QED
        BY <4>1, <4>2
    <3> QED
      BY <3>3, <3>6, <3>7
  <2>2. f = [left \in 0 .. m |-> f[left]]
    OBVIOUS
  <2>3. f = [left \in 0 .. m |-> Round(Remaining(b, left), f)]
    <3> HIDE DEF f
    <3> QED
      BY <2>1, <2>2, Zenon
  <2> HIDE DEF f
  <2>4. IsLoop(f, b, m)
    BY <2>3 DEF IsLoop
  <2> QED
    BY <2>4 DEF f
<1>4. 0 \in T
  <2>1. 0 \in 0 .. n
    BY <1>1
  <2>2. \E f : IsLoop(f, b, 0)
    BY <1>3, <2>1, Zenon
  <2> QED
    BY <2>1, <2>2
<1>5. ASSUME NEW m \in 0 .. n - 1, m \in T PROVE m + 1 \in T
  <2>1. PICK k : k = m + 1
    OBVIOUS
  <2>2. k \in 0 .. n /\ k - 1 = m
    BY <1>1, <2>1
  <2>3. PICK g : IsLoop(g, b, m)
    BY <1>5
  <2>4. IsLoop(g, b, k - 1)
    BY <2>2, <2>3
  <2>5. \E f : IsLoop(f, b, k)
    BY <1>3, <2>2, <2>4, Zenon
  <2> QED
    BY <2>1, <2>2, <2>5
<1>6. \A m \in 0 .. n : m \in T
  <2> HIDE DEF T
  <2> QED
    BY <1>1, <1>2, <1>4, <1>5, InductionUpTo
<1>7. n \in 0 .. n
  BY <1>1
<1> QED
  BY <1>6, <1>7

Loop(b) == CHOOSE f : IsLoop(f, b, Len(b))

\* The equation of Drain.
LEMMA LoopFacts ==
    ASSUME NEW b \in Seq(Bytes)
    PROVE  /\ Drain(b) = Loop(b)[Len(b)]
           /\ \A left \in 0 .. Len(b) :
                 Loop(b)[left] = Round(Remaining(b, left), Loop(b))
<1>1. PICK f : f = Loop(b)
  OBVIOUS
<1>2. Drain(b) = f[Len(b)]
  BY <1>1 DEF Drain, Loop, IsLoop, Remaining
<1>3. IsLoop(f, b, Len(b))
  BY <1>1, LoopExists DEF Loop
<1>4. \A left \in 0 .. Len(b) : f[left] = Round(Remaining(b, left), f)
  BY <1>3 DEF IsLoop
<1> QED
  BY <1>1, <1>2, <1>4

\* The outcomes of a round.
LEMMA RoundOutcome ==
    ASSUME NEW b \in Seq(Bytes), NEW later, NEW n, n = LengthIn(b)
    PROVE  /\ Len(b) < PrefixLen =>
                 Round(b, later) = [msgs |-> << >>, rest |-> b, over |-> FALSE]
           /\ Len(b) >= PrefixLen /\ OverCap(n) =>
                 Round(b, later) = [msgs |-> << >>, rest |-> b, over |-> TRUE]
           /\ Len(b) >= PrefixLen /\ ~OverCap(n) /\ Len(b) < PrefixLen + n =>
                 Round(b, later) = [msgs |-> << >>, rest |-> b, over |-> FALSE]
           /\ Len(b) >= PrefixLen /\ ~OverCap(n) /\ Len(b) >= PrefixLen + n =>
                 Round(b, later) =
                    [msgs |-> <<SubSeq(b, PrefixLen + 1, PrefixLen + n)>> \o
                              later[Len(b) - (PrefixLen + n)].msgs,
                     rest |-> later[Len(b) - (PrefixLen + n)].rest,
                     over |-> later[Len(b) - (PrefixLen + n)].over]
<1>1. Len(b) \in Nat /\ PrefixLen \in Nat
  BY Parameters
<1>2. Len(b) >= PrefixLen => n \in Nat
  BY LengthInNat
<1>3. Len(b) >= PrefixLen => ~(Len(b) < PrefixLen)
  BY <1>1
<1>4. Len(b) >= PrefixLen /\ Len(b) >= PrefixLen + n => ~(Len(b) < PrefixLen + n)
  BY <1>1, <1>2
<1> QED
  BY <1>3, <1>4, Zenon DEF Round

\* The last of these, a message cut off, on its own.
LEMMA RoundCutsOff ==
    ASSUME NEW b \in Seq(Bytes), NEW later, NEW n, n = LengthIn(b),
           Len(b) >= PrefixLen, ~OverCap(n), Len(b) >= PrefixLen + n
    PROVE  Round(b, later) =
              [msgs |-> <<SubSeq(b, PrefixLen + 1, PrefixLen + n)>> \o
                        later[Len(b) - (PrefixLen + n)].msgs,
               rest |-> later[Len(b) - (PrefixLen + n)].rest,
               over |-> later[Len(b) - (PrefixLen + n)].over]
BY RoundOutcome, Zenon

-----------------------------------------------------------------------------
(***************************************************************************)
(* Feeding pieces of a stream to the loop.                                 *)
(***************************************************************************)

\* An element and the piece that follows it.
LEMMA ConsPiece ==
    ASSUME NEW S, NEW c \in Seq(S), NEW j \in 0 .. Len(c), NEW k \in 0 .. j - 1
    PROVE  <<c[k + 1]>> \o SubSeq(c, k + 1 + 1, j) = SubSeq(c, k + 1, j)
<1>1. Len(c) \in Nat /\ j \in Nat /\ k \in Nat
  OBVIOUS
<1>2. k + 1 \in 0 .. j /\ k + 1 \in 1 .. Len(c) /\ k \in 0 .. j
  BY <1>1
<1>3. PICK x, t : x = c[k + 1] /\ t = SubSeq(c, k + 1 + 1, j)
  OBVIOUS
<1>4. x \in S
  BY <1>2, <1>3
<1>5. /\ t \in Seq(S) /\ Len(t) = j - (k + 1)
      /\ \A i \in 1 .. j - (k + 1) : t[i] = c[k + 1 + i]
  BY <1>2, <1>3, PieceFacts
<1>6. PICK p : p = <<x>> \o t
  OBVIOUS
<1>7. p \in Seq(S)
  BY <1>4, <1>5, <1>6
<1>8. /\ Len(p) = 1 + Len(t) /\ p[1] = x
      /\ \A i \in 1 .. Len(t) : p[1 + i] = t[i]
  <2>1. IsSeq(<<x>>) /\ Len(<<x>>) = 1 /\ <<x>>[1] = x
    BY ShortSeqs
  <2>2. IsSeq(t)
    BY <1>5 DEF IsSeq
  <2>3. /\ Len(p) = Len(<<x>>) + Len(t)
        /\ \A i \in 1 .. Len(<<x>>) : p[i] = <<x>>[i]
        /\ \A i \in 1 .. Len(t) : p[Len(<<x>>) + i] = t[i]
    BY <1>6, <2>1, <2>2, ConcatFacts
  <2> QED
    BY <2>1, <2>3
<1>9. Len(p) = j - k
  BY <1>1, <1>5, <1>8
<1>10. ASSUME NEW i \in 1 .. j - k PROVE p[i] = c[k + i]
  <2>1. CASE i = 1
    BY <1>3, <1>8, <2>1
  <2>2. CASE i # 1
    <3>1. i - 1 \in 1 .. j - (k + 1) /\ 1 + (i - 1) = i /\ k + 1 + (i - 1) = k + i
      BY <1>1, <2>2
    <3>2. p[1 + (i - 1)] = t[i - 1] /\ t[i - 1] = c[k + 1 + (i - 1)]
      BY <1>5, <1>8, <3>1
    <3> QED
      BY <3>1, <3>2
  <2> QED
    BY <2>1, <2>2
<1>11. p = SubSeq(c, k + 1, j)
  BY <1>2, <1>7, <1>9, <1>10, PieceIs
<1> QED
  BY <1>3, <1>6, <1>11

\* The lengths of all messages fit in their prefixes.
Fits(c) == \A i \in 1 .. Len(c) : Shifted(Len(c[i]))[LengthDigits] = 0

\* The first n bytes of a stream end in the message after the j-th.
Within(c, j, n) == Place(c, j) <= n /\ (j < Len(c) => n < Place(c, j + 1))

\* Messages that exceed the cap.
TooLong(c) == \E i \in 1 .. Len(c) : Len(c[i]) > MaxSize

\* d is what the loop should make of the bytes after the k-th message and up
\* to the n-th byte.
Cut(c, k, n, d) ==
    /\ d.over \in BOOLEAN
    /\ d.over => TooLong(c)
    /\ ~d.over => \E j \in k .. Len(c) :
                     /\ Within(c, j, n)
                     /\ d.msgs = SubSeq(c, k + 1, j)
                     /\ d.rest = SubSeq(Wire(c), Place(c, j) + 1, n)

\* The loop stops before a message that is not complete.
LEMMA CutStops ==
    ASSUME NEW c \in Seq(Seq(Bytes)), NEW k \in 0 .. Len(c), NEW n \in Nat, Within(c, k, n),
           NEW d, d = [msgs |-> << >>, rest |-> SubSeq(Wire(c), Place(c, k) + 1, n),
                       over |-> FALSE]
    PROVE  Cut(c, k, n, d)
<1>1. k \in k .. Len(c) /\ Len(c) \in Nat
  OBVIOUS
<1>2. PICK q : q = SubSeq(c, k + 1, k)
  OBVIOUS
<1>3. q \in Seq(Seq(Bytes)) /\ Len(q) = k - k
  BY <1>1, <1>2, PieceFacts
<1>4. q = << >>
  BY <1>1, <1>3
<1>5. /\ d.over = FALSE /\ d.msgs = << >>
      /\ d.rest = SubSeq(Wire(c), Place(c, k) + 1, n)
  OBVIOUS
<1> QED
  BY <1>1, <1>2, <1>4, <1>5, Zenon DEF Cut

\* The bytes from the beginning of a message: its length, and itself.
LEMMA PieceOfMessage ==
    ASSUME NEW c \in Seq(Seq(Bytes)), Fits(c), NEW k \in Nat, k < Len(c),
           NEW n \in Place(c, k) .. Len(Wire(c)),
           NEW r, r = SubSeq(Wire(c), Place(c, k) + 1, n), Len(r) >= PrefixLen
    PROVE  /\ r \in Seq(Bytes) /\ Len(r) = n - Place(c, k)
           /\ LengthIn(r) = Len(c[k + 1])
           /\ Len(r) >= PrefixLen + Len(c[k + 1]) =>
                 SubSeq(r, PrefixLen + 1, PrefixLen + Len(c[k + 1])) = c[k + 1]
<1>1. k \in 0 .. Len(c) /\ Len(c) \in Nat /\ k + 1 \in 1 .. Len(c)
  OBVIOUS
<1>2. PICK w, p, m, s, e : /\ w = Wire(c) /\ p = Place(c, k) /\ m = c[k + 1]
                           /\ s = Len(m) /\ e = Encode(m)
  OBVIOUS
<1>3. w \in Seq(Bytes) /\ Len(w) \in Nat /\ p \in Nat /\ p <= Len(w)
  BY <1>1, <1>2, WireFacts
<1>4. /\ m \in Seq(Bytes) /\ s \in Nat
      /\ \A i \in 1 .. PrefixLen + s : w[p + i] = e[i]
  <2>1. /\ m \in Seq(Bytes)
        /\ \A i \in 1 .. PrefixLen + s : w[p + i] = e[i]
    BY <1>2, WireMessage
  <2> QED
    BY <1>2, <2>1
<1>5. /\ Len(e) = PrefixLen + s /\ HasPrefix(e, s)
      /\ \A i \in 1 .. s : e[PrefixLen + i] = m[i]
  BY <1>2, <1>4, EncodeFacts
<1>6. n \in 0 .. Len(w) /\ p \in 0 .. n
  BY <1>2, <1>3
<1>7. r \in Seq(Bytes) /\ Len(r) = n - p /\ \A i \in 1 .. n - p : r[i] = w[p + i]
  <2>1. r = SubSeq(w, p + 1, n)
    BY <1>2, Zenon
  <2>2. w \in Seq(Bytes)
    BY <1>3
  <2>3. /\ SubSeq(w, p + 1, n) \in Seq(Bytes) /\ Len(SubSeq(w, p + 1, n)) = n - p
        /\ \A i \in 1 .. n - p : SubSeq(w, p + 1, n)[i] = w[p + i]
    BY <1>6, <2>2, PieceFacts, Zenon
  <2> QED
    BY <2>1, <2>3, Zenon
<1>8. PrefixLen \in Nat /\ n - p \in Nat /\ n - p >= PrefixLen
  <2>1. n - p \in Nat
    BY <1>6
  <2>2. Len(r) = n - p /\ PrefixLen \in Nat
    BY <1>7, Parameters
  <2> QED
    BY <2>1, <2>2
<1>9. \A i \in 1 .. n - p : i <= PrefixLen + s => r[i] = e[i]
  <2> SUFFICES ASSUME NEW i \in 1 .. n - p, i <= PrefixLen + s PROVE r[i] = e[i]
    OBVIOUS
  <2>1. i \in 1 .. PrefixLen + s
    <3>1. s \in Nat /\ PrefixLen \in Nat /\ i \in Nat /\ i >= 1
      BY <1>4, <1>8
    <3> QED
      BY <3>1
  <2> QED
    BY <1>4, <1>7, <2>1, Zenon
<1>10. HasPrefix(r, s)
  <2> SUFFICES ASSUME NEW i \in 1 .. LengthDigits
               PROVE  r[1 + i] = Shifted(s)[LengthDigits - i] % Base
    BY DEF HasPrefix
  <2>1. 1 + i \in 1 .. n - p /\ 1 + i <= PrefixLen + s
    BY <1>4, <1>8, Parameters
  <2>2. r[1 + i] = e[1 + i]
    BY <1>9, <2>1
  <2>3. e[1 + i] = Shifted(s)[LengthDigits - i] % Base
    BY <1>5 DEF HasPrefix
  <2> QED
    BY <2>2, <2>3
<1>11. Shifted(s)[LengthDigits] = 0
  BY <1>1, <1>2 DEF Fits
<1>12. LengthIn(r) = s
  BY <1>4, <1>7, <1>8, <1>10, <1>11, LengthRead
<1>13. ASSUME Len(r) >= PrefixLen + s
       PROVE  SubSeq(r, PrefixLen + 1, PrefixLen + s) = m
  <2>1. PICK t : t = PrefixLen + s
    OBVIOUS
  <2>2. t \in 0 .. Len(r) /\ PrefixLen \in 0 .. t /\ t - PrefixLen = s
    <3>1. PICK l, q : l = Len(r) /\ q = PrefixLen
      OBVIOUS
    <3>2. l \in Nat
      BY <1>7, <1>8, <3>1
    <3>3. q \in Nat /\ s \in Nat /\ t = q + s /\ l >= q + s
      BY <1>4, <1>8, <1>13, <2>1, <3>1
    <3>4. t \in 0 .. l /\ q \in 0 .. t /\ t - q = s
      BY <3>2, <3>3
    <3> QED
      BY <3>1, <3>4, Zenon
  <2>3. ASSUME NEW i \in 1 .. t - PrefixLen PROVE m[i] = r[PrefixLen + i]
    <3>1. i \in 1 .. s /\ PrefixLen + i \in 1 .. n - p /\ PrefixLen + i <= PrefixLen + s
      BY <1>4, <1>7, <1>8, <1>13, <2>1, <2>2
    <3>2. r[PrefixLen + i] = e[PrefixLen + i]
      BY <1>9, <3>1
    <3> QED
      BY <1>5, <3>1, <3>2
  <2>4. Len(m) = t - PrefixLen /\ m \in Seq(Bytes) /\ r \in Seq(Bytes)
    BY <1>2, <1>4, <1>7, <2>2
  <2>5. PICK x : x = SubSeq(r, PrefixLen + 1, t)
    OBVIOUS
  <2>6. /\ x \in Seq(Bytes) /\ Len(x) = t - PrefixLen
        /\ \A i \in 1 .. t - PrefixLen : x[i] = r[PrefixLen + i]
    BY <2>2, <2>4, <2>5, PieceFacts
  <2>7. Len(m) = Len(x) /\ \A i \in 1 .. Len(m) : m[i] = x[i]
    BY <2>3, <2>4, <2>6, Zenon
  <2>8. m = x
    BY <2>4, <2>6, <2>7
  <2> QED
    BY <2>1, <2>5, <2>8, Zenon
<1> QED
  BY <1>2, <1>7, <1>12, <1>13

\* A round that cuts off a message: the later rounds go on behind it.
LEMMA CutMessage ==
    ASSUME NEW c \in Seq(Seq(Bytes)), NEW k \in Nat, k < Len(c), NEW n,
           NEW x, Cut(c, k + 1, n, x),
           NEW d, d = [msgs |-> <<c[k + 1]>> \o x.msgs, rest |-> x.rest, over |-> x.over]
    PROVE  Cut(c, k, n, d)
<1>1. /\ d.msgs = <<c[k + 1]>> \o x.msgs /\ d.rest = x.rest /\ d.over = x.over
  OBVIOUS
<1>2. d.over \in BOOLEAN /\ (d.over => TooLong(c))
  BY <1>1 DEF Cut
<1>3. ASSUME ~d.over
      PROVE  \E j \in k .. Len(c) :
                /\ Within(c, j, n) /\ d.msgs = SubSeq(c, k + 1, j)
                /\ d.rest = SubSeq(Wire(c), Place(c, j) + 1, n)
  <2>1. ~x.over
    BY <1>1, <1>3
  <2>2. PICK j \in k + 1 .. Len(c) :
                /\ Within(c, j, n) /\ x.msgs = SubSeq(c, k + 1 + 1, j)
                /\ x.rest = SubSeq(Wire(c), Place(c, j) + 1, n)
    BY <2>1 DEF Cut
  <2>3. Len(c) \in Nat
    OBVIOUS
  <2>4. j \in 0 .. Len(c) /\ k \in 0 .. j - 1 /\ j \in k .. Len(c)
    BY <2>3
  <2>5. <<c[k + 1]>> \o SubSeq(c, k + 1 + 1, j) = SubSeq(c, k + 1, j)
    BY <2>4, ConsPiece
  <2>6. d.msgs = SubSeq(c, k + 1, j) /\ d.rest = SubSeq(Wire(c), Place(c, j) + 1, n)
    BY <1>1, <2>2, <2>5
  <2> QED
    BY <2>2, <2>4, <2>6
<1> QED
  BY <1>2, <1>3 DEF Cut

\* A round of the loop, at the beginning of a message.
LEMMA RoundCuts ==
    ASSUME NEW c \in Seq(Seq(Bytes)), Fits(c), NEW k \in 0 .. Len(c),
           NEW n \in Place(c, k) .. Len(Wire(c)), NEW r, NEW later,
           r = SubSeq(Wire(c), Place(c, k) + 1, n),
           k < Len(c) /\ Place(c, k + 1) <= n =>
              Cut(c, k + 1, n, later[n - Place(c, k + 1)])
    PROVE  Cut(c, k, n, Round(r, later))
<1>1. Len(c) \in Nat /\ k \in Nat /\ k <= Len(c)
  OBVIOUS
<1>2. PICK p, w : p = Place(c, k) /\ w = Wire(c)
  OBVIOUS
<1>3. /\ w \in Seq(Bytes) /\ Len(w) \in Nat /\ p \in Nat /\ p <= Len(w)
      /\ Place(c, Len(c)) = Len(w)
  BY <1>1, <1>2, WireFacts
<1>4. n \in Nat /\ n \in 0 .. Len(w) /\ p \in 0 .. n /\ n - p \in Nat
  BY <1>2, <1>3
<1>5. r \in Seq(Bytes) /\ Len(r) = n - p
  BY <1>2, <1>3, <1>4, PieceFacts
<1> DEFINE stop == [msgs |-> << >>, rest |-> r, over |-> FALSE]
<1>6. ASSUME Within(c, k, n) PROVE Cut(c, k, n, stop)
  BY <1>2, <1>4, <1>6, CutStops
<1> HIDE DEF stop
<1>7. CASE k = Len(c)
  <2>1. p = Len(w) /\ n = p
    BY <1>2, <1>3, <1>4, <1>7
  <2>2. Within(c, k, n) /\ Len(r) < PrefixLen
    BY <1>1, <1>2, <1>4, <1>5, <1>7, <2>1, Parameters DEF Within
  <2>3. Round(r, later) = stop
    BY <1>5, <2>2, RoundOutcome DEF stop
  <2> QED
    BY <1>6, <2>2, <2>3
<1>8. CASE k # Len(c)
  <2>1. k < Len(c)
    BY <1>1, <1>8
  <2>2. PICK m, s : m = c[k + 1] /\ s = Len(m)
    OBVIOUS
  <2>3. s \in Nat /\ Place(c, k + 1) = p + PrefixLen + s /\ PrefixLen \in Nat
    <3>1. m \in Seq(Bytes) /\ Place(c, k + 1) = p + PrefixLen + s
      BY <1>1, <1>2, <2>1, <2>2, WireMessage
    <3> QED
      BY <2>2, <3>1, Parameters
  <2>4. n < Place(c, k + 1) => Within(c, k, n)
    BY <1>2, <1>4 DEF Within
  <2>5. CASE Len(r) < PrefixLen
    <3>1. n < Place(c, k + 1)
      BY <1>3, <1>4, <1>5, <2>3, <2>5
    <3>2. Round(r, later) = stop
      BY <1>5, <2>5, RoundOutcome DEF stop
    <3> QED
      BY <1>6, <2>4, <3>1, <3>2
  <2>6. CASE Len(r) >= PrefixLen
    <3>1. /\ LengthIn(r) = s
          /\ Len(r) >= PrefixLen + s => SubSeq(r, PrefixLen + 1, PrefixLen + s) = m
      BY <1>1, <2>1, <2>2, <2>6, PieceOfMessage
    <3>2. CASE OverCap(s)
      <4>1. PICK d : d = Round(r, later)
        OBVIOUS
      <4>2. d = [msgs |-> << >>, rest |-> r, over |-> TRUE]
        BY <1>5, <2>6, <3>1, <3>2, <4>1, RoundOutcome
      <4>3. d.over = TRUE
        BY <4>2
      <4>4. k + 1 \in 1 .. Len(c) /\ Len(c[k + 1]) > MaxSize
        BY <1>1, <2>1, <2>2, <3>2 DEF OverCap
      <4>5. TooLong(c)
        BY <4>4 DEF TooLong
      <4> QED
        BY <4>1, <4>3, <4>5 DEF Cut
    <3>3. CASE ~OverCap(s) /\ Len(r) < PrefixLen + s
      <4>1. n < Place(c, k + 1)
        BY <1>3, <1>4, <1>5, <2>3, <3>3
      <4>2. Round(r, later) = stop
        BY <1>5, <2>6, <3>1, <3>3, RoundOutcome DEF stop
      <4> QED
        BY <1>6, <2>4, <4>1, <4>2
    <3>4. CASE ~OverCap(s) /\ ~(Len(r) < PrefixLen + s)
      <4>1. Len(r) >= PrefixLen + s /\ Place(c, k + 1) <= n
        <5>1. ~(n - p < PrefixLen + s)
          BY <1>5, <3>4
        <5>2. n - p >= PrefixLen + s /\ p + PrefixLen + s <= n
          <6>1. n \in Nat /\ p \in Nat /\ s \in Nat /\ PrefixLen \in Nat
            BY <1>3, <1>4, <2>3
          <6> QED
            BY <5>1, <6>1
        <5> QED
          BY <1>5, <2>3, <5>2
      <4>2. PICK i, x : i = Len(r) - (PrefixLen + s) /\ x = later[i]
        OBVIOUS
      <4>3. i = n - Place(c, k + 1)
        BY <1>3, <1>4, <1>5, <2>3, <4>2
      <4>4. Cut(c, k + 1, n, x)
        BY <2>1, <4>1, <4>2, <4>3
      <4>5. PICK d : d = Round(r, later)
        OBVIOUS
      <4>6. d = [msgs |-> <<SubSeq(r, PrefixLen + 1, PrefixLen + s)>> \o x.msgs,
                 rest |-> x.rest, over |-> x.over]
        <5>1. Round(r, later) =
                 [msgs |-> <<SubSeq(r, PrefixLen + 1, PrefixLen + s)>> \o
                           later[Len(r) - (PrefixLen + s)].msgs,
                  rest |-> later[Len(r) - (PrefixLen + s)].rest,
                  over |-> later[Len(r) - (PrefixLen + s)].over]
          <6>1. s = LengthIn(r)
            BY <3>1
          <6> QED
            BY <1>5, <2>6, <3>4, <4>1, <6>1, RoundCutsOff, Zenon
        <5> QED
          BY <4>2, <4>5, <5>1, Zenon
      <4>7. d = [msgs |-> <<c[k + 1]>> \o x.msgs, rest |-> x.rest, over |-> x.over]
        BY <2>2, <3>1, <4>1, <4>6
      <4> QED
        BY <1>1, <2>1, <4>4, <4>5, <4>7, CutMessage
    <3> QED
      BY <3>2, <3>3, <3>4
  <2> QED
    BY <1>4, <1>5, <2>3, <2>5, <2>6
<1> QED
  BY <1>7, <1>8

\* The end of a piece of a stream is a piece of the stream.
LEMMA RemainingPiece ==
    ASSUME NEW w \in Seq(Bytes), NEW n \in 0 .. Len(w), NEW p \in 0 .. n, NEW q \in p .. n,
           NEW b, b = SubSeq(w, p + 1, n)
    PROVE  /\ b \in Seq(Bytes) /\ Len(b) = n - p /\ n - q \in 0 .. Len(b)
           /\ Remaining(b, n - q) = SubSeq(w, q + 1, n)
<1>1. Len(w) \in Nat /\ n \in Nat /\ p \in Nat /\ q \in Nat /\ q \in 0 .. n
  OBVIOUS
<1>2. b \in Seq(Bytes) /\ Len(b) = n - p /\ \A i \in 1 .. n - p : b[i] = w[p + i]
  BY PieceFacts
<1>3. n - q \in 0 .. Len(b)
  BY <1>1, <1>2
<1>4. PICK r : r = Remaining(b, n - q)
  OBVIOUS
<1>5. /\ r \in Seq(Bytes) /\ Len(r) = n - q
      /\ \A i \in 1 .. n - q : r[i] = b[Len(b) - (n - q) + i]
  BY <1>2, <1>3, <1>4, RemainingFacts
<1>6. ASSUME NEW i \in 1 .. n - q PROVE r[i] = w[q + i]
  <2>1. PICK j : j = Len(b) - (n - q) + i
    OBVIOUS
  <2>2. j \in 1 .. n - p /\ p + j = q + i
    BY <1>1, <1>2, <2>1
  <2> QED
    BY <1>2, <1>5, <2>1, <2>2
<1>7. r = SubSeq(w, q + 1, n)
  BY <1>1, <1>5, <1>6, PieceIs
<1> QED
  BY <1>2, <1>3, <1>4, <1>7

\* What the loop makes of a piece of a stream that begins with a message.
LEMMA DrainStream ==
    ASSUME NEW c \in Seq(Seq(Bytes)), Fits(c), NEW k \in 0 .. Len(c),
           NEW n \in Place(c, k) .. Len(Wire(c)),
           NEW b, b = SubSeq(Wire(c), Place(c, k) + 1, n)
    PROVE  Cut(c, k, n, Drain(b))
<1>1. PICK w, p, f, len : w = Wire(c) /\ p = Place(c, k) /\ f = Loop(b) /\ len = Len(c)
  OBVIOUS
<1>2. len \in Nat
  BY <1>1
<1>3. /\ w \in Seq(Bytes) /\ Len(w) \in Nat
      /\ \A i \in 0 .. len : Place(c, i) \in Nat /\ Place(c, i) <= Len(w)
  BY <1>1, WireFacts
<1>4. n \in 0 .. Len(w) /\ p \in 0 .. n
  BY <1>1, <1>3
<1>5. b \in Seq(Bytes) /\ Len(b) = n - p
  BY <1>1, <1>3, <1>4, PieceFacts
<1>6. /\ Drain(b) = f[Len(b)]
      /\ \A left \in 0 .. Len(b) : f[left] = Round(Remaining(b, left), f)
  BY <1>1, <1>5, LoopFacts
<1> DEFINE Good(i) == i >= k /\ Place(c, i) <= n => Cut(c, i, n, f[n - Place(c, i)])
           T == {d \in 0 .. len : Good(len - d)}
<1>7. ASSUME NEW i \in 0 .. len, i < len => Good(i + 1) PROVE Good(i)
  <2> SUFFICES ASSUME i >= k, Place(c, i) <= n
               PROVE  Cut(c, i, n, f[n - Place(c, i)])
    OBVIOUS
  <2>1. PICK q : q = Place(c, i)
    OBVIOUS
  <2>2. p <= q
    <3>1. i \in 0 .. Len(c) /\ k \in 0 .. i
      BY <1>1, <1>2
    <3>2. Place(c, i) \in Nat /\ Place(c, k) \in Nat /\ (k < i => Place(c, k) < Place(c, i))
      BY <3>1, SentGrows
    <3>3. k = i \/ k < i
      BY <1>2
    <3> QED
      BY <1>1, <2>1, <3>2, <3>3
  <2>3. q \in Nat /\ q \in p .. n /\ n \in Nat
    BY <1>3, <1>4, <2>1, <2>2
  <2>4. /\ n - q \in 0 .. Len(b)
        /\ Remaining(b, n - q) = SubSeq(w, q + 1, n)
    BY <1>1, <1>3, <1>4, <2>3, RemainingPiece
  <2>5. PICK r : r = SubSeq(w, q + 1, n)
    OBVIOUS
  <2>6. f[n - q] = Round(r, f)
    BY <1>6, <2>4, <2>5
  <2>7. ASSUME i < len, Place(c, i + 1) <= n
        PROVE  Cut(c, i + 1, n, f[n - Place(c, i + 1)])
    <3>1. i + 1 >= k
      BY <1>2
    <3> QED
      BY <1>7, <2>7, <3>1
  <2>8. n \in Place(c, i) .. Len(Wire(c)) /\ i \in 0 .. Len(c)
    BY <1>1, <1>3, <1>4, <2>1, <2>3
  <2>9. Cut(c, i, n, Round(r, f))
    BY <1>1, <2>1, <2>5, <2>7, <2>8, RoundCuts
  <2> QED
    BY <2>1, <2>6, <2>9
<1> HIDE DEF Good
<1>8. T \in SUBSET Nat /\ 0 \in T
  <2>1. len \in 0 .. len /\ len - 0 = len /\ 0 \in 0 .. len
    BY <1>2
  <2>2. Good(len)
    BY <1>7, <2>1
  <2> QED
    BY <1>2, <2>1, <2>2
<1>9. ASSUME NEW d \in 0 .. len - 1, d \in T PROVE d + 1 \in T
  <2>1. PICK i : i = len - (d + 1)
    OBVIOUS
  <2>2. i \in 0 .. len /\ i + 1 = len - d /\ d + 1 \in 0 .. len
    BY <1>2, <2>1
  <2>3. Good(i + 1)
    BY <1>9, <2>2
  <2>4. Good(i)
    BY <1>7, <2>2, <2>3
  <2> QED
    BY <2>1, <2>2, <2>4
<1>10. \A d \in 0 .. len : d \in T
  <2> HIDE DEF T
  <2> QED
    BY <1>2, <1>8, <1>9, InductionUpTo
<1>11. Good(k)
  <2>1. len - k \in 0 .. len /\ len - (len - k) = k
    BY <1>1, <1>2
  <2>2. Good(len - (len - k))
    BY <1>10, <2>1
  <2> QED
    BY <2>1, <2>2
<1>12. k >= k /\ Place(c, k) <= n
  BY <1>1, <1>2, <1>4
<1>13. Cut(c, k, n, f[n - Place(c, k)])
  BY <1>11, <1>12 DEF Good
<1> QED
  BY <1>1, <1>5, <1>6, <1>13

-----------------------------------------------------------------------------
(***************************************************************************)
(* The complete messages, and the messages of the events.                  *)
(***************************************************************************)

\* f and g take the same steps.
Alike(f, g, m) == \A i \in 1 .. m : f[i - 1] = g[i - 1] => f[i] = g[i]

\* Functions that are computed in the same way are the same.
LEMMA AgreeUpTo ==
    ASSUME NEW m \in Nat, NEW f, NEW g, f[0] = g[0], Alike(f, g, m)
    PROVE  \A i \in 0 .. m : f[i] = g[i]
<1> DEFINE T == {i \in 0 .. m : f[i] = g[i]}
<1>1. T \in SUBSET Nat /\ 0 \in T
  OBVIOUS
<1>2. ASSUME NEW j \in 0 .. m - 1, j \in T PROVE j + 1 \in T
  <2>1. PICK k : k = j + 1
    OBVIOUS
  <2>2. k \in 1 .. m /\ k - 1 = j /\ k \in 0 .. m
    BY <2>1
  <2>3. f[k - 1] = g[k - 1]
    BY <1>2, <2>2
  <2>4. f[k] = g[k]
    BY <2>2, <2>3 DEF Alike
  <2> QED
    BY <2>1, <2>2, <2>4
<1>3. \A i \in 0 .. m : i \in T
  <2> HIDE DEF T
  <2> QED
    BY <1>1, <1>2, InductionUpTo
<1> QED
  BY <1>3

\* The first messages, and their bytes.
LEMMA WireOfFirst ==
    ASSUME NEW c \in Seq(Seq(Bytes)), NEW k \in 0 .. Len(c)
    PROVE  /\ SubSeq(c, 1, k) \in Seq(Seq(Bytes)) /\ Len(SubSeq(c, 1, k)) = k
           /\ Wire(SubSeq(c, 1, k)) = Sent(c)[k]
<1>1. PICK q : q = SubSeq(c, 1, k)
  OBVIOUS
<1>2. q \in Seq(Seq(Bytes)) /\ Len(q) = k /\ \A i \in 1 .. k : q[i] = c[i]
  <2>1. 0 \in 0 .. k /\ k - 0 = k /\ 0 + 1 = 1 /\ \A i \in 1 .. k : 0 + i = i
    OBVIOUS
  <2>2. /\ SubSeq(c, 0 + 1, k) \in Seq(Seq(Bytes))
        /\ Len(SubSeq(c, 0 + 1, k)) = k - 0
        /\ \A i \in 1 .. k - 0 : SubSeq(c, 0 + 1, k)[i] = c[0 + i]
    BY <2>1, PieceFacts
  <2> QED
    BY <1>1, <2>1, <2>2
<1>3. PICK f, g : f = Sent(q) /\ g = Sent(c)
  OBVIOUS
<1>4. /\ Wire(q) = f[k] /\ f[0] = << >>
      /\ \A i \in 1 .. k : f[i] = f[i - 1] \o Encode(q[i])
  BY <1>2, <1>3, SentFacts
<1>5. g[0] = << >> /\ \A i \in 1 .. Len(c) : g[i] = g[i - 1] \o Encode(c[i])
  BY <1>3, SentFacts
<1>6. k \in Nat /\ \A i \in 1 .. k : i \in 1 .. Len(c)
  OBVIOUS
<1>7. ASSUME NEW i \in 1 .. k, f[i - 1] = g[i - 1] PROVE f[i] = g[i]
  BY <1>2, <1>4, <1>5, <1>6, <1>7, Zenon
<1>8. f[0] = g[0]
  BY <1>4, <1>5
<1>9. \A i \in 0 .. k : f[i] = g[i]
  <2>1. Alike(f, g, k)
    BY <1>7, Zenon DEF Alike
  <2> QED
    BY <1>6, <1>8, <2>1, AgreeUpTo, Zenon
<1>10. f[k] = g[k]
  BY <1>6, <1>9
<1> QED
  BY <1>1, <1>2, <1>3, <1>4, <1>10

\* The complete messages are those before the one the bytes end in.
LEMMA CompleteAre ==
    ASSUME NEW c \in Seq(Seq(Bytes)), NEW k \in 0 .. Len(c), NEW n \in Nat,
           Within(c, k, n)
    PROVE  CompleteWithin(c, n) = SubSeq(c, 1, k)
<1> DEFINE count == {j \in 0 .. Len(c) : Len(Wire(SubSeq(c, 1, j))) <= n}
<1>1. Len(c) \in Nat /\ k \in Nat
  OBVIOUS
<1>2. \A j \in 0 .. Len(c) : Len(Wire(SubSeq(c, 1, j))) = Place(c, j)
  BY WireOfFirst DEF Place
<1>3. k \in count
  BY <1>2 DEF Within
<1>4. ASSUME NEW j \in count PROVE j <= k
  <2> SUFFICES ASSUME j > k PROVE FALSE
    BY <1>1
  <2>1. j \in 0 .. Len(c) /\ Place(c, j) <= n
    BY <1>2
  <2>2. k < Len(c) /\ k + 1 \in 0 .. j
    BY <1>1, <2>1
  <2>3. Place(c, k + 1) > n
    BY <2>2 DEF Within
  <2>4. /\ Place(c, k + 1) \in Nat /\ Place(c, j) \in Nat
        /\ k + 1 < j => Place(c, k + 1) < Place(c, j)
    BY <2>1, <2>2, SentGrows
  <2>5. k + 1 = j \/ k + 1 < j
    BY <1>1, <2>1, <2>2
  <2> QED
    BY <2>1, <2>3, <2>4, <2>5
<1>5. CompleteWithin(c, n) =
         SubSeq(c, 1, CHOOSE i \in count : \A j \in count : j <= i)
  BY DEF CompleteWithin
<1>6. \A i \in count : i \in Nat
  BY <1>1
<1> HIDE DEF count
<1>7. PICK z : z = CHOOSE i \in count : \A j \in count : j <= i
  OBVIOUS
<1>8. z \in count /\ \A j \in count : j <= z
  BY <1>3, <1>4, <1>7
<1>9. z <= k /\ k <= z /\ z \in Nat
  BY <1>3, <1>4, <1>6, <1>8
<1>10. z = k
  BY <1>1, <1>9
<1> QED
  BY <1>5, <1>7, <1>10

\* The events of a stream.
StreamEvents == [message : Seq(Seq(Bytes)), end : BOOLEAN]

IsCollected(f, evs) ==
    f = [i \in 0 .. Len(evs) |-> IF i = 0 THEN << >> ELSE f[i - 1] \o evs[i].message]

Collected(evs) == CHOOSE f : IsCollected(f, evs)

\* The equation of MessagesAt.
LEMMA CollectedFacts ==
    ASSUME NEW evs \in Seq(StreamEvents)
    PROVE  /\ MessagesAt(evs) = Collected(evs)[Len(evs)] /\ Collected(evs)[0] = << >>
           /\ \A i \in 0 .. Len(evs) : Collected(evs)[i] \in Seq(Seq(Bytes))
           /\ \A i \in 1 .. Len(evs) :
                 Collected(evs)[i] = Collected(evs)[i - 1] \o evs[i].message
<1>1. Len(evs) \in Nat
  OBVIOUS
<1>2. PICK p : p = [i \in 1 .. Len(evs) |-> evs[i].message]
  OBVIOUS
<1>3. ASSUME NEW i \in 1 .. Len(evs)
      PROVE  p[i] = evs[i].message /\ p[i] \in Seq(Seq(Bytes))
  <2>1. evs[i] \in StreamEvents
    OBVIOUS
  <2> QED
    BY <1>2, <2>1 DEF StreamEvents
<1>4. ASSUME NEW f
      PROVE  [i \in 0 .. Len(evs) |-> IF i = 0 THEN << >> ELSE f[i - 1] \o evs[i].message] =
             [i \in 0 .. Len(evs) |-> IF i = 0 THEN << >> ELSE f[i - 1] \o p[i]]
  <2>1. ASSUME NEW i \in 0 .. Len(evs)
        PROVE  (IF i = 0 THEN << >> ELSE f[i - 1] \o evs[i].message) =
               (IF i = 0 THEN << >> ELSE f[i - 1] \o p[i])
    <3>1. i = 0 \/ i \in 1 .. Len(evs)
      BY <1>1
    <3> QED
      BY <1>3, <3>1, Zenon
  <2> QED
    BY <2>1, Zenon
<1>5. \A f : IsCollected(f, evs) <=> IsJoin(f, p, Len(evs))
  BY <1>4, Zenon DEF IsCollected, IsJoin
<1>6. PICK g : g = Collected(evs)
  OBVIOUS
<1>7. IsJoin(g, p, Len(evs))
  <2>1. \E f : IsJoin(f, p, Len(evs))
    BY <1>1, <1>3, JoinExists
  <2>2. IsCollected(g, evs)
    BY <1>5, <1>6, <2>1 DEF Collected
  <2> QED
    BY <1>5, <2>2
<1>8. MessagesAt(evs) = g[Len(evs)]
  BY <1>6 DEF MessagesAt, Collected, IsCollected
<1>9. /\ g[0] = << >>
      /\ \A i \in 1 .. Len(evs) : g[i] = g[i - 1] \o p[i]
      /\ \A i \in 0 .. Len(evs) : g[i] \in Seq(Seq(Bytes))
  <2>1. \A i \in 1 .. Len(evs) : p[i] \in Seq(Seq(Bytes))
    BY <1>3
  <2> QED
    BY <1>1, <1>7, <2>1, JoinFacts
<1>10. \A i \in 1 .. Len(evs) : g[i] = g[i - 1] \o evs[i].message
  BY <1>3, <1>9, Zenon
<1> QED
  BY <1>6, <1>8, <1>9, <1>10

\* No events, no messages; one more event adds its message.
LEMMA MessagesAtNone == MessagesAt(<< >>) = << >>
<1>1. << >> \in Seq(StreamEvents) /\ Len(<< >>) = 0
  OBVIOUS
<1> QED
  BY <1>1, CollectedFacts

LEMMA MessagesAtAppend ==
    ASSUME NEW evs \in Seq(StreamEvents), NEW e \in StreamEvents
    PROVE  /\ MessagesAt(evs) \in Seq(Seq(Bytes))
           /\ MessagesAt(Append(evs, e)) = MessagesAt(evs) \o e.message
<1>1. PICK q, n : q = Append(evs, e) /\ n = Len(evs)
  OBVIOUS
<1>2. /\ n \in Nat /\ q \in Seq(StreamEvents) /\ Len(q) = n + 1
      /\ \A i \in 1 .. n : q[i] = evs[i]
      /\ q[n + 1] = e
  BY <1>1
<1>3. PICK f, g : f = Collected(evs) /\ g = Collected(q)
  OBVIOUS
<1>4. /\ MessagesAt(evs) = f[n] /\ f[0] = << >> /\ f[n] \in Seq(Seq(Bytes))
      /\ \A i \in 1 .. n : f[i] = f[i - 1] \o evs[i].message
  <2>1. n \in 0 .. n
    BY <1>2
  <2> QED
    BY <1>1, <1>3, <2>1, CollectedFacts
<1>5. /\ MessagesAt(q) = g[n + 1] /\ g[0] = << >>
      /\ \A i \in 1 .. n + 1 : g[i] = g[i - 1] \o q[i].message
  BY <1>2, <1>3, CollectedFacts
<1>6. ASSUME NEW i \in 1 .. n, f[i - 1] = g[i - 1] PROVE f[i] = g[i]
  <2>1. i \in 1 .. n + 1 /\ q[i] = evs[i]
    BY <1>2
  <2> QED
    BY <1>4, <1>5, <1>6, <2>1, Zenon
<1>7. \A i \in 0 .. n : f[i] = g[i]
  <2>1. Alike(f, g, n)
    BY <1>6, Zenon DEF Alike
  <2>2. f[0] = g[0] /\ n \in Nat
    BY <1>2, <1>4, <1>5
  <2> QED
    BY <2>1, <2>2, AgreeUpTo, Zenon
<1>8. PICK k : k = n + 1
  OBVIOUS
<1>9. k \in 1 .. n + 1 /\ k - 1 = n /\ n \in 0 .. n
  BY <1>2, <1>8
<1>10. g[k] = g[k - 1] \o q[k].message
  BY <1>5, <1>9, Zenon
<1>11. g[k] = f[n] \o e.message
  BY <1>2, <1>7, <1>8, <1>9, <1>10
<1> QED
  BY <1>1, <1>4, <1>5, <1>8, <1>11

-----------------------------------------------------------------------------
(***************************************************************************)
(* The state of a stream between frames.                                   *)
(***************************************************************************)

LEMMA ConcatInSeq ==
    ASSUME NEW S, NEW a \in Seq(S), NEW b \in Seq(S)
    PROVE  a \o b \in Seq(S)
OBVIOUS

\* Two pieces that meet are one piece.
LEMMA JoinPieces ==
    ASSUME NEW S, NEW w \in Seq(S), NEW n \in 0 .. Len(w), NEW q \in 0 .. n,
           NEW p \in 0 .. q
    PROVE  SubSeq(w, p + 1, q) \o SubSeq(w, q + 1, n) = SubSeq(w, p + 1, n)
<1>1. Len(w) \in Nat /\ n \in Nat /\ q \in Nat /\ p \in Nat
  OBVIOUS
<1>2. q \in 0 .. Len(w) /\ p \in 0 .. n
  BY <1>1
<1>3. PICK a, b, r : /\ a = SubSeq(w, p + 1, q) /\ b = SubSeq(w, q + 1, n)
                     /\ r = a \o b
  OBVIOUS
<1>4. a \in Seq(S) /\ Len(a) = q - p /\ \A i \in 1 .. q - p : a[i] = w[p + i]
  BY <1>2, <1>3, PieceFacts
<1>5. b \in Seq(S) /\ Len(b) = n - q /\ \A i \in 1 .. n - q : b[i] = w[q + i]
  BY <1>2, <1>3, PieceFacts
<1>6. IsSeq(a) /\ IsSeq(b)
  BY <1>4, <1>5 DEF IsSeq
<1>7. /\ Len(r) = Len(a) + Len(b)
      /\ \A i \in 1 .. Len(a) : r[i] = a[i]
      /\ \A i \in 1 .. Len(b) : r[Len(a) + i] = b[i]
  <2>1. /\ Len(a \o b) = Len(a) + Len(b)
        /\ \A i \in 1 .. Len(a) : (a \o b)[i] = a[i]
        /\ \A i \in 1 .. Len(b) : (a \o b)[Len(a) + i] = b[i]
    BY <1>6, ConcatFacts
  <2> QED
    BY <1>3, <2>1, Zenon
<1>8. r \in Seq(S)
  <2>1. a \o b \in Seq(S)
    BY <1>4, <1>5, ConcatInSeq, Zenon
  <2> QED
    BY <1>3, <2>1, Zenon
<1>9. Len(r) = n - p
  BY <1>1, <1>4, <1>5, <1>7
<1>10. ASSUME NEW i \in 1 .. n - p PROVE r[i] = w[p + i]
  <2>1. CASE i <= q - p
    <3>1. i \in 1 .. q - p
      BY <1>1, <2>1
    <3> QED
      BY <1>4, <1>7, <3>1
  <2>2. CASE ~(i <= q - p)
    <3>1. PICK j : j = i - (q - p)
      OBVIOUS
    <3>2. j \in 1 .. n - q /\ (q - p) + j = i /\ q + j = p + i
      BY <1>1, <2>2, <3>1
    <3>3. r[Len(a) + j] = b[j] /\ b[j] = w[q + j]
      BY <1>5, <1>7, <3>2
    <3> QED
      BY <1>4, <3>2, <3>3
  <2> QED
    BY <2>1, <2>2
<1>11. r = SubSeq(w, p + 1, n)
  BY <1>2, <1>8, <1>9, <1>10, PieceIs
<1> QED
  BY <1>3, <1>11

\* What was returned and what is still queued, when the first of the queue is
\* returned.
LEMMA HeadAndTail ==
    ASSUME NEW S, NEW a \in Seq(S), NEW m \in Seq(S), m # << >>
    PROVE  /\ Head(m) \in S /\ Tail(m) \in Seq(S) /\ <<Head(m)>> \in Seq(S)
           /\ (a \o <<Head(m)>>) \o Tail(m) = a \o m
           /\ Tail(m) = << >> <=> Len(m) = 1
<1>1. PICK h, t : h = Head(m) /\ t = Tail(m)
  OBVIOUS
<1>2. /\ h \in S /\ t \in Seq(S) /\ Len(m) \in Nat /\ Len(t) = Len(m) - 1
      /\ Len(m) > 0 /\ h = m[1] /\ \A i \in 1 .. Len(m) - 1 : t[i] = m[i + 1]
  BY <1>1
<1>3. <<h>> \in Seq(S) /\ Len(<<h>>) = 1 /\ <<h>>[1] = h
  BY <1>2
<1>4. <<h>> \o t = m
  BY <1>1, <1>2, <1>3
<1>5. (a \o <<h>>) \o t = a \o (<<h>> \o t)
  BY <1>2, <1>3
<1>6. t = << >> <=> Len(m) = 1
  BY <1>2
<1> QED
  BY <1>1, <1>2, <1>3, <1>4, <1>5, <1>6

LEMMA ConcatEmpty ==
    ASSUME NEW S, NEW a \in Seq(S)
    PROVE  a \o << >> = a
OBVIOUS

\* After n bytes of a stream: b is in the buffer, got has been cut off.
Follows(c, n, b, got) ==
    \E k \in 0 .. Len(c) :
        /\ Within(c, k, n)
        /\ b = SubSeq(Wire(c), Place(c, k) + 1, n)
        /\ got = SubSeq(c, 1, k)

\* feed, on the next bytes of a stream.
LEMMA FeedStep ==
    ASSUME NEW c \in Seq(Seq(Bytes)), Fits(c), NEW n \in Nat, NEW k \in Nat,
           n + k <= Len(Wire(c)), NEW b, NEW got, Follows(c, n, b, got),
           NEW d, d = Drain(b \o SubSeq(Wire(c), n + 1, n + k))
    PROVE  /\ d.over \in BOOLEAN /\ (d.over => TooLong(c))
           /\ ~d.over => /\ d.msgs \in Seq(Seq(Bytes))
                         /\ Follows(c, n + k, d.rest, got \o d.msgs)
<1>1. PICK j \in 0 .. Len(c) : /\ Within(c, j, n)
                               /\ b = SubSeq(Wire(c), Place(c, j) + 1, n)
                               /\ got = SubSeq(c, 1, j)
  BY DEF Follows
<1>2. PICK w, p : w = Wire(c) /\ p = Place(c, j)
  OBVIOUS
<1>3. w \in Seq(Bytes) /\ Len(w) \in Nat /\ p \in Nat /\ p <= n
  BY <1>1, <1>2, WireFacts DEF Within
<1>4. /\ n + k \in 0 .. Len(w) /\ n \in 0 .. n + k /\ p \in 0 .. n
      /\ n + k \in p .. Len(w)
  BY <1>2, <1>3
<1>5. PICK x : x = b \o SubSeq(w, n + 1, n + k)
  OBVIOUS
<1>6. x = SubSeq(w, p + 1, n + k)
  BY <1>1, <1>2, <1>3, <1>4, <1>5, JoinPieces
<1>7. Cut(c, j, n + k, Drain(x))
  BY <1>1, <1>2, <1>4, <1>6, DrainStream
<1>8. Cut(c, j, n + k, d)
  BY <1>2, <1>5, <1>7
<1>9. ASSUME ~d.over
      PROVE  d.msgs \in Seq(Seq(Bytes)) /\ Follows(c, n + k, d.rest, got \o d.msgs)
  <2>1. PICK i \in j .. Len(c) :
                     /\ Within(c, i, n + k)
                     /\ d.msgs = SubSeq(c, j + 1, i)
                     /\ d.rest = SubSeq(Wire(c), Place(c, i) + 1, n + k)
    BY <1>8, <1>9 DEF Cut
  <2>2. /\ i \in 0 .. Len(c) /\ j \in 0 .. i /\ 0 \in 0 .. j
    OBVIOUS
  <2>3. d.msgs \in Seq(Seq(Bytes))
    BY <2>1, <2>2, PieceFacts
  <2>4. SubSeq(c, 0 + 1, j) \o SubSeq(c, j + 1, i) = SubSeq(c, 0 + 1, i)
    BY <2>2, JoinPieces
  <2>5. got \o d.msgs = SubSeq(c, 1, i)
    <3>1. SubSeq(c, 1, j) \o SubSeq(c, j + 1, i) = SubSeq(c, 1, i)
      BY <2>4
    <3>2. got = SubSeq(c, 1, j) /\ d.msgs = SubSeq(c, j + 1, i)
      BY <1>1, <2>1, Zenon
    <3> QED
      BY <3>1, <3>2, Zenon
  <2> QED
    BY <2>1, <2>2, <2>3, <2>5 DEF Follows
<1> QED
  BY <1>8, <1>9 DEF Cut

\* No event reports END_STREAM; the last one does, and no other.
NoEnd(evs) == \A i \in 1 .. Len(evs) : ~evs[i].end

EndsLast(evs) ==
    /\ Len(evs) > 0 /\ evs[Len(evs)].end
    /\ \A i \in 1 .. Len(evs) - 1 : ~evs[i].end

\* A stream of which n bytes are in frames, e says whether END_STREAM was
\* among them, b is buffered, evs was returned, q is queued, with END_STREAM
\* if qe.
StreamOK(c, n, e, b, evs, q, qe) ==
    /\ n <= Len(Wire(c))
    /\ e => n = Len(Wire(c))
    /\ Follows(c, n, b, MessagesAt(evs) \o q)
    /\ ~e => NoEnd(evs) /\ (q # << >> => ~qe)
    /\ e /\ q = << >> => EndsLast(evs)
    /\ e /\ q # << >> => NoEnd(evs) /\ qe

\* One more event, without and with END_STREAM.
LEMMA EventAppended ==
    ASSUME NEW evs \in Seq(StreamEvents), NoEnd(evs), NEW e \in StreamEvents
    PROVE  /\ Append(evs, e) \in Seq(StreamEvents)
           /\ ~e.end => NoEnd(Append(evs, e))
           /\ e.end => EndsLast(Append(evs, e))
<1>1. PICK r, n : r = Append(evs, e) /\ n = Len(evs)
  OBVIOUS
<1>2. /\ r \in Seq(StreamEvents) /\ n \in Nat /\ Len(r) = n + 1 /\ r[n + 1] = e
      /\ \A i \in 1 .. n : r[i] = evs[i]
  BY <1>1
<1>3. \A i \in 1 .. n : ~r[i].end
  BY <1>1, <1>2 DEF NoEnd
<1>4. ASSUME ~e.end PROVE NoEnd(r)
  <2> SUFFICES ASSUME NEW i \in 1 .. n + 1 PROVE ~r[i].end
    BY <1>2 DEF NoEnd
  <2>1. i = n + 1 \/ i \in 1 .. n
    BY <1>2
  <2> QED
    BY <1>2, <1>3, <1>4, <2>1
<1>5. ASSUME e.end PROVE EndsLast(r)
  <2>1. Len(r) > 0 /\ Len(r) - 1 = n
    BY <1>2
  <2>2. r[Len(r)].end
    BY <1>2, <1>5
  <2>3. \A i \in 1 .. Len(r) - 1 : ~r[i].end
    BY <1>3, <2>1
  <2> QED
    BY <2>1, <2>2, <2>3 DEF EndsLast
<1> QED
  BY <1>1, <1>2, <1>4, <1>5

\* drainQueued: the first queued message is returned, with END_STREAM if it is
\* the last one.
LEMMA StreamDrains ==
    ASSUME NEW c, NEW n, NEW e \in BOOLEAN, NEW b, NEW evs \in Seq(StreamEvents),
           NEW q \in Seq(Seq(Bytes)), NEW qe \in BOOLEAN, q # << >>,
           StreamOK(c, n, e, b, evs, q, qe),
           NEW last, last = (qe /\ Len(q) = 1)
    PROVE  /\ Append(evs, Event(<<Head(q)>>, last)) \in Seq(StreamEvents)
           /\ Tail(q) \in Seq(Seq(Bytes))
           /\ StreamOK(c, n, e, b, Append(evs, Event(<<Head(q)>>, last)), Tail(q), qe)
<1>1. PICK h, t, ev, r : /\ h = Head(q) /\ t = Tail(q) /\ ev = Event(<<h>>, last)
                         /\ r = Append(evs, ev)
  OBVIOUS
<1>2. MessagesAt(evs) \in Seq(Seq(Bytes))
  <2>1. \E x : x \in StreamEvents
    <3>1. [message |-> << >>, end |-> TRUE] \in StreamEvents
      BY DEF StreamEvents
    <3> QED
      BY <3>1
  <2> QED
    BY <2>1, MessagesAtAppend
<1>3. /\ <<h>> \in Seq(Seq(Bytes)) /\ t \in Seq(Seq(Bytes))
      /\ (MessagesAt(evs) \o <<h>>) \o t = MessagesAt(evs) \o q
      /\ t = << >> <=> Len(q) = 1
  <2>1. PICK a : a = MessagesAt(evs)
    OBVIOUS
  <2>2. /\ <<Head(q)>> \in Seq(Seq(Bytes)) /\ Tail(q) \in Seq(Seq(Bytes))
        /\ (a \o <<Head(q)>>) \o Tail(q) = a \o q
        /\ Tail(q) = << >> <=> Len(q) = 1
    BY <1>2, <2>1, HeadAndTail
  <2> QED
    BY <1>1, <2>1, <2>2, Zenon
<1>4. last \in BOOLEAN
  OBVIOUS
<1>5. ev \in StreamEvents /\ ev.message = <<h>> /\ ev.end = last
  BY <1>1, <1>3, <1>4 DEF Event, StreamEvents
<1>6. MessagesAt(r) = MessagesAt(evs) \o <<h>>
  BY <1>1, <1>5, MessagesAtAppend
<1>7. MessagesAt(r) \o t = MessagesAt(evs) \o q
  BY <1>3, <1>6
<1>8. NoEnd(evs) /\ (e <=> qe)
  BY DEF StreamOK
<1>9. /\ r \in Seq(StreamEvents) /\ (~last => NoEnd(r)) /\ (last => EndsLast(r))
  BY <1>1, <1>5, <1>8, EventAppended
<1>10. last <=> e /\ t = << >>
  BY <1>3, <1>8
<1>11. /\ n <= Len(Wire(c)) /\ (e => n = Len(Wire(c)))
       /\ Follows(c, n, b, MessagesAt(r) \o t)
  BY <1>7 DEF StreamOK
<1>12. StreamOK(c, n, e, b, r, t, qe)
  BY <1>8, <1>9, <1>10, <1>11, Zenon DEF StreamOK
<1> QED
  BY <1>1, <1>3, <1>9, <1>12

\* END_STREAM is on the frame that ends with byte n only if it is the last.
EndsHere(end, n, c) == end => n = Len(Wire(c))

\* What feed has done when the first n bytes of a stream are in frames.
Fed(c, n, end, evs, d) ==
    /\ d.over \in BOOLEAN /\ (d.over => TooLong(c))
    /\ ~d.over =>
          /\ d.msgs \in Seq(Seq(Bytes))
          /\ Follows(c, n, d.rest, MessagesAt(evs) \o d.msgs)
          /\ d.msgs # << >> => StreamOK(c, n, end, d.rest, evs, d.msgs, end)
          /\ NoEnd(evs) /\ MessagesAt(evs) \in Seq(Seq(Bytes))

\* A DATA frame of a stream with nothing queued: what was cut off is queued.
LEMMA StreamFed ==
    ASSUME NEW c \in Seq(Seq(Bytes)), Fits(c), NEW n \in Nat, NEW k \in Nat,
           n + k <= Len(Wire(c)), NEW end \in BOOLEAN, EndsHere(end, n + k, c),
           NEW b, NEW evs \in Seq(StreamEvents), NEW qe,
           StreamOK(c, n, FALSE, b, evs, << >>, qe),
           NEW d, d = Drain(b \o SubSeq(Wire(c), n + 1, n + k))
    PROVE  Fed(c, n + k, end, evs, d)
<1>1. Follows(c, n, b, MessagesAt(evs) \o << >>) /\ NoEnd(evs)
  BY DEF StreamOK
<1>2. MessagesAt(evs) \in Seq(Seq(Bytes))
  <2>1. \E x : x \in StreamEvents
    <3>1. [message |-> << >>, end |-> TRUE] \in StreamEvents
      BY DEF StreamEvents
    <3> QED
      BY <3>1
  <2> QED
    BY <2>1, MessagesAtAppend
<1>3. PICK got : got = MessagesAt(evs)
  OBVIOUS
<1>4. Follows(c, n, b, got)
  BY <1>1, <1>2, <1>3, ConcatEmpty
<1>5. /\ d.over \in BOOLEAN /\ (d.over => TooLong(c))
      /\ ~d.over => /\ d.msgs \in Seq(Seq(Bytes))
                    /\ Follows(c, n + k, d.rest, got \o d.msgs)
  BY <1>4, FeedStep
<1>6. ASSUME ~d.over, d.msgs # << >>
      PROVE  StreamOK(c, n + k, end, d.rest, evs, d.msgs, end)
  BY <1>1, <1>3, <1>5, <1>6, Zenon DEF StreamOK, EndsHere
<1> QED
  BY <1>1, <1>2, <1>3, <1>5, <1>6 DEF Fed

-----------------------------------------------------------------------------
(***************************************************************************)
(* The inductive invariant.                                                *)
(***************************************************************************)
QueueType ==
    /\ queued = [id |-> queued.id, msgs |-> queued.msgs, end |-> queued.end]
    /\ queued.msgs \in Seq(Seq(Bytes)) /\ queued.end \in BOOLEAN
    /\ queued.msgs # << >> => queued.id \in Ids

TypeInv ==
    /\ conversation \in [Ids -> Conversations]
    /\ framed \in [Ids -> Nat]
    /\ ended \in [Ids -> BOOLEAN]
    /\ buf = [id \in Ids |-> buf[id]]
    /\ QueueType
    /\ events \in [Ids -> Seq(StreamEvents)]
    /\ failed \in BOOLEAN

\* As long as the decoder has not failed, every stream is in a good state.
TapInv ==
    receiver = "tap" /\ ~failed =>
        \A id \in Ids :
            StreamOK(conversation[id], framed[id], ended[id], buf[id], events[id],
                     Queued(id), queued.end)

IndInv == TypeInv /\ TapInv /\ FailsOnlyOverCap

LEMMA ConversationFacts ==
    ASSUME NEW c \in Conversations
    PROVE  c \in Seq(Seq(Bytes)) /\ Fits(c)
<1>1. c \in Seq(Seq(Bytes))
  BY Parameters
<1>2. DOMAIN c = 1 .. Len(c)
  BY <1>1
<1>3. \A i \in DOMAIN c : Shifted(Len(c[i]))[LengthDigits] = 0
  BY DemuxAssumption
<1> QED
  BY <1>1, <1>2, <1>3 DEF Fits

\* At first nothing of any stream is in frames.
LEMMA StreamInitially ==
    ASSUME NEW c \in Seq(Seq(Bytes)), NEW qe
    PROVE  StreamOK(c, 0, FALSE, << >>, << >>, << >>, qe)
<1>1. Len(c) \in Nat /\ 0 \in 0 .. Len(c)
  OBVIOUS
<1>2. Place(c, 0) = 0 /\ Wire(c) \in Seq(Bytes) /\ Len(Wire(c)) \in Nat
  BY <1>1, WireFacts
<1>3. Within(c, 0, 0)
  <2>1. ASSUME 0 < Len(c) PROVE 0 < Place(c, 0 + 1)
    <3>1. 0 + 1 \in 0 .. Len(c) /\ 0 \in 0 .. 0 + 1 /\ 0 < 0 + 1
      BY <1>1, <2>1
    <3>2. Place(c, 0) < Place(c, 0 + 1)
      BY <3>1, SentGrows
    <3> QED
      BY <1>2, <3>2
  <2> QED
    BY <1>2, <2>1 DEF Within
<1>4. SubSeq(Wire(c), Place(c, 0) + 1, 0) = << >>
  <2>1. 0 \in 0 .. Len(Wire(c)) /\ 0 \in 0 .. 0 /\ 0 - 0 = 0
    BY <1>2
  <2>2. PICK s : s = SubSeq(Wire(c), 0 + 1, 0)
    OBVIOUS
  <2>3. s \in Seq(Bytes) /\ Len(s) = 0
    BY <1>2, <2>1, <2>2, PieceFacts
  <2>4. s = << >>
    BY <2>3
  <2> QED
    BY <1>2, <2>2, <2>4
<1>5. SubSeq(c, 1, 0) = << >>
  <2>1. PICK s : s = SubSeq(c, 1, 0)
    OBVIOUS
  <2>2. s \in Seq(Seq(Bytes)) /\ Len(s) = 0
    BY <1>1, <2>1, WireOfFirst
  <2> QED
    BY <2>1, <2>2
<1>6. MessagesAt(<< >>) \o << >> = << >>
  BY MessagesAtNone
<1>7. Follows(c, 0, << >>, MessagesAt(<< >>) \o << >>)
  BY <1>1, <1>3, <1>4, <1>5, <1>6, Zenon DEF Follows
<1>8. NoEnd(<< >>) /\ 0 <= Len(Wire(c))
  BY <1>2 DEF NoEnd
<1> QED
  BY <1>7, <1>8 DEF StreamOK

LEMMA InitHolds == Init => IndInv
<1> SUFFICES ASSUME Init PROVE IndInv
  OBVIOUS
<1>1. TypeInv
  <2>1. QueueType
    <3>1. queued = [id |-> CHOOSE id \in Ids : TRUE, msgs |-> << >>, end |-> FALSE]
      BY DEF Init, NoneQueued
    <3>2. queued.msgs = << >> /\ queued.end = FALSE
      BY <3>1
    <3> QED
      BY <3>1, <3>2 DEF QueueType
  <2>2. << >> \in Seq(StreamEvents)
    OBVIOUS
  <2> QED
    BY <2>1, <2>2 DEF Init, TypeInv
<1>2. ASSUME NEW id \in Ids
      PROVE  StreamOK(conversation[id], framed[id], ended[id], buf[id], events[id],
                      Queued(id), queued.end)
  <2>1. /\ framed[id] = 0 /\ ended[id] = FALSE /\ buf[id] = << >> /\ events[id] = << >>
        /\ queued.msgs = << >>
    BY DEF Init, NoneQueued
  <2>2. Queued(id) = << >>
    BY <2>1 DEF Queued
  <2>3. conversation[id] \in Seq(Seq(Bytes))
    BY <1>1, ConversationFacts DEF TypeInv
  <2>4. StreamOK(conversation[id], 0, FALSE, << >>, << >>, << >>, queued.end)
    BY <2>3, StreamInitially
  <2> QED
    BY <2>1, <2>2, <2>4
<1>3. FailsOnlyOverCap
  BY DEF Init, FailsOnlyOverCap
<1> QED
  BY <1>1, <1>2, <1>3 DEF IndInv, TapInv

\* A stream with nothing queued does not care what is queued with END_STREAM.
LEMMA StreamUnqueued ==
    ASSUME NEW c, NEW n, NEW e, NEW b, NEW evs, NEW qe, NEW qf,
           StreamOK(c, n, e, b, evs, << >>, qe)
    PROVE  StreamOK(c, n, e, b, evs, << >>, qf)
BY Zenon DEF StreamOK

-----------------------------------------------------------------------------
(***************************************************************************)
(* Every step keeps the invariant.                                         *)
(***************************************************************************)

\* What next does with the messages of a DATA frame.
Returned(id, d, end) ==
    \/ /\ d.over \/ (d.msgs = << >> /\ ~end)
       /\ queued' = queued /\ events' = events
    \/ /\ ~d.over /\ d.msgs = << >> /\ end /\ queued' = queued
       /\ events' = [events EXCEPT ![id] = Append(@, Event(<< >>, TRUE))]
    \/ /\ ~d.over /\ d.msgs # << >>
       /\ queued' = [id |-> id, msgs |-> Tail(d.msgs), end |-> end]
       /\ events' = [events EXCEPT ![id] =
                        Append(@, Event(<<Head(d.msgs)>>, end /\ Len(d.msgs) = 1))]

LEMMA NextDataDoes ==
    ASSUME NEW id \in Ids, NEW k, NEW end \in BOOLEAN, NextData(id, k, end),
           NEW d, d = Drain(buf[id] \o SubSeq(Wire(conversation[id]), framed[id] + 1,
                                              framed[id] + k))
    PROVE  /\ receiver = "tap" /\ queued.msgs = << >> /\ ~failed /\ ~ended[id]
           /\ framed[id] + k <= Len(Wire(conversation[id]))
           /\ EndsHere(end, framed[id] + k, conversation[id])
           /\ receiver' = receiver /\ conversation' = conversation
           /\ framed' = [framed EXCEPT ![id] = @ + k]
           /\ ended' = [ended EXCEPT ![id] = end]
           /\ buf' = [buf EXCEPT ![id] = d.rest] /\ failed' = d.over
           /\ Returned(id, d, end)
<1>1. d = Drain(buf[id] \o Payload(id, k))
  BY DEF Payload
<1>2. /\ receiver = "tap" /\ queued.msgs = << >>
      /\ Frame(id, k, end) /\ EndStream(id, end)
      /\ buf' = [buf EXCEPT ![id] = d.rest] /\ failed' = d.over
  BY <1>1, Zenon DEF NextData
<1>3. IF d.over \/ (d.msgs = << >> /\ ~end) THEN UNCHANGED <<queued, events>>
      ELSE IF d.msgs = << >>
      THEN /\ events' = [events EXCEPT ![id] = Append(@, Event(<< >>, TRUE))]
           /\ UNCHANGED queued
      ELSE /\ queued' = [id |-> id, msgs |-> Tail(d.msgs), end |-> end]
           /\ events' = [events EXCEPT ![id] =
                            Append(@, Event(<<Head(d.msgs)>>,
                                            end /\ Len(d.msgs) = 1))]
  BY <1>1, Zenon DEF NextData
<1>4. Returned(id, d, end)
  BY <1>3, Zenon DEF Returned
<1> QED
  BY <1>2, <1>4, Zenon DEF Frame, EndStream, EndsHere

\* A DATA frame on its stream: the four outcomes.
LEMMA StreamTakesFrame ==
    ASSUME TypeInv, TapInv, NEW id \in Ids, NEW k \in Nat, NEW end \in BOOLEAN,
           receiver = "tap", ~failed, ~ended[id], queued.msgs = << >>,
           framed[id] + k <= Len(Wire(conversation[id])),
           EndsHere(end, framed[id] + k, conversation[id]),
           NEW d, d = Drain(buf[id] \o SubSeq(Wire(conversation[id]), framed[id] + 1,
                                              framed[id] + k)),
           Returned(id, d, end)
    PROVE  /\ d.over \in BOOLEAN /\ (d.over => TooLong(conversation[id]))
           /\ QueueType' /\ events' \in [Ids -> Seq(StreamEvents)]
           /\ \A i \in Ids \ {id} : Queued(i)' = << >> /\ events'[i] = events[i]
           /\ ~d.over => StreamOK(conversation[id], framed[id] + k, end, d.rest,
                                  events'[id], Queued(id)', queued'.end)
<1>1. PICK c, n, b, evs : /\ c = conversation[id] /\ n = framed[id] /\ b = buf[id]
                          /\ evs = events[id]
  OBVIOUS
<1>2. /\ c \in Seq(Seq(Bytes)) /\ Fits(c) /\ n \in Nat /\ evs \in Seq(StreamEvents)
      /\ events \in [Ids -> Seq(StreamEvents)] /\ QueueType /\ ended[id] = FALSE
  BY <1>1, ConversationFacts DEF TypeInv
<1>3. Queued(id) = << >>
  BY DEF Queued
<1>4. StreamOK(c, n, FALSE, b, evs, << >>, queued.end)
  <2>1. StreamOK(conversation[id], framed[id], ended[id], buf[id], events[id],
                 Queued(id), queued.end)
    BY DEF TapInv
  <2> QED
    BY <1>1, <1>2, <1>3, <2>1
<1>5. /\ d.over \in BOOLEAN /\ (d.over => TooLong(c))
      /\ ~d.over =>
            /\ d.msgs \in Seq(Seq(Bytes))
            /\ Follows(c, n + k, d.rest, MessagesAt(evs) \o d.msgs)
            /\ d.msgs # << >> => StreamOK(c, n + k, end, d.rest, evs, d.msgs, end)
            /\ NoEnd(evs) /\ MessagesAt(evs) \in Seq(Seq(Bytes))
  <2>1. n + k <= Len(Wire(c))
    BY <1>1
  <2>2. EndsHere(end, n + k, c)
    BY <1>1, Zenon
  <2>3. d = Drain(b \o SubSeq(Wire(c), n + 1, n + k))
    BY <1>1, Zenon
  <2>4. Fed(c, n + k, end, evs, d)
    BY <1>2, <1>4, <2>1, <2>2, <2>3, StreamFed
  <2> QED
    BY <2>4 DEF Fed
<1>6. CASE d.over \/ (d.msgs = << >> /\ ~end)
  <2>1. queued' = queued /\ events' = events
    BY <1>5, <1>6 DEF Returned
  <2>2. \A i \in Ids : Queued(i)' = << >>
    BY <2>1 DEF Queued
  <2>3. QueueType'
    BY <1>2, <2>1 DEF QueueType
  <2>4. ASSUME ~d.over
        PROVE  StreamOK(c, n + k, end, d.rest, events'[id], Queued(id)', queued'.end)
    <3>1. d.msgs = << >> /\ end = FALSE
      BY <1>6, <2>4
    <3>2. Follows(c, n + k, d.rest, MessagesAt(evs) \o << >>) /\ NoEnd(evs)
      BY <1>5, <2>4, <3>1
    <3>3. n + k <= Len(Wire(c))
      BY <1>1
    <3>4. StreamOK(c, n + k, FALSE, d.rest, evs, << >>, queued'.end)
      BY <3>2, <3>3, Zenon DEF StreamOK
    <3> QED
      BY <1>1, <2>1, <2>2, <3>1, <3>4
  <2> QED
    BY <1>1, <1>2, <1>5, <2>1, <2>2, <2>3, <2>4
<1>7. CASE ~d.over /\ d.msgs = << >> /\ end
  <2>1. PICK ev, r : ev = Event(<< >>, TRUE) /\ r = Append(evs, ev)
    OBVIOUS
  <2>2. queued' = queued /\ events' = [events EXCEPT ![id] = r]
    BY <1>1, <1>7, <2>1 DEF Returned
  <2>3. \A i \in Ids : Queued(i)' = << >>
    BY <2>2 DEF Queued
  <2>4. QueueType'
    BY <1>2, <2>2 DEF QueueType
  <2>5. ev \in StreamEvents /\ ev.message = << >> /\ ev.end = TRUE
    BY <2>1 DEF Event, StreamEvents
  <2>6. r \in Seq(StreamEvents) /\ EndsLast(r)
    BY <1>2, <1>5, <1>7, <2>1, <2>5, EventAppended
  <2>7. MessagesAt(r) = MessagesAt(evs) \o << >>
    BY <1>2, <2>1, <2>5, MessagesAtAppend
  <2>8. MessagesAt(r) \o << >> = MessagesAt(evs) \o << >>
    BY <1>5, <1>7, <2>7, ConcatEmpty
  <2>9. Follows(c, n + k, d.rest, MessagesAt(r) \o << >>)
    BY <1>5, <1>7, <2>8
  <2>10. n + k <= Len(Wire(c)) /\ n + k = Len(Wire(c)) /\ end = TRUE
    BY <1>1, <1>7 DEF EndsHere
  <2>11. StreamOK(c, n + k, TRUE, d.rest, r, << >>, queued'.end)
    BY <2>6, <2>9, <2>10, Zenon DEF StreamOK
  <2>12. events' \in [Ids -> Seq(StreamEvents)] /\ events'[id] = r
    BY <1>2, <2>2, <2>6
  <2>13. \A i \in Ids \ {id} : events'[i] = events[i]
    BY <1>2, <2>2
  <2>14. StreamOK(c, n + k, end, d.rest, events'[id], Queued(id)', queued'.end)
    BY <2>3, <2>10, <2>11, <2>12
  <2> QED
    BY <1>1, <1>5, <2>3, <2>4, <2>12, <2>13, <2>14
<1>8. CASE ~d.over /\ d.msgs # << >>
  <2>1. PICK m, last, r : /\ m = d.msgs /\ last = (end /\ Len(m) = 1)
                          /\ r = Append(evs, Event(<<Head(m)>>, last))
    OBVIOUS
  <2>2. /\ queued' = [id |-> id, msgs |-> Tail(m), end |-> end]
        /\ events' = [events EXCEPT ![id] = r]
    BY <1>1, <1>8, <2>1, Zenon DEF Returned
  <2>3. m \in Seq(Seq(Bytes)) /\ m # << >> /\ StreamOK(c, n + k, end, d.rest, evs, m, end)
    BY <1>5, <1>8, <2>1
  <2>4. /\ r \in Seq(StreamEvents) /\ Tail(m) \in Seq(Seq(Bytes))
        /\ StreamOK(c, n + k, end, d.rest, r, Tail(m), end)
    BY <1>2, <2>1, <2>3, StreamDrains
  <2>5. queued'.id = id /\ queued'.msgs = Tail(m) /\ queued'.end = end
    BY <2>2
  <2>6. QueueType'
    BY <2>2, <2>4, <2>5 DEF QueueType
  <2>7. Queued(id)' = Tail(m)
    BY <2>5 DEF Queued
  <2>8. \A i \in Ids \ {id} : Queued(i)' = << >>
    BY <2>5 DEF Queued
  <2>9. events' \in [Ids -> Seq(StreamEvents)] /\ events'[id] = r
    BY <1>2, <2>2, <2>4
  <2>10. \A i \in Ids \ {id} : events'[i] = events[i]
    BY <1>2, <2>2
  <2>11. StreamOK(c, n + k, end, d.rest, events'[id], Queued(id)', queued'.end)
    BY <2>4, <2>5, <2>7, <2>9
  <2> QED
    BY <1>1, <1>5, <2>6, <2>8, <2>9, <2>10, <2>11
<1> QED
  BY <1>5, <1>6, <1>7, <1>8

\* next on a DATA frame.
LEMMA NextDataKeeps ==
    ASSUME IndInv, NEW id \in Ids, NEW k \in Nat, NEW end \in BOOLEAN,
           NextData(id, k, end)
    PROVE  IndInv'
<1>1. TypeInv /\ TapInv
  BY DEF IndInv
<1>2. PICK d : d = Drain(buf[id] \o SubSeq(Wire(conversation[id]), framed[id] + 1,
                                           framed[id] + k))
  OBVIOUS
<1>3. /\ receiver = "tap" /\ queued.msgs = << >> /\ ~failed /\ ~ended[id]
      /\ framed[id] + k <= Len(Wire(conversation[id]))
      /\ EndsHere(end, framed[id] + k, conversation[id])
      /\ receiver' = receiver /\ conversation' = conversation
      /\ framed' = [framed EXCEPT ![id] = @ + k]
      /\ ended' = [ended EXCEPT ![id] = end]
      /\ buf' = [buf EXCEPT ![id] = d.rest] /\ failed' = d.over
      /\ Returned(id, d, end)
  BY <1>2, NextDataDoes
<1>4. /\ d.over \in BOOLEAN /\ (d.over => TooLong(conversation[id]))
      /\ QueueType' /\ events' \in [Ids -> Seq(StreamEvents)]
      /\ \A i \in Ids \ {id} : Queued(i)' = << >> /\ events'[i] = events[i]
      /\ ~d.over => StreamOK(conversation[id], framed[id] + k, end, d.rest,
                             events'[id], Queued(id)', queued'.end)
  BY <1>1, <1>2, <1>3, StreamTakesFrame
<1>5. TypeInv'
  <2>1. /\ conversation \in [Ids -> Conversations] /\ framed \in [Ids -> Nat]
        /\ ended \in [Ids -> BOOLEAN] /\ buf = [i \in Ids |-> buf[i]]
    BY <1>1 DEF TypeInv
  <2>2. framed' \in [Ids -> Nat]
    <3>1. framed[id] + k \in Nat
      BY <2>1
    <3> QED
      BY <1>3, <2>1, <3>1
  <2>3. ended' \in [Ids -> BOOLEAN]
    BY <1>3, <2>1
  <2>4. buf' = [i \in Ids |-> buf'[i]]
    BY <1>3, <2>1
  <2> QED
    BY <1>3, <1>4, <2>1, <2>2, <2>3, <2>4 DEF TypeInv
<1>6. ASSUME ~failed', NEW i \in Ids
      PROVE  StreamOK(conversation'[i], framed'[i], ended'[i], buf'[i], events'[i],
                      Queued(i)', queued'.end)
  <2>1. ~d.over
    BY <1>3, <1>6
  <2>2. CASE i = id
    <3>1. /\ conversation'[i] = conversation[id] /\ framed'[i] = framed[id] + k
          /\ ended'[i] = end /\ buf'[i] = d.rest
      BY <1>1, <1>3, <2>2 DEF TypeInv
    <3> QED
      BY <1>4, <2>1, <2>2, <3>1
  <2>3. CASE i # id
    <3>1. /\ conversation'[i] = conversation[i] /\ framed'[i] = framed[i]
          /\ ended'[i] = ended[i] /\ buf'[i] = buf[i]
      BY <1>1, <1>3, <2>3 DEF TypeInv
    <3>2. Queued(i)' = << >> /\ events'[i] = events[i]
      BY <1>4, <2>3
    <3>3. Queued(i) = << >>
      BY <1>3 DEF Queued
    <3>4. StreamOK(conversation[i], framed[i], ended[i], buf[i], events[i], Queued(i),
                   queued.end)
      BY <1>1, <1>3 DEF TapInv
    <3>5. StreamOK(conversation[i], framed[i], ended[i], buf[i], events[i], << >>,
                   queued'.end)
      BY <3>3, <3>4, StreamUnqueued
    <3> QED
      BY <3>1, <3>2, <3>5
  <2> QED
    BY <2>2, <2>3
<1>7. TapInv'
  BY <1>6 DEF TapInv
<1>8. FailsOnlyOverCap'
  <2> SUFFICES ASSUME failed' PROVE FailsOnlyOverCap'
    BY DEF FailsOnlyOverCap
  <2>1. TooLong(conversation[id])
    BY <1>3, <1>4
  <2>2. conversation[id] \in Seq(Seq(Bytes))
    BY <1>1, ConversationFacts DEF TypeInv
  <2>3. \E i \in DOMAIN conversation[id] : Len(conversation[id][i]) > MaxSize
    BY <2>1, <2>2 DEF TooLong
  <2> QED
    BY <1>3, <2>3 DEF FailsOnlyOverCap
<1> QED
  BY <1>5, <1>7, <1>8 DEF IndInv

\* drainQueued.
LEMMA DrainQueuedKeeps ==
    ASSUME IndInv, DrainQueued
    PROVE  IndInv'
<1>1. TypeInv /\ TapInv /\ FailsOnlyOverCap
  BY DEF IndInv
<1>2. PICK id, q, qe, last : /\ id = queued.id /\ q = queued.msgs /\ qe = queued.end
                             /\ last = (qe /\ Len(q) = 1)
  OBVIOUS
<1>3. /\ id \in Ids /\ q \in Seq(Seq(Bytes)) /\ qe \in BOOLEAN /\ q # << >>
      /\ queued = [id |-> id, msgs |-> q, end |-> qe]
      /\ events \in [Ids -> Seq(StreamEvents)] /\ ended \in [Ids -> BOOLEAN]
  BY <1>1, <1>2 DEF TypeInv, QueueType, DrainQueued
<1>4. PICK r : r = Append(events[id], Event(<<Head(q)>>, last))
  OBVIOUS
<1>5. /\ queued' = [queued EXCEPT !.msgs = Tail(@)]
      /\ events' = [events EXCEPT ![id] = r]
      /\ UNCHANGED <<receiver, conversation, framed, ended, buf, buffered, failed>>
  BY <1>2, <1>4, Zenon DEF DrainQueued
<1>6. queued' = [id |-> id, msgs |-> Tail(q), end |-> qe]
  BY <1>2, <1>3, <1>5
<1>7. queued'.id = id /\ queued'.msgs = Tail(q) /\ queued'.end = qe
  BY <1>6
<1>8. r \in Seq(StreamEvents) /\ Tail(q) \in Seq(Seq(Bytes))
  <2>1. PICK h, ev : h = Head(q) /\ ev = Event(<<h>>, last)
    OBVIOUS
  <2>2. h \in Seq(Bytes) /\ Tail(q) \in Seq(Seq(Bytes))
    BY <1>3, <2>1
  <2>3. ev \in StreamEvents
    <3>1. last \in BOOLEAN /\ <<h>> \in Seq(Seq(Bytes))
      BY <1>2, <2>2
    <3> QED
      BY <2>1, <3>1 DEF Event, StreamEvents
  <2>4. events[id] \in Seq(StreamEvents)
    BY <1>3
  <2> QED
    BY <1>4, <2>1, <2>2, <2>3, <2>4
<1>9. TypeInv'
  <2>1. QueueType'
    BY <1>3, <1>6, <1>7, <1>8 DEF QueueType
  <2>2. events' \in [Ids -> Seq(StreamEvents)]
    BY <1>3, <1>5, <1>8
  <2> QED
    BY <1>1, <1>5, <2>1, <2>2 DEF TypeInv
<1>10. ASSUME receiver = "tap", ~failed, NEW i \in Ids
       PROVE  StreamOK(conversation[i], framed[i], ended[i], buf[i], events'[i],
                       Queued(i)', queued'.end)
  <2>1. StreamOK(conversation[i], framed[i], ended[i], buf[i], events[i], Queued(i),
                 queued.end)
    BY <1>1, <1>10 DEF TapInv
  <2>2. CASE i = id
    <3>1. Queued(i) = q
      BY <1>2, <1>3, <2>2 DEF Queued
    <3>2. Queued(i)' = Tail(q)
      BY <1>7, <2>2 DEF Queued
    <3>3. events'[i] = r
      BY <1>3, <1>5, <2>2
    <3>4. PICK c, n, e, b, evs :
             /\ c = conversation[i] /\ n = framed[i] /\ e = ended[i] /\ b = buf[i]
             /\ evs = events[i]
      OBVIOUS
    <3>5. e \in BOOLEAN /\ evs \in Seq(StreamEvents) /\ StreamOK(c, n, e, b, evs, q, qe)
      BY <1>2, <1>3, <2>1, <3>1, <3>4
    <3>6. StreamOK(c, n, e, b, Append(evs, Event(<<Head(q)>>, last)), Tail(q), qe)
      BY <1>2, <1>3, <3>5, StreamDrains
    <3> QED
      BY <1>4, <1>7, <2>2, <3>2, <3>3, <3>4, <3>6
  <2>3. CASE i # id
    <3>1. Queued(i) = << >> /\ Queued(i)' = << >>
      BY <1>2, <1>7, <2>3 DEF Queued
    <3>2. events'[i] = events[i]
      BY <1>3, <1>5, <2>3
    <3>3. StreamOK(conversation[i], framed[i], ended[i], buf[i], events[i], << >>,
                   queued'.end)
      BY <2>1, <3>1, StreamUnqueued
    <3> QED
      BY <3>1, <3>2, <3>3
  <2> QED
    BY <2>2, <2>3
<1>11. TapInv'
  BY <1>5, <1>10 DEF TapInv
<1>12. FailsOnlyOverCap'
  BY <1>1, <1>5 DEF FailsOnlyOverCap
<1> QED
  BY <1>9, <1>11, <1>12 DEF IndInv

\* onData of the replay server touches nothing of the decoder of the tap.
LEMMA OnDataKeeps ==
    ASSUME IndInv, NEW id \in Ids, NEW k \in Nat, NEW end \in BOOLEAN,
           OnData(id, k, end)
    PROVE  IndInv'
<1>1. TypeInv /\ FailsOnlyOverCap
  BY DEF IndInv
<1>2. PICK d : d = Drain(Payload(id, k))
  OBVIOUS
<1>3. /\ receiver = "replay" /\ Frame(id, k, end) /\ EndStream(id, end \/ d.over)
      /\ UNCHANGED <<buf, queued, events, failed>>
  BY <1>2, Zenon DEF OnData
<1>4. /\ framed' = [framed EXCEPT ![id] = @ + k]
      /\ ended' = [ended EXCEPT ![id] = (end \/ d.over)]
      /\ receiver' = receiver /\ conversation' = conversation
  BY <1>3, Zenon DEF Frame, EndStream
<1>5. TypeInv'
  <2>1. framed \in [Ids -> Nat] /\ ended \in [Ids -> BOOLEAN]
    BY <1>1 DEF TypeInv
  <2>2. framed' \in [Ids -> Nat]
    <3>1. framed[id] + k \in Nat
      BY <2>1
    <3> QED
      BY <1>4, <2>1, <3>1
  <2>3. ended' \in [Ids -> BOOLEAN]
    <3>1. (end \/ d.over) \in BOOLEAN
      BY Zenon
    <3> QED
      BY <1>4, <2>1, <3>1
  <2>4. QueueType'
    BY <1>1, <1>3 DEF TypeInv, QueueType
  <2> QED
    BY <1>1, <1>3, <1>4, <2>2, <2>3, <2>4 DEF TypeInv
<1>6. TapInv'
  BY <1>3, <1>4 DEF TapInv
<1>7. FailsOnlyOverCap'
  BY <1>1, <1>3, <1>4 DEF FailsOnlyOverCap
<1> QED
  BY <1>5, <1>6, <1>7 DEF IndInv

LEMMA NextKeeps ==
    ASSUME IndInv, [Next]_vars
    PROVE  IndInv'
<1>1. CASE UNCHANGED vars
  <2>1. TypeInv'
    BY <1>1 DEF IndInv, TypeInv, QueueType, vars
  <2>2. TapInv'
    <3>1. \A id \in Ids : Queued(id)' = Queued(id)
      BY <1>1 DEF Queued, vars
    <3> QED
      BY <1>1, <3>1 DEF IndInv, TapInv, vars
  <2>3. FailsOnlyOverCap'
    BY <1>1 DEF IndInv, FailsOnlyOverCap, vars
  <2> QED
    BY <2>1, <2>2, <2>3 DEF IndInv
<1>2. ASSUME NEW id \in Ids, NEW k \in 0 .. Len(Wire(conversation[id])) - framed[id],
             NEW end \in BOOLEAN, NextData(id, k, end) \/ OnData(id, k, end)
      PROVE  IndInv'
  <2>1. k \in Nat
    OBVIOUS
  <2> QED
    BY <1>2, <2>1, NextDataKeeps, OnDataKeeps
<1>3. CASE DrainQueued
  BY <1>3, DrainQueuedKeeps
<1> QED
  BY <1>1, <1>2, <1>3, Zenon DEF Next

LEMMA Invariance == Spec => []IndInv
<1>1. IndInv /\ [Next]_vars => IndInv'
  BY NextKeeps
<1> QED
  BY <1>1, InitHolds, PTL DEF Spec

-----------------------------------------------------------------------------
(***************************************************************************)
(* The invariant gives the two properties.                                 *)
(***************************************************************************)

\* What was cut off is the complete messages, and with the buffer it is all
\* that was in frames.
LEMMA FollowsIsComplete ==
    ASSUME NEW c \in Seq(Seq(Bytes)), NEW n \in Nat, n <= Len(Wire(c)), NEW b, NEW got,
           Follows(c, n, b, got)
    PROVE  /\ got = CompleteWithin(c, n)
           /\ Wire(CompleteWithin(c, n)) \o b = SubSeq(Wire(c), 1, n)
           /\ n = Len(Wire(c)) => got = c
<1>1. PICK k \in 0 .. Len(c) : /\ Within(c, k, n)
                               /\ b = SubSeq(Wire(c), Place(c, k) + 1, n)
                               /\ got = SubSeq(c, 1, k)
  BY DEF Follows
<1>2. CompleteWithin(c, n) = SubSeq(c, 1, k)
  BY <1>1, CompleteAre
<1>3. PICK w, s, p : w = Wire(c) /\ s = Sent(c)[k] /\ p = Place(c, k)
  OBVIOUS
<1>4. /\ w \in Seq(Bytes) /\ Len(w) \in Nat /\ p \in Nat /\ p <= Len(w)
      /\ Place(c, Len(c)) = Len(w) /\ Begins(s, w)
  BY <1>3, WireFacts
<1>5. p <= n /\ s \in Seq(Bytes) /\ Len(s) = p
  BY <1>1, <1>3, SentFacts DEF Within, Place
<1>6. Wire(SubSeq(c, 1, k)) = s
  BY <1>3, WireOfFirst
<1>7. /\ n \in 0 .. Len(w) /\ p \in 0 .. n /\ 0 \in 0 .. p /\ p \in 0 .. Len(w)
      /\ p - 0 = p /\ 0 + 1 = 1
  BY <1>3, <1>4, <1>5
<1>8. s = SubSeq(w, 0 + 1, p)
  <2>1. \A i \in 1 .. p - 0 : s[i] = w[0 + i]
    BY <1>4, <1>5 DEF Begins
  <2>2. Len(s) = p - 0
    BY <1>5, <1>7
  <2> QED
    BY <1>4, <1>5, <1>7, <2>1, <2>2, PieceIs
<1>9. SubSeq(w, 0 + 1, p) \o SubSeq(w, p + 1, n) = SubSeq(w, 0 + 1, n)
  BY <1>4, <1>7, JoinPieces
<1>10. s \o b = SubSeq(w, 1, n)
  <2>1. s \o SubSeq(w, p + 1, n) = SubSeq(w, 0 + 1, n)
    BY <1>8, <1>9, Zenon
  <2>2. b = SubSeq(w, p + 1, n)
    BY <1>1, <1>3, Zenon
  <2> QED
    BY <1>7, <2>1, <2>2
<1>11. ASSUME n = Len(Wire(c)) PROVE got = c
  <2>1. Len(c) \in Nat /\ n = Len(w)
    BY <1>3, <1>11
  <2>2. ASSUME k < Len(c) PROVE FALSE
    <3>1. k + 1 \in 0 .. Len(c)
      BY <2>1, <2>2
    <3>2. Place(c, k + 1) \in Nat /\ Place(c, k + 1) <= Len(w)
      BY <1>3, <3>1, WireFacts
    <3>3. n < Place(c, k + 1)
      BY <1>1, <2>2 DEF Within
    <3> QED
      BY <2>1, <3>2, <3>3
  <2>3. k = Len(c)
    BY <2>1, <2>2
  <2>4. SubSeq(c, 1, Len(c)) = c
    OBVIOUS
  <2> QED
    BY <1>1, <2>3, <2>4
<1>12. Wire(CompleteWithin(c, n)) = s
  BY <1>2, <1>6, Zenon
<1>13. Wire(CompleteWithin(c, n)) \o b = SubSeq(Wire(c), 1, n)
  BY <1>3, <1>10, <1>12, Zenon
<1> QED
  BY <1>1, <1>2, <1>11, <1>13

\* The events that report END_STREAM.
EndsOf(evs) == {i \in DOMAIN evs : evs[i].end}

\* The parts of Reassembled for one stream.
Whole(c, n, e, b, evs, q) ==
    /\ EndsOf(evs) \subseteq {Len(evs)}
    /\ EndsOf(evs) # {} => MessagesAt(evs) = c
    /\ e /\ q = << >> => EndsOf(evs) # {}
    /\ MessagesAt(evs) \o q = CompleteWithin(c, n)
    /\ Wire(CompleteWithin(c, n)) \o b = SubSeq(Wire(c), 1, n)

LEMMA StreamReassembled ==
    ASSUME NEW c \in Seq(Seq(Bytes)), NEW n \in Nat, NEW e \in BOOLEAN, NEW b,
           NEW evs \in Seq(StreamEvents), NEW q, NEW qe,
           StreamOK(c, n, e, b, evs, q, qe)
    PROVE  Whole(c, n, e, b, evs, q)
<1> DEFINE ends == EndsOf(evs)
<1>1. /\ n <= Len(Wire(c)) /\ (e => n = Len(Wire(c)))
      /\ Follows(c, n, b, MessagesAt(evs) \o q)
      /\ ~e => NoEnd(evs)
      /\ e /\ q = << >> => EndsLast(evs)
      /\ e /\ q # << >> => NoEnd(evs)
  BY DEF StreamOK
<1>2. PICK got : got = MessagesAt(evs) \o q
  OBVIOUS
<1>3. /\ got = CompleteWithin(c, n)
      /\ Wire(CompleteWithin(c, n)) \o b = SubSeq(Wire(c), 1, n)
      /\ n = Len(Wire(c)) => got = c
  BY <1>1, <1>2, FollowsIsComplete
<1>4. DOMAIN evs = 1 .. Len(evs) /\ Len(evs) \in Nat
  OBVIOUS
<1>5. ASSUME NoEnd(evs) PROVE ends = {}
  BY <1>4, <1>5 DEF NoEnd, EndsOf
<1>6. ASSUME EndsLast(evs) PROVE ends # {} /\ ends \subseteq {Len(evs)}
  <2>1. Len(evs) \in ends
    BY <1>4, <1>6 DEF EndsLast, EndsOf
  <2>2. ASSUME NEW i \in ends PROVE i = Len(evs)
    <3>1. i \in 1 .. Len(evs) /\ evs[i].end
      BY <1>4 DEF EndsOf
    <3>2. \A j \in 1 .. Len(evs) - 1 : ~evs[j].end
      BY <1>6 DEF EndsLast
    <3>3. i \notin 1 .. Len(evs) - 1
      BY <3>1, <3>2, Zenon
    <3>4. PICK m : m = Len(evs)
      OBVIOUS
    <3>5. m \in Nat /\ i \in 1 .. m /\ i \notin 1 .. m - 1
      BY <1>4, <3>1, <3>3, <3>4
    <3>6. i = m
      BY <3>5
    <3> QED
      BY <3>4, <3>6
  <2> QED
    BY <2>1, <2>2
<1>7. MessagesAt(evs) \in Seq(Seq(Bytes))
  <2>1. \E x : x \in StreamEvents
    <3>1. [message |-> << >>, end |-> TRUE] \in StreamEvents
      BY DEF StreamEvents
    <3> QED
      BY <3>1
  <2> QED
    BY <2>1, MessagesAtAppend
<1>8. CASE NoEnd(evs)
  <2>1. ends = {}
    BY <1>5, <1>8
  <2>2. ~(e /\ q = << >>)
    BY <1>1, <1>6, <2>1
  <2> QED
    BY <1>2, <1>3, <2>1, <2>2 DEF Whole
<1>9. CASE ~NoEnd(evs)
  <2>1. e /\ q = << >> /\ EndsLast(evs)
    BY <1>1, <1>9
  <2>2. got = MessagesAt(evs)
    BY <1>2, <1>7, <2>1, ConcatEmpty
  <2> QED
    BY <1>1, <1>2, <1>3, <1>6, <2>1, <2>2 DEF Whole
<1> QED
  BY <1>8, <1>9

LEMMA InvReassembled == IndInv => Reassembled
<1> SUFFICES ASSUME IndInv, receiver = "tap", ~failed
             PROVE  /\ EndIsLast
                    /\ \A id \in Ids :
                         LET msgs == CompleteWithin(conversation[id], framed[id]) IN
                         /\ MessagesAt(events[id]) \o Queued(id) = msgs
                         /\ Wire(msgs) \o buf[id] =
                               SubSeq(Wire(conversation[id]), 1, framed[id])
  BY Zenon DEF Reassembled
<1>1. ASSUME NEW id \in Ids
      PROVE  Whole(conversation[id], framed[id], ended[id], buf[id], events[id],
                   Queued(id))
  <2>1. /\ conversation[id] \in Seq(Seq(Bytes)) /\ framed[id] \in Nat
        /\ ended[id] \in BOOLEAN /\ events[id] \in Seq(StreamEvents)
    BY ConversationFacts DEF IndInv, TypeInv
  <2>2. StreamOK(conversation[id], framed[id], ended[id], buf[id], events[id],
                 Queued(id), queued.end)
    BY DEF IndInv, TapInv
  <2> QED
    BY <2>1, <2>2, StreamReassembled
<1>2. EndIsLast
  BY <1>1, Zenon DEF EndIsLast, EndsOf, Whole
<1> QED
  BY <1>1, <1>2, Zenon DEF Whole

\* However the bytes of the messages are cut into DATA frames and the frames
\* of the streams interleaved, connDecoder.next (demux.go) has returned or
\* queued exactly the complete messages of every stream, in order, reports
\* END_STREAM with the last of them and once, and keeps the rest buffered.
THEOREM Reassembles == Spec => []Reassembled
  BY Invariance, InvReassembled, PTL

\* The decoder fails on a message over maxGRPCMessageSize and on nothing else:
\* no cut of a frame makes it read a length that no peer has sent.
THEOREM CapOnly == Spec => []FailsOnlyOverCap
<1>1. IndInv => FailsOnlyOverCap
  BY DEF IndInv
<1> QED
  BY <1>1, Invariance, PTL
=============================================================================
