--------------------------- MODULE FramingProofs ---------------------------
(***************************************************************************)
(* Proofs about Framing, for bytes of any number of values, lengths of any *)
(* number of bytes and any packets.                                        *)
(***************************************************************************)
EXTENDS Framing, SequenceTheorems, WellFoundedInduction, TLAPS

-----------------------------------------------------------------------------
(* A set of numbers has a least one. *)
LEMMA LeastNumber ==
    ASSUME NEW T \in SUBSET Nat, T # {}
    PROVE  \E n \in T : \A m \in T : n <= m
<1> DEFINE R == OpToRel(<, Nat)
<1>1. IsWellFoundedOn(R, Nat)
  BY NatLessThanWellFounded
<1>2. PICK n \in T : \A m \in T : ~(<<m, n>> \in R)
  <2> HIDE DEF R
  <2> QED
    BY <1>1, WFMin
<1>3. \A m \in T : ~(m < n)
  BY <1>2 DEF OpToRel
<1> QED
  BY <1>3

(* Induction on numbers up to N, for a set of them instead of a formula:   *)
(* the least number that is not in the set would have a predecessor that   *)
(* is.                                                                     *)
LEMMA UpTo ==
    ASSUME NEW N \in Nat, NEW G,
           0 \in G,
           \A n \in 0 .. N - 1 : n \in G => n + 1 \in G
    PROVE  \A n \in 0 .. N : n \in G
<1> DEFINE Bad == {n \in 0 .. N : n \notin G}
<1> SUFFICES ASSUME Bad # {} PROVE FALSE
  OBVIOUS
<1>1. PICK n \in Bad : \A m \in Bad : n <= m
  <2>1. Bad \in SUBSET Nat
    OBVIOUS
  <2> HIDE DEF Bad
  <2> QED
    BY <2>1, LeastNumber
<1>2. n # 0 /\ n - 1 \in 0 .. N - 1 /\ n - 1 \in G
  BY <1>1
<1> QED
  BY <1>2

(* A function that is defined by recursion on 0 .. N exists.               *)
Follows(f, N, b, Step) == f[0] = b /\ \A i \in 1 .. N : f[i] = Step[i][f[i - 1]]
LEMMA Recursion ==
    ASSUME NEW N \in Nat, NEW S, NEW b \in S, NEW Step \in [1 .. N -> [S -> S]]
    PROVE  \E f \in [0 .. N -> S] : Follows(f, N, b, Step)
<1> DEFINE Upto(n) == \E f \in [0 .. n -> S] :
                         f[0] = b /\ \A i \in 1 .. n : f[i] = Step[i][f[i - 1]]
           G == {n \in 0 .. N : Upto(n)}
<1>1. 0 \in G
  <2> DEFINE f == [i \in 0 .. 0 |-> b]
  <2>1. f \in [0 .. 0 -> S] /\ f[0] = b /\ 1 .. 0 = {}
    OBVIOUS
  <2>2. Upto(0)
    <3> HIDE DEF f
    <3> QED
      BY <2>1
  <2> QED
    BY <2>2
<1>2. ASSUME NEW n \in 0 .. N - 1, n \in G
      PROVE  n + 1 \in G
  <2>1. PICK f \in [0 .. n -> S] : f[0] = b /\ \A i \in 1 .. n : f[i] = Step[i][f[i - 1]]
    BY <1>2
  <2> DEFINE g == [i \in 0 .. n + 1 |-> IF i = n + 1 THEN Step[n + 1][f[n]] ELSE f[i]]
  <2>2. Step[n + 1][f[n]] \in S
    BY <2>1
  <2>3. g \in [0 .. n + 1 -> S] /\ g[0] = b
    BY <2>1, <2>2
  <2>4. ASSUME NEW i \in 1 .. n + 1
        PROVE  g[i] = Step[i][g[i - 1]]
    <3>1. CASE i = n + 1
      <4>1. g[n + 1] = Step[n + 1][f[n]] /\ g[n] = f[n]
        OBVIOUS
      <4> QED
        BY <3>1, <4>1
    <3>2. CASE i # n + 1
      <4>1. i \in 1 .. n /\ g[i] = f[i] /\ g[i - 1] = f[i - 1]
        BY <3>2
      <4> QED
        BY <4>1, <2>1
    <3> QED
      BY <3>1, <3>2
  <2>5. Upto(n + 1)
    <3> HIDE DEF g
    <3> QED
      BY <2>3, <2>4
  <2> QED
    BY <2>5
<1>3. \A n \in 0 .. N : n \in G
  <2> HIDE DEF G
  <2> QED
    BY <1>1, <1>2, UpTo
<1> QED
  BY <1>3 DEF Follows

-----------------------------------------------------------------------------
(* The length in a header. *)

LEMMA Constants ==
    /\ BASE \in Nat /\ BASE > 1 /\ LengthBytes \in Nat /\ LengthBytes > 0
    /\ MAX_PACKET_SIZE \in Nat /\ Padding \in Nat
    /\ PACKET_HEADER_SIZE \in Nat /\ PACKET_HEADER_SIZE = LengthBytes + 1
    /\ SizeofPacket \in Nat
    /\ SizeofPacket = PACKET_HEADER_SIZE + MAX_PACKET_SIZE + Padding
  BY FramingAssumption DEF PACKET_HEADER_SIZE, SizeofPacket

LEMMA ProductPositive ==
    ASSUME NEW m \in Nat, NEW n \in Nat, m >= 1, n >= 1
    PROVE  m * n \in Nat /\ m * n >= 1
  OBVIOUS

LEMMA WeightFacts ==
    /\ Weight \in [0 .. LengthBytes -> Nat] /\ Weight[0] = 1
    /\ \A i \in 1 .. LengthBytes : Weight[i] = BASE * Weight[i - 1]
    /\ \A i \in 0 .. LengthBytes : Weight[i] >= 1
<1> DEFINE Step == [i \in 1 .. LengthBytes |-> [w \in Nat |-> BASE * w]]
           D(g) == [i \in 0 .. LengthBytes |-> IF i = 0 THEN 1 ELSE BASE * g[i - 1]]
<1>1. Step \in [1 .. LengthBytes -> [Nat -> Nat]]
  BY Constants
<1>2. PICK f \in [0 .. LengthBytes -> Nat] :
           Follows(f, LengthBytes, 1, Step)
  <2> HIDE DEF Step
  <2>1. 1 \in Nat /\ LengthBytes \in Nat
    BY Constants
  <2> QED
    BY <1>1, <2>1, Recursion
<1>3. ASSUME NEW i \in 1 .. LengthBytes PROVE f[i] = BASE * f[i - 1]
  <2>1. f[i] = Step[i][f[i - 1]]
    BY <1>2 DEF Follows
  <2>2. f[i - 1] \in Nat
    <3>1. i - 1 \in 0 .. LengthBytes
      BY Constants
    <3> QED
      BY <1>2, <3>1
  <2> QED
    BY <2>1, <2>2
<1>4. f = D(f)
  BY <1>2, <1>3, Constants DEF Follows
<1>5. Weight = D(Weight)
  BY <1>4 DEF Weight
<1>6. Weight[0] = 1 /\ \A i \in 1 .. LengthBytes : Weight[i] = BASE * Weight[i - 1]
  BY <1>5, Constants
<1> DEFINE G == {n \in 0 .. LengthBytes : Weight[n] \in Nat /\ Weight[n] >= 1}
<1>7. 0 \in G
  BY <1>6, Constants
<1>8. ASSUME NEW n \in 0 .. LengthBytes - 1, n \in G PROVE n + 1 \in G
  <2>1. Weight[n + 1] = BASE * Weight[n] /\ n + 1 \in 0 .. LengthBytes
    BY <1>6, Constants
  <2>2. Weight[n] \in Nat /\ Weight[n] >= 1 /\ BASE \in Nat /\ BASE >= 1
    BY <1>8, Constants
  <2>3. BASE * Weight[n] \in Nat /\ BASE * Weight[n] >= 1
    BY <2>2, ProductPositive
  <2> QED
    BY <2>1, <2>3
<1>9. \A n \in 0 .. LengthBytes : n \in G
  <2> HIDE DEF G
  <2> QED
    BY <1>7, <1>8, UpTo, Constants
<1>10. Weight = [i \in 0 .. LengthBytes |-> Weight[i]]
  BY <1>5
<1> QED
  BY <1>6, <1>9, <1>10

(* The sum of a header's bytes, by their number. *)
LEMMA LengthSum ==
    ASSUME NEW h \in [1 .. PACKET_HEADER_SIZE -> Byte]
    PROVE  \E f \in [0 .. LengthBytes -> Nat] :
              /\ f[0] = 0
              /\ \A i \in 1 .. LengthBytes : f[i] = f[i - 1] + (h[i] * Weight[i - 1])
              /\ Length(h) = f[LengthBytes]
<1> DEFINE Step == [i \in 1 .. LengthBytes |-> [s \in Nat |-> s + (h[i] * Weight[i - 1])]]
           D(g) == [i \in 0 .. LengthBytes |->
                       IF i = 0 THEN 0 ELSE g[i - 1] + (h[i] * Weight[i - 1])]
           F == CHOOSE g : g = D(g)
<1>1. \A i \in 1 .. LengthBytes : h[i] \in Nat /\ Weight[i - 1] \in Nat
  <2>1. \A i \in 1 .. LengthBytes : i \in 1 .. PACKET_HEADER_SIZE /\ i - 1 \in 0 .. LengthBytes
    BY Constants
  <2>2. \A i \in 1 .. PACKET_HEADER_SIZE : h[i] \in Nat
    BY Constants DEF Byte
  <2> QED
    BY <2>1, <2>2, WeightFacts
<1>2. \A i \in 1 .. LengthBytes : h[i] * Weight[i - 1] \in Nat
  BY <1>1
<1>3. Step \in [1 .. LengthBytes -> [Nat -> Nat]]
  BY <1>2
<1>4. PICK f \in [0 .. LengthBytes -> Nat] :
           Follows(f, LengthBytes, 0, Step)
  <2> HIDE DEF Step
  <2>1. 0 \in Nat /\ LengthBytes \in Nat
    BY Constants
  <2> QED
    BY <1>3, <2>1, Recursion
<1>5. ASSUME NEW i \in 1 .. LengthBytes PROVE f[i] = f[i - 1] + (h[i] * Weight[i - 1])
  <2>1. f[i] = Step[i][f[i - 1]]
    BY <1>4 DEF Follows
  <2>2. f[i - 1] \in Nat
    BY <1>4, Constants
  <2> QED
    BY <2>1, <2>2
<1>6. f = D(f)
  BY <1>4, <1>5, Constants DEF Follows
<1>7. F = D(F)
  BY <1>6
<1> HIDE DEF F
<1>8. F[0] = 0 /\ \A i \in 1 .. LengthBytes : F[i] = F[i - 1] + (h[i] * Weight[i - 1])
  BY <1>7, Constants
<1>9. Length(h) = F[LengthBytes]
  BY DEF Length, F
<1>10. F = [i \in 0 .. LengthBytes |-> F[i]]
  BY <1>7
<1> DEFINE G == {n \in 0 .. LengthBytes : F[n] \in Nat}
<1>11. 0 \in G
  BY <1>8, Constants
<1>12. ASSUME NEW n \in 0 .. LengthBytes - 1, n \in G PROVE n + 1 \in G
  <2>1. n + 1 \in 1 .. LengthBytes /\ F[n + 1] = F[n] + (h[n + 1] * Weight[n])
    BY <1>8, Constants
  <2>2. h[n + 1] * Weight[n] \in Nat
    BY <1>2, <2>1
  <2> QED
    BY <1>12, <2>1, <2>2
<1>13. \A n \in 0 .. LengthBytes : n \in G
  <2> HIDE DEF G
  <2> QED
    BY <1>11, <1>12, UpTo, Constants
<1> QED
  BY <1>8, <1>9, <1>10, <1>13

(* One more byte of n.  W is the byte's weight. *)
LEMMA OneByte ==
    ASSUME NEW n \in Nat, NEW W \in Nat, W >= 1, NEW B \in Nat, B > 1
    PROVE  /\ (n \div W) % B \in 0 .. B - 1
           /\ n % (B * W) = (n % W) + (((n \div W) % B) * W)
<1> DEFINE q == n \div W
           r == n % W
           d == q % B
           u == q \div B
           m == r + (d * W)
<1>1. q \in Nat /\ r \in Nat /\ r < W /\ n = (W * q) + r
  OBVIOUS
<1> HIDE DEF q, r
<1>2. d \in Nat /\ u \in Nat /\ d < B /\ q = (B * u) + d
  BY <1>1
<1> HIDE DEF d, u
<1>3. B * W \in Nat /\ B * W > 0
  OBVIOUS
<1>4. m \in Nat
  BY <1>1, <1>2
<1>5. d * W <= (B - 1) * W
  BY <1>2
<1>6. m < B * W
  <2>1. (B - 1) * W = (B * W) - W
    OBVIOUS
  <2> QED
    BY <1>1, <1>2, <1>5, <2>1
<1>7. n = ((B * W) * u) + m
  BY <1>1, <1>2
<1>8. n % (B * W) = m
  <2> HIDE DEF m
  <2> DEFINE V == B * W
  <2>1. V \in Nat \ {0} /\ m < V /\ n = (V * u) + m
    BY <1>3, <1>6, <1>7
  <2> HIDE DEF V
  <2>2. n % V = m
    BY <2>1, <1>2, <1>4
  <2> QED
    BY <2>2 DEF V
<1> QED
  BY <1>2, <1>8 DEF q, r, d

(* The length that is read is the one that was written.                    *)
LEMMA LengthOfBytes ==
    ASSUME NEW n \in Nat, n < Weight[LengthBytes],
           NEW h \in [1 .. PACKET_HEADER_SIZE -> Byte],
           \A i \in 1 .. LengthBytes : h[i] = LengthByte(n, i)
    PROVE  Length(h) = n
<1>1. PICK f \in [0 .. LengthBytes -> Nat] :
           /\ f[0] = 0
           /\ \A i \in 1 .. LengthBytes : f[i] = f[i - 1] + (h[i] * Weight[i - 1])
           /\ Length(h) = f[LengthBytes]
  BY LengthSum
<1> DEFINE G == {i \in 0 .. LengthBytes : f[i] = n % Weight[i]}
<1>2. 0 \in G
  <2>1. n % 1 = 0
    OBVIOUS
  <2> QED
    BY <1>1, <2>1, WeightFacts, Constants
<1>3. ASSUME NEW i \in 0 .. LengthBytes - 1, i \in G PROVE i + 1 \in G
  <2>0. i \in Nat /\ i + 1 \in 1 .. LengthBytes /\ i + 1 - 1 = i /\ i \in 0 .. LengthBytes
    BY Constants
  <2>1. /\ f[i + 1] = f[i] + (h[i + 1] * Weight[i])
        /\ h[i + 1] = (n \div Weight[i]) % BASE
        /\ Weight[i + 1] = BASE * Weight[i]
        /\ Weight[i] \in Nat /\ Weight[i] >= 1
    <3>1. f[i + 1] = f[i] + (h[i + 1] * Weight[i])
      BY <1>1, <2>0
    <3>2. h[i + 1] = (n \div Weight[i]) % BASE
      BY <2>0 DEF LengthByte
    <3> QED
      BY <2>0, <3>1, <3>2, WeightFacts
  <2>2. n % (BASE * Weight[i]) = (n % Weight[i]) + (((n \div Weight[i]) % BASE) * Weight[i])
    <3> DEFINE W == Weight[i]
    <3>1. W \in Nat /\ W >= 1 /\ BASE \in Nat /\ BASE > 1
      BY <2>1, Constants
    <3> HIDE DEF W
    <3>2. n % (BASE * W) = (n % W) + (((n \div W) % BASE) * W)
      BY <3>1, OneByte
    <3> QED
      BY <3>2 DEF W
  <2> QED
    BY <1>3, <2>0, <2>1, <2>2
<1>4. \A i \in 0 .. LengthBytes : i \in G
  <2> HIDE DEF G
  <2> QED
    BY <1>2, <1>3, UpTo, Constants
<1>5. Length(h) = n % Weight[LengthBytes]
  BY <1>1, <1>4, Constants
<1>6. \A V \in Nat : n < V => n % V = n
  OBVIOUS
<1>7. Weight[LengthBytes] \in Nat
  BY WeightFacts, Constants
<1> QED
  BY <1>5, <1>6, <1>7

-----------------------------------------------------------------------------
(* Sequences. *)

CutAt(S, s, k, first, rest) ==
    /\ first \in Seq(S) /\ Len(first) = k
    /\ \A i \in 1 .. k : first[i] = s[i]
    /\ rest \in Seq(S) /\ Len(rest) = Len(s) - k
    /\ s = first \o rest
LEMMA Cut ==
    ASSUME NEW S, NEW s \in Seq(S), NEW k \in 0 .. Len(s)
    PROVE  CutAt(S, s, k, SubSeq(s, 1, k), SubSeq(s, k + 1, Len(s)))
<1>1. Len(s) \in Nat /\ \A i \in 1 .. Len(s) : s[i] \in S
  BY LenProperties, ElementOfSeq
<1>2. /\ SubSeq(s, 1, k) \in Seq(S) /\ Len(SubSeq(s, 1, k)) = k
      /\ \A i \in 1 .. k : SubSeq(s, 1, k)[i] = s[i]
  BY <1>1, SubSeqProperties
<1>3. /\ SubSeq(s, k + 1, Len(s)) \in Seq(S)
      /\ Len(SubSeq(s, k + 1, Len(s))) = Len(s) - k
  BY <1>1, SubSeqProperties
<1>4. SubSeq(s, 1, Len(s)) = SubSeq(s, 1, k) \o SubSeq(s, k + 1, Len(s))
  <2>1. /\ 1 \in 1 .. Len(s) + 1 /\ k \in 1 - 1 .. Len(s) /\ Len(s) \in k .. Len(s)
    BY <1>1
  <2> QED
    BY <2>1, ConcatAdjacentSubSeq
<1> QED
  BY <1>2, <1>3, <1>4, SubSeqFull DEF CutAt

(* Where the first parts are of one length, both parts are the same.       *)
LEMMA SplitEqual ==
    ASSUME NEW S, NEW a \in Seq(S), NEW b \in Seq(S), NEW c \in Seq(S), NEW d \in Seq(S),
           a \o b = c \o d, Len(a) = Len(c)
    PROVE  a = c /\ b = d
<1>1. Len(a) \in Nat /\ Len(b) \in Nat /\ Len(c) \in Nat /\ Len(d) \in Nat
  BY LenProperties
<1>2. \A i \in 1 .. Len(a) : a[i] = (a \o b)[i] /\ c[i] = (c \o d)[i]
  BY <1>1, ConcatProperties
<1>3. a = c
  BY <1>2, SeqEqual
<1>4. b = d
  <2>1. Len(b) = Len(d)
    <3>1. Len(a \o b) = Len(a) + Len(b) /\ Len(c \o d) = Len(c) + Len(d)
      BY ConcatProperties
    <3> QED
      BY <1>1, <3>1
  <2>2. ASSUME NEW i \in 1 .. Len(b) PROVE b[i] = d[i]
    <3> DEFINE j == Len(a) + i
    <3>1. j \in 1 .. Len(a) + Len(b) /\ ~(j <= Len(a)) /\ j - Len(a) = i
      BY <1>1
    <3> HIDE DEF j
    <3>2. (a \o b)[j] = b[i]
      <4>1. (a \o b)[j] = IF j <= Len(a) THEN a[j] ELSE b[j - Len(a)]
        BY <3>1, ConcatProperties, Zenon
      <4> QED
        BY <3>1, <4>1
    <3>3. (c \o d)[j] = d[i]
      BY <2>1, <3>1, ConcatProperties
    <3> QED
      BY <3>2, <3>3
  <2> QED
    BY <2>1, <2>2, SeqEqual
<1> QED
  BY <1>3, <1>4

Associates(S) == \A x, y, z \in Seq(S) : (x \o y) \o z = x \o (y \o z)
LEMMA Assoc == \A S : Associates(S)
<1>1. \A S : \A x, y, z \in Seq(S) : (x \o y) \o z = x \o (y \o z)
  BY ConcatAssociative
<1> QED
  BY <1>1 DEF Associates

(* A sequence that begins with a shorter one. *)
LEMMA BeginsWith ==
    ASSUME NEW S, NEW a \in Seq(S), NEW b \in Seq(S), NEW c \in Seq(S), NEW d \in Seq(S),
           a \o b = c \o d, Len(a) <= Len(c)
    PROVE  \E e \in Seq(S) : c = a \o e /\ b = e \o d
<1> DEFINE first == SubSeq(c, 1, Len(a))
           e == SubSeq(c, Len(a) + 1, Len(c))
<1>1. Len(a) \in 0 .. Len(c)
  BY LenProperties
<1>2. /\ first \in Seq(S) /\ Len(first) = Len(a) /\ e \in Seq(S) /\ c = first \o e
  <2>1. CutAt(S, c, Len(a), first, e)
    BY <1>1, Cut
  <2> HIDE DEF first, e
  <2> QED
    BY <2>1, Zenon DEF CutAt
<1> HIDE DEF first, e
<1>3. c \o d = first \o (e \o d) /\ e \o d \in Seq(S)
  <2>1. (first \o e) \o d = first \o (e \o d)
    <3>1. \A x, y, z \in Seq(S) : (x \o y) \o z = x \o (y \o z)
      <4>1. Associates(S)
        BY Assoc
      <4> QED
        BY <4>1 DEF Associates
    <3>2. first \in Seq(S) /\ e \in Seq(S)
      BY <1>2
    <3>3. \A z \in Seq(S) : (first \o e) \o z = first \o (e \o z)
      BY <3>1, <3>2, Zenon
    <3> QED
      BY <3>3, Zenon
  <2>2. e \o d \in Seq(S)
    BY <1>2, ConcatProperties, Zenon
  <2> QED
    BY <1>2, <2>1, <2>2
<1>4. a = first /\ b = e \o d
  <2> DEFINE g == e \o d
  <2>1. g \in Seq(S) /\ a \o b = first \o g /\ Len(a) = Len(first)
    BY <1>2, <1>3
  <2> HIDE DEF g
  <2>2. a = first /\ b = g
    BY <1>2, <2>1, SplitEqual
  <2> QED
    BY <2>2 DEF g
<1> QED
  BY <1>2, <1>4

-----------------------------------------------------------------------------
(* FlattenSeq. *)

Flattens(f, ss) == f[1] = ss[1] /\ \A i \in 2 .. Len(ss) : f[i] = f[i - 1] \o ss[i]

LEMMA FlattenIs ==
    ASSUME NEW S, NEW ss \in Seq(Seq(S)), ss # <<>>,
           NEW f \in [1 .. Len(ss) -> Seq(S)], Flattens(f, ss)
    PROVE  FlattenSeq(ss) = f[Len(ss)]
<1> DEFINE D(g) == [i \in 1 .. Len(ss) |-> IF i = 1 THEN ss[i] ELSE g[i - 1] \o ss[i]]
           F == CHOOSE g : g = D(g)
<1>1. Len(ss) \in Nat /\ Len(ss) > 0
  BY LenProperties, EmptySeq
<1>2. ASSUME NEW i \in 1 .. Len(ss) PROVE f[i] = D(f)[i]
  <2>1. i \in Nat /\ (i = 1 \/ i \in 2 .. Len(ss))
    BY <1>1
  <2>2. D(f)[i] = IF i = 1 THEN ss[i] ELSE f[i - 1] \o ss[i]
    OBVIOUS
  <2> HIDE DEF D
  <2> QED
    BY <2>1, <2>2 DEF Flattens
<1>3. f = D(f)
  BY <1>2
<1>4. F = D(F)
  BY <1>3
<1>5. FlattenSeq(ss) = F[Len(ss)]
  BY <1>1 DEF FlattenSeq
<1> HIDE DEF F
<1>6. F[1] = ss[1] /\ \A i \in 2 .. Len(ss) : F[i] = F[i - 1] \o ss[i]
  <2>1. \A i \in 1 .. Len(ss) : F[i] = IF i = 1 THEN ss[i] ELSE F[i - 1] \o ss[i]
    BY <1>4
  <2>2. 1 \in 1 .. Len(ss) /\ \A i \in 2 .. Len(ss) : i \in 1 .. Len(ss) /\ i # 1
    BY <1>1
  <2> QED
    BY <2>1, <2>2
<1> DEFINE G == {n \in 0 .. Len(ss) - 1 : F[n + 1] = f[n + 1]}
<1>7. 0 \in G
  BY <1>1, <1>6 DEF Flattens
<1>8. ASSUME NEW n \in 0 .. (Len(ss) - 1) - 1, n \in G PROVE n + 1 \in G
  <2>1. /\ n + 2 \in 2 .. Len(ss) /\ (n + 2) - 1 = n + 1 /\ (n + 1) + 1 = n + 2
        /\ n + 1 \in 0 .. Len(ss) - 1
    BY <1>1
  <2>2. F[n + 2] = F[n + 1] \o ss[n + 2] /\ f[n + 2] = f[n + 1] \o ss[n + 2]
    BY <1>6, <2>1 DEF Flattens
  <2>3. F[n + 1] = f[n + 1]
    BY <1>8
  <2>4. F[n + 2] = f[n + 2]
    BY <2>2, <2>3
  <2> QED
    BY <2>1, <2>4
<1>9. \A n \in 0 .. Len(ss) - 1 : n \in G
  <2>1. Len(ss) - 1 \in Nat
    BY <1>1
  <2> HIDE DEF G
  <2> QED
    BY <1>7, <1>8, <2>1, UpTo
<1>10. Len(ss) - 1 \in 0 .. Len(ss) - 1 /\ (Len(ss) - 1) + 1 = Len(ss)
  BY <1>1
<1>11. F[(Len(ss) - 1) + 1] = f[(Len(ss) - 1) + 1]
  BY <1>9, <1>10
<1> QED
  BY <1>5, <1>10, <1>11

LEMMA FlattenExists ==
    ASSUME NEW S, NEW ss \in Seq(Seq(S)), ss # <<>>
    PROVE  \E f \in [1 .. Len(ss) -> Seq(S)] : Flattens(f, ss)
<1> DEFINE N == Len(ss)
           Step == [i \in 1 .. N |-> [s \in Seq(S) |-> s \o ss[i]]]
<1>1. N \in Nat /\ N > 0 /\ \A i \in 1 .. N : ss[i] \in Seq(S)
  BY LenProperties, EmptySeq, ElementOfSeq
<1>2. Step \in [1 .. N -> [Seq(S) -> Seq(S)]]
  BY <1>1, ConcatProperties
<1>3. <<>> \in Seq(S)
  OBVIOUS
<1>4. PICK f \in [0 .. N -> Seq(S)] : Follows(f, N, <<>>, Step)
  <2> HIDE DEF N, Step
  <2> QED
    BY <1>1, <1>2, <1>3, Recursion
<1>5. ASSUME NEW i \in 1 .. N PROVE f[i] = f[i - 1] \o ss[i] /\ i - 1 \in 0 .. N
  <2>1. f[i] = Step[i][f[i - 1]]
    BY <1>4 DEF Follows
  <2>2. i - 1 \in 0 .. N
    BY <1>1
  <2>3. f[i - 1] \in Seq(S)
    BY <1>4, <2>2
  <2> QED
    BY <2>1, <2>2, <2>3
<1>6. f[1] = ss[1]
  <2>1. 1 \in 1 .. N /\ 1 - 1 = 0
    BY <1>1
  <2>2. f[1] = <<>> \o ss[1]
    BY <1>4, <1>5, <2>1 DEF Follows
  <2> QED
    BY <1>1, <2>1, <2>2, ConcatEmptySeq
<1> DEFINE g == [i \in 1 .. N |-> f[i]]
<1>7. g \in [1 .. N -> Seq(S)]
  BY <1>4
<1>8. g[1] = ss[1]
  BY <1>1, <1>6
<1>9. ASSUME NEW i \in 2 .. N PROVE g[i] = g[i - 1] \o ss[i]
  <2>1. i \in 1 .. N /\ i - 1 \in 1 .. N
    BY <1>1
  <2> QED
    BY <1>5, <2>1
<1> HIDE DEF g
<1> QED
  BY <1>7, <1>8, <1>9 DEF Flattens

LEMMA FlattenEmpty == FlattenSeq(<<>>) = <<>>
  BY DEF FlattenSeq

LEMMA FlattenType ==
    ASSUME NEW S, NEW ss \in Seq(Seq(S))
    PROVE  FlattenSeq(ss) \in Seq(S)
<1>1. CASE ss = <<>>
  BY <1>1, FlattenEmpty, EmptySeq
<1>2. CASE ss # <<>>
  <2>1. PICK f \in [1 .. Len(ss) -> Seq(S)] : Flattens(f, ss)
    BY <1>2, FlattenExists
  <2>2. FlattenSeq(ss) = f[Len(ss)] /\ Len(ss) \in 1 .. Len(ss)
    BY <1>2, <2>1, FlattenIs, LenProperties, EmptySeq
  <2> QED
    BY <2>2
<1> QED
  BY <1>1, <1>2

LEMMA FlattenAppend ==
    ASSUME NEW S, NEW ss \in Seq(Seq(S)), NEW x \in Seq(S)
    PROVE  FlattenSeq(Append(ss, x)) = FlattenSeq(ss) \o x
<1> DEFINE tt == Append(ss, x)
<1>1. /\ tt \in Seq(Seq(S)) /\ tt # <<>> /\ Len(tt) = Len(ss) + 1 /\ Len(ss) \in Nat
      /\ \A i \in 1 .. Len(ss) : tt[i] = ss[i]
      /\ tt[Len(ss) + 1] = x
  BY AppendProperties, LenProperties
<1> HIDE DEF tt
<1>2. CASE ss = <<>>
  <2> DEFINE f == [i \in 1 .. Len(tt) |-> x]
  <2>1. Len(ss) = 0
    BY <1>2
  <2>2. f \in [1 .. Len(tt) -> Seq(S)] /\ f[1] = tt[1] /\ 2 .. Len(tt) = {} /\ f[Len(tt)] = x
    BY <1>1, <2>1
  <2> HIDE DEF f
  <2>3. FlattenSeq(tt) = x
    BY <1>1, <2>2, FlattenIs DEF Flattens
  <2> QED
    BY <1>2, <2>3, FlattenEmpty, ConcatEmptySeq DEF tt
<1>3. CASE ss # <<>>
  <2>1. PICK f \in [1 .. Len(ss) -> Seq(S)] : Flattens(f, ss)
    BY <1>3, FlattenExists
  <2> DEFINE N == Len(ss)
             g == [i \in 1 .. N + 1 |-> IF i = N + 1 THEN f[N] \o x ELSE f[i]]
  <2>2. N \in Nat /\ N > 0 /\ f[N] \in Seq(S) /\ f[N] \o x \in Seq(S)
    <3>1. N \in Nat /\ N > 0
      BY <1>1, <1>3, EmptySeq
    <3>2. f[N] \in Seq(S)
      <4>1. N \in 1 .. Len(ss)
        BY <3>1
      <4> HIDE DEF N
      <4> QED
        BY <2>1, <4>1
    <3> QED
      BY <3>1, <3>2, ConcatProperties
  <2>3. g \in [1 .. N + 1 -> Seq(S)] /\ g[1] = f[1] /\ g[N + 1] = f[N] \o x
    BY <2>1, <2>2
  <2>4. ASSUME NEW i \in 2 .. N + 1 PROVE g[i] = g[i - 1] \o tt[i]
    <3>1. CASE i = N + 1
      <4>1. i - 1 = N /\ g[N] = f[N] /\ tt[N + 1] = x
        BY <1>1, <2>2, <3>1
      <4> QED
        BY <2>3, <3>1, <4>1
    <3>2. CASE i # N + 1
      <4>1. i \in 2 .. N /\ i \in 1 .. N /\ g[i] = f[i] /\ g[i - 1] = f[i - 1]
        BY <2>2, <3>2
      <4>2. f[i] = f[i - 1] \o ss[i] /\ tt[i] = ss[i]
        BY <1>1, <2>1, <4>1 DEF Flattens
      <4> QED
        BY <4>1, <4>2
    <3> QED
      BY <3>1, <3>2
  <2> HIDE DEF g
  <2>5. FlattenSeq(ss) = f[N]
    BY <1>3, <2>1, FlattenIs
  <2>6. f[1] = ss[1] /\ tt[1] = ss[1]
    BY <1>1, <2>1, <2>2 DEF Flattens
  <2>7. FlattenSeq(tt) = g[N + 1]
    <3>1. Flattens(g, tt)
      BY <1>1, <2>3, <2>4, <2>6 DEF Flattens
    <3> QED
      BY <1>1, <2>3, <3>1, FlattenIs
  <2> QED
    BY <2>3, <2>5, <2>7 DEF tt
<1> QED
  BY <1>2, <1>3

LEMMA FlattenTail ==
    ASSUME NEW S, NEW ss \in Seq(Seq(S)), ss # <<>>
    PROVE  FlattenSeq(ss) = ss[1] \o FlattenSeq(Tail(ss))
<1>0. \A x, y, z \in Seq(S) : (x \o y) \o z = x \o (y \o z)
  <2>1. Associates(S)
    BY Assoc
  <2> QED
    BY <2>1 DEF Associates
<1> DEFINE tt == Tail(ss)
           N == Len(ss)
<1>1. /\ tt \in Seq(Seq(S)) /\ Len(tt) = N - 1 /\ N \in Nat /\ N > 0
      /\ \A i \in 1 .. N - 1 : tt[i] = ss[i + 1]
      /\ \A i \in 1 .. N : ss[i] \in Seq(S)
  BY HeadTailProperties, LenProperties, EmptySeq, ElementOfSeq
<1> HIDE DEF tt
<1>2. CASE tt = <<>>
  <2> DEFINE f == [i \in 1 .. N |-> ss[1]]
  <2>1. N = 1
    BY <1>1, <1>2
  <2>2. f \in [1 .. N -> Seq(S)] /\ f[1] = ss[1] /\ 2 .. N = {} /\ f[N] = ss[1]
    BY <1>1, <2>1
  <2> HIDE DEF f
  <2>3. FlattenSeq(ss) = ss[1]
    BY <2>2, FlattenIs DEF Flattens
  <2>4. ss[1] \o <<>> = ss[1]
    BY <1>1, <2>1, ConcatEmptySeq
  <2> QED
    BY <1>2, <2>3, <2>4, FlattenEmpty DEF tt
<1>3. CASE tt # <<>>
  <2>1. PICK f \in [1 .. Len(tt) -> Seq(S)] : Flattens(f, tt)
    BY <1>1, <1>3, FlattenExists
  <2>2. N > 1 /\ \A i \in 1 .. N - 1 : f[i] \in Seq(S)
    <3>1. N - 1 # 0
      BY <1>1, <1>3, EmptySeq
    <3>2. N > 1
      BY <1>1, <3>1
    <3>3. 1 .. N - 1 = 1 .. Len(tt)
      BY <1>1
    <3> HIDE DEF N
    <3> QED
      BY <2>1, <3>2, <3>3
  <2> DEFINE g == [i \in 1 .. N |-> IF i = 1 THEN ss[1] ELSE ss[1] \o f[i - 1]]
  <2>3. ASSUME NEW i \in 1 .. N PROVE g[i] \in Seq(S)
    <3>1. CASE i = 1
      BY <1>1, <3>1
    <3>2. CASE i # 1
      <4>1. i - 1 \in 1 .. N - 1 /\ ss[1] \in Seq(S)
        BY <1>1, <3>2
      <4>2. ss[1] \o f[i - 1] \in Seq(S)
        BY <2>2, <4>1, ConcatProperties
      <4> QED
        BY <3>2, <4>2
    <3> QED
      BY <3>1, <3>2
  <2>4. g \in [1 .. N -> Seq(S)]
    BY <2>3
  <2>5. ASSUME NEW i \in 2 .. N PROVE g[i] = g[i - 1] \o ss[i]
    <3>1. i \in 1 .. N /\ i - 1 \in 1 .. N - 1 /\ i - 1 \in 1 .. N /\ tt[i - 1] = ss[i]
      BY <1>1
    <3>2. g[i] = ss[1] \o f[i - 1]
      <4>1. i # 1
        OBVIOUS
      <4> QED
        BY <3>1, <4>1
    <3>3. CASE i = 2
      <4>1. g[i - 1] = ss[1] /\ f[i - 1] = tt[i - 1]
        BY <1>1, <2>1, <3>3 DEF Flattens
      <4> QED
        BY <3>1, <3>2, <4>1
    <3>4. CASE i # 2
      <4>1. i - 1 \in 2 .. Len(tt) /\ (i - 1) - 1 \in 1 .. N - 1 /\ i - 1 # 1
        BY <1>1, <3>1, <3>4
      <4>2. f[i - 1] = f[(i - 1) - 1] \o tt[i - 1]
        BY <2>1, <4>1 DEF Flattens
      <4>3. g[i - 1] = ss[1] \o f[(i - 1) - 1]
        BY <3>1, <4>1
      <4>4. ss[1] \in Seq(S) /\ ss[i] \in Seq(S) /\ f[(i - 1) - 1] \in Seq(S)
        <5>1. 1 \in 1 .. N
          BY <1>1
        <5>2. ss[1] \in Seq(S) /\ ss[i] \in Seq(S)
          BY <1>1, <3>1, <5>1, Zenon
        <5>3. f[(i - 1) - 1] \in Seq(S)
          BY <2>2, <4>1, Zenon
        <5> QED
          BY <5>2, <5>3
      <4>5. (ss[1] \o f[(i - 1) - 1]) \o ss[i] = ss[1] \o (f[(i - 1) - 1] \o ss[i])
        BY <1>0, <4>4, Zenon
      <4> QED
        BY <3>1, <3>2, <4>2, <4>3, <4>5
    <3> QED
      BY <3>3, <3>4
  <2>6. g[1] = ss[1] /\ g[N] = ss[1] \o f[N - 1]
    <3>1. 1 \in 1 .. N /\ N \in 1 .. N /\ N # 1
      <4> HIDE DEF g
      <4>1. N \in Nat
        BY <1>1
      <4>2. N > 1
        BY <2>2
      <4> HIDE DEF N
      <4> QED
        BY <4>1, <4>2
    <3> HIDE DEF N
    <3> QED
      BY <3>1
  <2> HIDE DEF g
  <2>7. FlattenSeq(ss) = g[N]
    BY <2>4, <2>5, <2>6, FlattenIs DEF Flattens
  <2>8. FlattenSeq(tt) = f[N - 1]
    BY <1>1, <1>3, <2>1, FlattenIs
  <2> QED
    BY <2>6, <2>7, <2>8 DEF tt
<1> QED
  BY <1>2, <1>3

-----------------------------------------------------------------------------
(* The inductive invariant. *)

(* The packets not yet given out, as bytes, and the bytes of the first of  *)
(* them that receive_packet has taken from the stream already.             *)
Pending == [i \in 1 .. Len(sent) - Len(received) |-> Bytes(sent[Len(received) + i])]
Taken == CASE at = "header" -> SubSeq(header, 1, len)
           [] at = "data"   -> header \o data
           [] OTHER         -> <<>>

(* The bytes that are still to come, when the sender sends them.           *)
Coming == stream \o missing

(* Where the loops of receive_packet are.  recv's -1 makes len smaller     *)
(* than what was read.                                                     *)
Loops ==
    /\ at = "header" => len \in 0 .. PACKET_HEADER_SIZE - 1
    /\ at = "data" =>
          /\ len \in 0 .. Len(data)
          /\ end # "broken" => len = Len(data)
          /\ Len(data) < DataSize(header)
          /\ PACKET_HEADER_SIZE + DataSize(header) <= SizeofPacket
    /\ at = "header" => data = <<>>

Thrown == end \in {"reset", "broken"} => stream = <<>>

(* What was taken and what is to come are the packets that are still to be *)
(* given out, until the sender throws them away.                           *)
Whole ==
    ~overrun =>
        /\ Len(received) <= Len(sent)
        /\ \A i \in 1 .. Len(received) : received[i] = sent[i]
        /\ at \in {"poll", "header", "data"} /\ end \in {"open", "closed"} =>
              Taken \o Coming = FlattenSeq(Pending)

Inv == TypeOK /\ DataInside /\ Loops /\ Thrown /\ Whole

-----------------------------------------------------------------------------
(* A packet's bytes. *)

HeadOf(p) == [i \in 1 .. LengthBytes |-> LengthByte(PACKET_HEADER_SIZE + Len(p.data), i)]
                \o <<p.type>>

LEMMA HeadFacts ==
    ASSUME NEW p \in Packet
    PROVE  /\ p.data \in Seq(Byte) /\ p.type \in Byte /\ p = [type |-> p.type, data |-> p.data]
           /\ Len(p.data) \in Nat /\ Len(p.data) <= MAX_PACKET_SIZE
           /\ HeadOf(p) \in Seq(Byte) /\ Len(HeadOf(p)) = PACKET_HEADER_SIZE
           /\ \A i \in 1 .. LengthBytes :
                 HeadOf(p)[i] = LengthByte(PACKET_HEADER_SIZE + Len(p.data), i)
           /\ HeadOf(p)[PACKET_HEADER_SIZE] = p.type
           /\ Bytes(p) = HeadOf(p) \o p.data
           /\ Bytes(p) \in Seq(Byte) /\ Len(Bytes(p)) = PACKET_HEADER_SIZE + Len(p.data)
<1>1. p \in [type : Byte \ {0}, data : Seq(Byte)]
  BY FramingAssumption
<1>2. /\ p.data \in Seq(Byte) /\ p.type \in Byte /\ p = [type |-> p.type, data |-> p.data]
      /\ Len(p.data) \in Nat /\ Len(p.data) <= MAX_PACKET_SIZE
  BY <1>1, FramingAssumption, LenProperties
<1> DEFINE n == PACKET_HEADER_SIZE + Len(p.data)
           A == [i \in 1 .. LengthBytes |-> LengthByte(n, i)]
<1>3. n \in Nat
  BY <1>2, Constants
<1> HIDE DEF n
<1>4. ASSUME NEW i \in 1 .. LengthBytes PROVE LengthByte(n, i) \in Byte
  <2>1. i - 1 \in 0 .. LengthBytes
    BY Constants
  <2>2. Weight[i - 1] \in Nat /\ Weight[i - 1] >= 1
    BY <2>1, WeightFacts
  <2>3. (n \div Weight[i - 1]) % BASE \in 0 .. BASE - 1
    <3> DEFINE W == Weight[i - 1]
    <3>1. W \in Nat /\ W >= 1
      BY <2>2
    <3> HIDE DEF W
    <3>2. (n \div W) % BASE \in 0 .. BASE - 1
      BY <1>3, <3>1, Constants, OneByte
    <3> QED
      BY <3>2 DEF W
  <2> QED
    BY <2>3 DEF LengthByte, Byte
<1>5. A \in Seq(Byte) /\ Len(A) = LengthBytes
  <2>1. A \in [1 .. LengthBytes -> Byte]
    BY <1>4
  <2> QED
    BY <2>1, Constants, SeqDef, LenProperties
<1>6. <<p.type>> \in Seq(Byte) /\ Len(<<p.type>>) = 1 /\ <<p.type>>[1] = p.type
  BY <1>2
<1>7. /\ A \o <<p.type>> \in Seq(Byte) /\ Len(A \o <<p.type>>) = PACKET_HEADER_SIZE
      /\ \A i \in 1 .. LengthBytes : (A \o <<p.type>>)[i] = A[i]
      /\ (A \o <<p.type>>)[PACKET_HEADER_SIZE] = p.type
  <2>1. /\ A \o <<p.type>> \in Seq(Byte) /\ Len(A \o <<p.type>>) = LengthBytes + 1
        /\ \A i \in 1 .. LengthBytes + 1 : (A \o <<p.type>>)[i] =
              IF i <= LengthBytes THEN A[i] ELSE <<p.type>>[i - LengthBytes]
    <3> DEFINE t == <<p.type>>
    <3>1. t \in Seq(Byte) /\ Len(t) = 1
      BY <1>6
    <3> HIDE DEF t, A
    <3>2. /\ A \o t \in Seq(Byte) /\ Len(A \o t) = LengthBytes + 1
          /\ \A i \in 1 .. LengthBytes + 1 : (A \o t)[i] =
                IF i <= LengthBytes THEN A[i] ELSE t[i - LengthBytes]
      <4>1. /\ A \o t \in Seq(Byte) /\ Len(A \o t) = Len(A) + Len(t)
            /\ \A i \in 1 .. Len(A) + Len(t) : (A \o t)[i] =
                  IF i <= Len(A) THEN A[i] ELSE t[i - Len(A)]
        BY <1>5, <3>1, ConcatProperties
      <4> QED
        BY <1>5, <3>1, <4>1
    <3> QED
      BY <3>2 DEF t
  <2> HIDE DEF A
  <2> QED
    BY <2>1, <1>6, Constants
<1>8. HeadOf(p) = A \o <<p.type>>
  BY DEF HeadOf, n
<1>9. Bytes(p) = HeadOf(p) \o p.data
  BY DEF Bytes, HeadOf
<1>10. \A i \in 1 .. LengthBytes : A[i] = LengthByte(n, i)
  OBVIOUS
<1> HIDE DEF A
<1>11. Bytes(p) \in Seq(Byte) /\ Len(Bytes(p)) = PACKET_HEADER_SIZE + Len(p.data)
  BY <1>2, <1>7, <1>8, <1>9, ConcatProperties
<1> QED
  BY <1>2, <1>7, <1>8, <1>9, <1>10, <1>11 DEF n

LEMMA AssocBytes == \A x, y, z \in Seq(Byte) : (x \o y) \o z = x \o (y \o z)
  BY ConcatAssociative

(* What is read first of a packet's bytes is its header.                   *)
LEMMA HeadRead ==
    ASSUME NEW p \in Packet, NEW h \in Seq(Byte), NEW b \in Seq(Byte), NEW rest \in Seq(Byte),
           Len(h) = PACKET_HEADER_SIZE, h \o b = Bytes(p) \o rest
    PROVE  /\ h[PACKET_HEADER_SIZE] = p.type
           /\ Length(h) = PACKET_HEADER_SIZE + Len(p.data)
           /\ DataSize(h) = Len(p.data)
           /\ b = p.data \o rest
<1> DEFINE t == p.data \o rest
<1>1. t \in Seq(Byte) /\ h \o b = HeadOf(p) \o t
  <2>1. /\ HeadOf(p) \in Seq(Byte) /\ p.data \in Seq(Byte)
        /\ Bytes(p) = HeadOf(p) \o p.data
    BY HeadFacts
  <2>2. (HeadOf(p) \o p.data) \o rest = HeadOf(p) \o (p.data \o rest)
    BY <2>1, AssocBytes, Zenon
  <2>3. t \in Seq(Byte)
    BY <2>1, ConcatProperties
  <2> QED
    BY <2>1, <2>2, <2>3
<1>2. h = HeadOf(p) /\ b = t
  <2> HIDE DEF t
  <2> QED
    BY <1>1, HeadFacts, SplitEqual
<1>3. h \in [1 .. PACKET_HEADER_SIZE -> Byte]
  BY LenProperties
<1> DEFINE n == PACKET_HEADER_SIZE + Len(p.data)
<1>4. n \in Nat /\ n < Weight[LengthBytes]
  <2>1. Weight[LengthBytes] \in Nat
    BY WeightFacts, Constants
  <2>2. n \in Nat /\ n <= PACKET_HEADER_SIZE + MAX_PACKET_SIZE
    <3>1. Len(p.data) \in Nat /\ Len(p.data) <= MAX_PACKET_SIZE
      BY HeadFacts, Zenon
    <3>2. PACKET_HEADER_SIZE \in Nat /\ MAX_PACKET_SIZE \in Nat
      BY Constants
    <3> QED
      BY <3>1, <3>2
  <2>3. PACKET_HEADER_SIZE + MAX_PACKET_SIZE < Weight[LengthBytes]
    BY FramingAssumption
  <2> HIDE DEF n
  <2> QED
    BY <2>1, <2>2, <2>3, Constants
<1>5. Length(h) = n
  <2>1. \A i \in 1 .. LengthBytes : h[i] = LengthByte(n, i)
    BY <1>2, HeadFacts
  <2> HIDE DEF n
  <2> QED
    BY <1>3, <1>4, <2>1, LengthOfBytes
<1>6. DataSize(h) = Len(p.data)
  <2>1. Len(p.data) \in Nat /\ PACKET_HEADER_SIZE \in Nat
    BY HeadFacts, Constants
  <2> QED
    BY <1>5, <2>1 DEF DataSize
<1> QED
  BY <1>2, <1>5, <1>6, HeadFacts

(* Whatever is in a header, its length is a number.                        *)
LEMMA LengthIsNumber ==
    ASSUME NEW h \in [1 .. PACKET_HEADER_SIZE -> Byte]
    PROVE  Length(h) \in Nat /\ DataSize(h) \in Int /\ DataSize(h) = Length(h) - PACKET_HEADER_SIZE
<1>1. Length(h) \in Nat
  BY LengthSum, Constants
<1> QED
  BY <1>1, Constants DEF DataSize

-----------------------------------------------------------------------------
(* What is pending. *)

LEMMA PendingFacts ==
    ASSUME TypeOK, Len(received) <= Len(sent)
    PROVE  /\ Len(received) \in Nat /\ Len(sent) \in Nat
           /\ Pending \in Seq(Seq(Byte)) /\ Len(Pending) = Len(sent) - Len(received)
           /\ \A i \in 1 .. Len(sent) - Len(received) : Pending[i] = Bytes(sent[Len(received) + i])
           /\ FlattenSeq(Pending) \in Seq(Byte)
<1>1. Len(received) \in Nat /\ Len(sent) \in Nat
  BY LenProperties DEF TypeOK
<1> DEFINE m == Len(sent) - Len(received)
<1>2. m \in Nat
  BY <1>1
<1>3. ASSUME NEW i \in 1 .. m PROVE Bytes(sent[Len(received) + i]) \in Seq(Byte)
  <2>1. Len(received) + i \in 1 .. Len(sent)
    BY <1>1
  <2>2. sent[Len(received) + i] \in Packet
    BY <2>1, ElementOfSeq DEF TypeOK
  <2> QED
    BY <2>2, HeadFacts
<1>4. Pending \in [1 .. m -> Seq(Byte)]
  BY <1>3 DEF Pending
<1>5. Pending \in Seq(Seq(Byte)) /\ Len(Pending) = m
  <2> HIDE DEF m
  <2> QED
    BY <1>2, <1>4, SeqDef, LenProperties
<1>6. \A i \in 1 .. m : Pending[i] = Bytes(sent[Len(received) + i])
  BY DEF Pending
<1> QED
  BY <1>1, <1>5, <1>6, FlattenType

(* When there are bytes, there is a packet they belong to.                 *)
LEMMA Current ==
    ASSUME TypeOK, Len(received) <= Len(sent), FlattenSeq(Pending) # <<>>
    PROVE  /\ Len(received) < Len(sent) /\ sent[Len(received) + 1] \in Packet
           /\ Pending # <<>> /\ Tail(Pending) \in Seq(Seq(Byte))
           /\ FlattenSeq(Tail(Pending)) \in Seq(Byte)
           /\ FlattenSeq(Pending) = Bytes(sent[Len(received) + 1]) \o FlattenSeq(Tail(Pending))
<1>1. Pending # <<>>
  BY FlattenEmpty
<1>2. Len(received) < Len(sent)
  BY <1>1, PendingFacts, EmptySeq
<1>3. sent[Len(received) + 1] \in Packet
  <2>1. Len(received) + 1 \in 1 .. Len(sent)
    BY <1>2, PendingFacts
  <2> QED
    BY <2>1, ElementOfSeq DEF TypeOK
<1>4. Pending[1] = Bytes(sent[Len(received) + 1])
  <2>1. 1 \in 1 .. Len(sent) - Len(received)
    BY <1>2, PendingFacts
  <2> QED
    BY <2>1, PendingFacts
<1>5. Tail(Pending) \in Seq(Seq(Byte))
  BY <1>1, PendingFacts, HeadTailProperties
<1> QED
  BY <1>1, <1>2, <1>3, <1>4, <1>5, PendingFacts, FlattenTail, FlattenType

(* A packet is given out. *)
LEMMA Returned ==
    ASSUME TypeOK, Len(received) < Len(sent), UNCHANGED sent,
           \A i \in 1 .. Len(received) : received[i] = sent[i],
           received' = Append(received, sent[Len(received) + 1]),
           sent[Len(received) + 1] \in Packet
    PROVE  /\ Len(received') <= Len(sent')
           /\ \A i \in 1 .. Len(received') : received'[i] = sent'[i]
           /\ Pending' = Tail(Pending)
           /\ received' \in Seq([type : Byte, data : Seq(Byte)])
<1> DEFINE p == sent[Len(received) + 1]
           R == [type : Byte, data : Seq(Byte)]
<1>1. p \in R
  <2>1. p.data \in Seq(Byte) /\ p.type \in Byte /\ p = [type |-> p.type, data |-> p.data]
    BY HeadFacts
  <2> HIDE DEF p
  <2> QED
    BY <2>1
<1>2. /\ received' \in Seq(R) /\ Len(received') = Len(received) + 1
      /\ \A i \in 1 .. Len(received) : received'[i] = received[i]
      /\ received'[Len(received) + 1] = sent[Len(received) + 1]
  <2> HIDE DEF R, p
  <2>1. received \in Seq(R)
    BY DEF TypeOK, R
  <2>2. received' = Append(received, p)
    BY DEF p
  <2>3. /\ received' \in Seq(R) /\ Len(received') = Len(received) + 1
        /\ \A i \in 1 .. Len(received) : received'[i] = received[i]
        /\ received'[Len(received) + 1] = p
    BY <1>1, <2>1, <2>2, AppendProperties
  <2> QED
    BY <2>3 DEF p
<1> HIDE DEF R
<1>3. Len(received) \in Nat /\ Len(sent) \in Nat
  BY LenProperties DEF TypeOK
<1>4. ASSUME NEW i \in 1 .. Len(received') PROVE received'[i] = sent'[i]
  BY <1>2, <1>3
<1>5. Pending' = Tail(Pending)
  <2> DEFINE m == Len(sent) - Len(received)
  <2>1. m \in Nat /\ m > 0 /\ Len(sent') - Len(received') = m - 1
    BY <1>2, <1>3
  <2>2. /\ Pending \in Seq(Seq(Byte)) /\ Len(Pending) = m
        /\ \A i \in 1 .. m : Pending[i] = Bytes(sent[Len(received) + i])
    BY <1>3, PendingFacts
  <2>3. /\ Tail(Pending) \in Seq(Seq(Byte)) /\ Len(Tail(Pending)) = m - 1
        /\ \A i \in 1 .. m - 1 : Tail(Pending)[i] = Pending[i + 1]
    BY <2>1, <2>2, HeadTailProperties, EmptySeq
  <2>4. Pending' = [i \in 1 .. m - 1 |-> Bytes(sent[(Len(received) + 1) + i])]
    <3>1. Pending' = [i \in 1 .. Len(sent') - Len(received') |-> Bytes(sent'[Len(received') + i])]
      BY DEF Pending
    <3> HIDE DEF m
    <3> QED
      BY <1>2, <2>1, <3>1
  <2>5. ASSUME NEW i \in 1 .. m - 1
        PROVE  Tail(Pending)[i] = Bytes(sent[(Len(received) + 1) + i])
    <3>1. i + 1 \in 1 .. m /\ Len(received) + (i + 1) = (Len(received) + 1) + i
      BY <1>3, <2>1
    <3> HIDE DEF m
    <3> QED
      BY <2>2, <2>3, <3>1
  <2>6. Tail(Pending) = [i \in 1 .. m - 1 |-> Tail(Pending)[i]]
    BY <2>3, LenProperties
  <2> HIDE DEF m
  <2> QED
    BY <2>4, <2>5, <2>6
<1> QED
  BY <1>2, <1>3, <1>4, <1>5 DEF R

-----------------------------------------------------------------------------
(* The sender's steps. *)

LEMMA InitInv == Init => Inv
<1> SUFFICES ASSUME Init PROVE Inv
  OBVIOUS
<1>1. Zeros(PACKET_HEADER_SIZE) \in [1 .. PACKET_HEADER_SIZE -> Byte]
  BY Constants DEF Zeros, Byte
<1>2. TypeOK
  <2>1. <<>> \in Seq(Packet) /\ <<>> \in Seq(Byte)
        /\ <<>> \in Seq([type : Byte, data : Seq(Byte)])
    BY EmptySeq
  <2>2. 0 \in -1 .. SizeofPacket
    BY Constants
  <2> QED
    BY <1>1, <2>1, <2>2 DEF Init, TypeOK
<1>3. Len(data) = 0 /\ Len(sent) = 0 /\ Len(received) = 0
  BY DEF Init
<1>4. DataInside /\ Loops /\ Thrown
  BY <1>3, Constants DEF Init, DataInside, Loops, Thrown
<1>5. Whole
  <2>1. Pending = <<>>
    BY <1>3 DEF Pending
  <2>2. Taken \o Coming = <<>>
    BY DEF Init, Taken, Coming
  <2> QED
    BY <1>3, <2>1, <2>2, FlattenEmpty DEF Whole
<1> QED
  BY <1>2, <1>4, <1>5 DEF Inv

(* What was taken is a sequence of bytes. *)
LEMMA TakenType ==
    ASSUME Inv
    PROVE  /\ header \in Seq(Byte) /\ Len(header) = PACKET_HEADER_SIZE
           /\ Taken \in Seq(Byte)
           /\ at = "header" => Len(Taken) = len
           /\ at = "data" => Len(Taken) = PACKET_HEADER_SIZE + Len(data)
<1>1. header \in Seq(Byte) /\ Len(header) = PACKET_HEADER_SIZE
  BY Constants, SeqDef, LenProperties DEF Inv, TypeOK
<1>2. CASE at = "header"
  <2>1. len \in 0 .. Len(header)
    BY <1>1, <1>2, Constants DEF Inv, Loops
  <2> QED
    BY <1>1, <1>2, <2>1, Cut DEF Taken, CutAt
<1>3. CASE at = "data"
  BY <1>1, <1>3, ConcatProperties DEF Taken, Inv, TypeOK
<1>4. CASE at \notin {"header", "data"}
  BY <1>1, <1>4 DEF Taken
<1> QED
  BY <1>1, <1>2, <1>3, <1>4

(* What is to come is a sequence of bytes. *)
LEMMA ComingType ==
    ASSUME Inv
    PROVE  stream \in Seq(Byte) /\ missing \in Seq(Byte) /\ Coming \in Seq(Byte)
<1>1. stream \in Seq(Byte) /\ missing \in Seq(Byte)
  BY DEF Inv, TypeOK
<1> QED
  BY <1>1, ConcatProperties DEF Coming

LEMMA SendInv ==
    ASSUME Inv, NEW p \in Packet, Send(p)
    PROVE  Inv'
<1>1. /\ end = "open" /\ missing = <<>> /\ sent' = Append(sent, p)
      /\ UNCHANGED <<end, at, len, header, data, received, overrun>>
  BY DEF Send
<1>2. Bytes(p) \in Seq(Byte) /\ stream \in Seq(Byte)
  BY HeadFacts DEF Inv, TypeOK
<1>3. stream' \in Seq(Byte) /\ missing' \in Seq(Byte) /\ Coming' = Coming \o Bytes(p)
  <2> DEFINE b == Bytes(p)
  <2>1. PICK k \in 1 .. Len(b) :
          /\ stream' = stream \o SubSeq(b, 1, k)
          /\ missing' = SubSeq(b, k + 1, Len(b))
    BY DEF Send
  <2> HIDE DEF b
  <2> DEFINE first == SubSeq(b, 1, k)
             rest == SubSeq(b, k + 1, Len(b))
  <2>2. b \in Seq(Byte) /\ k \in 0 .. Len(b)
    BY <1>2, LenProperties DEF b
  <2>3. first \in Seq(Byte) /\ rest \in Seq(Byte) /\ b = first \o rest
    BY <2>2, Cut DEF CutAt
  <2>4. stream' = stream \o first /\ missing' = rest
    BY <2>1
  <2> HIDE DEF first, rest
  <2>5. stream' \in Seq(Byte) /\ missing' \in Seq(Byte)
    BY <1>2, <2>3, <2>4, ConcatProperties
  <2>6. (stream \o first) \o rest = stream \o (first \o rest)
    <3>1. stream \in Seq(Byte) /\ first \in Seq(Byte) /\ rest \in Seq(Byte)
      BY <1>2, <2>3
    <3> QED
      BY <3>1, AssocBytes, Zenon
  <2>7. Coming = stream
    BY <1>1, <1>2, ConcatEmptySeq DEF Coming
  <2> QED
    BY <2>3, <2>4, <2>5, <2>6, <2>7 DEF Coming, b
<1>4. /\ sent' \in Seq(Packet) /\ Len(sent') = Len(sent) + 1 /\ Len(sent) \in Nat
      /\ \A i \in 1 .. Len(sent) : sent'[i] = sent[i]
      /\ sent'[Len(sent) + 1] = p
  BY <1>1, AppendProperties, LenProperties DEF Inv, TypeOK
<1>5. TypeOK' /\ DataInside' /\ Loops' /\ Thrown'
  BY <1>1, <1>3, <1>4 DEF Inv, TypeOK, DataInside, Loops, Thrown, DataSize, Length
<1>6. Whole'
  <2> SUFFICES ASSUME ~overrun PROVE Whole'
    BY <1>1 DEF Whole
  <2>1. Len(received) <= Len(sent) /\ \A i \in 1 .. Len(received) : received[i] = sent[i]
    BY DEF Inv, Whole
  <2>2. /\ Pending \in Seq(Seq(Byte)) /\ Len(Pending) = Len(sent) - Len(received)
        /\ Len(received) \in Nat
        /\ \A i \in 1 .. Len(sent) - Len(received) : Pending[i] = Bytes(sent[Len(received) + i])
        /\ FlattenSeq(Pending) \in Seq(Byte)
    BY <2>1, PendingFacts DEF Inv
  <2>3. Pending' = Append(Pending, Bytes(p))
    <3> DEFINE m == Len(sent) - Len(received)
    <3>1. m \in Nat /\ Len(sent') - Len(received') = m + 1
      BY <1>1, <1>4, <2>1, <2>2
    <3>2. Pending' = [i \in 1 .. m + 1 |-> Bytes(sent'[Len(received) + i])]
      <4>1. Pending' = [i \in 1 .. Len(sent') - Len(received') |-> Bytes(sent'[Len(received') + i])]
        BY DEF Pending
      <4> HIDE DEF m
      <4> QED
        BY <1>1, <3>1, <4>1
    <3>3. ASSUME NEW i \in 1 .. m
          PROVE  Bytes(sent'[Len(received) + i]) = Pending[i]
      <4>1. Len(received) + i \in 1 .. Len(sent)
        BY <1>4, <2>2
      <4> QED
        BY <1>4, <2>2, <4>1
    <3>4. Len(received) + (m + 1) = Len(sent) + 1
      BY <1>4, <2>2
    <3>5. Bytes(sent'[Len(received) + (m + 1)]) = Bytes(p)
      BY <1>4, <3>4
    <3>6. /\ Append(Pending, Bytes(p)) \in Seq(Seq(Byte))
          /\ Len(Append(Pending, Bytes(p))) = m + 1
          /\ \A i \in 1 .. m : Append(Pending, Bytes(p))[i] = Pending[i]
          /\ Append(Pending, Bytes(p))[m + 1] = Bytes(p)
      BY <1>2, <2>2, AppendProperties
    <3> DEFINE A == Append(Pending, Bytes(p))
    <3>7. A = [i \in 1 .. m + 1 |-> A[i]]
      BY <3>6, LenProperties
    <3> HIDE DEF m, A
    <3>8. ASSUME NEW i \in 1 .. m + 1
          PROVE  Bytes(sent'[Len(received) + i]) = A[i]
      <4>1. i \in 1 .. m \/ i = m + 1
        BY <3>1
      <4> QED
        BY <3>3, <3>5, <3>6, <4>1 DEF A
    <3> QED
      BY <3>2, <3>7, <3>8 DEF A
  <2>4. FlattenSeq(Pending') = FlattenSeq(Pending) \o Bytes(p)
    BY <1>2, <2>2, <2>3, FlattenAppend
  <2>5. ASSUME at \in {"poll", "header", "data"}
        PROVE  Taken' \o Coming' = FlattenSeq(Pending')
    <3>1. Taken \o Coming = FlattenSeq(Pending)
      BY <1>1, <2>5 DEF Inv, Whole
    <3>2. Taken' = Taken
      BY <1>1 DEF Taken
    <3> DEFINE t == Taken
               b == Bytes(p)
               c == Coming
    <3>3. t \in Seq(Byte) /\ b \in Seq(Byte) /\ c \in Seq(Byte)
      BY <1>2, TakenType, ComingType
    <3> HIDE DEF t, b, c
    <3>4. (t \o c) \o b = t \o (c \o b)
      BY <3>3, AssocBytes, Zenon
    <3> QED
      BY <1>3, <2>4, <3>1, <3>2, <3>4 DEF t, b, c
  <2>6. ASSUME NEW i \in 1 .. Len(received) PROVE received[i] = sent'[i]
    BY <1>4, <2>1, <2>2
  <2>7. Len(received) <= Len(sent')
    BY <1>4, <2>1, <2>2
  <2>8. received' = received /\ at' = at
    BY <1>1
  <2> HIDE DEF Taken, Pending, Coming
  <2> QED
    BY <2>5, <2>6, <2>7, <2>8 DEF Whole
<1> QED
  BY <1>5, <1>6 DEF Inv

LEMMA SendRestInv ==
    ASSUME Inv, SendRest
    PROVE  Inv'
<1>1. /\ end = "open" /\ stream' = stream \o missing /\ missing' = <<>>
      /\ UNCHANGED <<sent, end, at, len, header, data, received, overrun>>
  BY DEF SendRest
<1>2. stream' = Coming /\ stream' \in Seq(Byte) /\ missing' \in Seq(Byte)
  BY <1>1, ComingType, EmptySeq DEF Coming
<1>3. Coming' = Coming
  BY <1>1, <1>2, ConcatEmptySeq DEF Coming
<1>4. Taken' = Taken /\ Pending' = Pending
  BY <1>1 DEF Taken, Pending
<1>5. Whole'
  BY <1>1, <1>3, <1>4 DEF Inv, Whole
<1>6. TypeOK' /\ DataInside' /\ Loops' /\ Thrown'
  BY <1>1, <1>2 DEF Inv, TypeOK, DataInside, Loops, Thrown, DataSize, Length
<1> QED
  BY <1>5, <1>6 DEF Inv

LEMMA CloseEndInv ==
    ASSUME Inv, CloseEnd
    PROVE  Inv'
<1>1. /\ end = "open" /\ end' = "closed"
      /\ UNCHANGED <<sent, stream, missing, at, len, header, data, received, overrun>>
  BY DEF CloseEnd
<1>2. Taken' = Taken /\ Pending' = Pending /\ Coming' = Coming
  BY <1>1 DEF Taken, Pending, Coming
<1>3. Whole'
  BY <1>1, <1>2 DEF Inv, Whole
<1>4. TypeOK' /\ DataInside' /\ Loops' /\ Thrown'
  BY <1>1 DEF Inv, TypeOK, DataInside, Loops, Thrown, DataSize, Length
<1> QED
  BY <1>3, <1>4 DEF Inv

LEMMA ResetInv ==
    ASSUME Inv, Reset
    PROVE  Inv'
<1>1. /\ end = "open" /\ end' = "reset" /\ stream' = <<>>
      /\ UNCHANGED <<sent, missing, at, len, header, data, received, overrun>>
  BY DEF Reset
<1>2. TypeOK' /\ DataInside' /\ Loops' /\ Thrown'
  BY <1>1 DEF Inv, TypeOK, DataInside, Loops, Thrown, DataSize, Length
<1> QED
  BY <1>1, <1>2 DEF Inv, Whole

-----------------------------------------------------------------------------
(* receive_packet's steps. *)

LEMMA StartInv ==
    ASSUME Inv, Start
    PROVE  Inv'
<1>1. /\ at = "poll" /\ at' = "header" /\ len' = 0
      /\ header' = Zeros(PACKET_HEADER_SIZE) /\ data' = <<>>
      /\ UNCHANGED <<sent, stream, missing, end, received, overrun>>
  BY DEF Start
<1>2. header' \in [1 .. PACKET_HEADER_SIZE -> Byte]
  BY <1>1, Constants DEF Zeros, Byte
<1>3. TypeOK'
  BY <1>1, <1>2, Constants DEF Inv, TypeOK
<1>4. Len(data') = 0
  BY <1>1
<1>5. DataInside' /\ Loops' /\ Thrown'
  BY <1>1, <1>4, Constants DEF Inv, DataInside, Loops, Thrown
<1>6. Taken = <<>> /\ Taken' = <<>> /\ Pending' = Pending /\ Coming' = Coming
  <2>1. SubSeq(header', 1, 0) = <<>>
    BY SubSeqEmpty
  <2> QED
    BY <1>1, <2>1 DEF Taken, Pending, Coming
<1>7. Whole'
  BY <1>1, <1>6 DEF Inv, Whole
<1> QED
  BY <1>3, <1>5, <1>7 DEF Inv

LEMMA RecvEndInv ==
    ASSUME Inv, RecvEnd
    PROVE  Inv'
<1>1. at' = "closed" /\ UNCHANGED <<sent, stream, missing, end, len, header, data, received, overrun>>
  BY DEF RecvEnd
<1>2. TypeOK' /\ DataInside' /\ Loops' /\ Thrown'
  BY <1>1 DEF Inv, TypeOK, DataInside, Loops, Thrown
<1> QED
  BY <1>1, <1>2 DEF Inv, Whole

LEMMA RecvErrorInv ==
    ASSUME Inv, RecvError
    PROVE  Inv'
<1>1. /\ at \in {"header", "data"} /\ end = "reset" /\ end' = "broken" /\ len' = len - 1
      /\ at' = IF len' < 0 \/ (at = "header" /\ len' = 0) THEN "closed" ELSE at
      /\ UNCHANGED <<sent, stream, missing, header, data, received, overrun>>
  BY DEF RecvError
<1>2. Len(data) \in Nat /\ len \in Nat
  BY <1>1, Constants, LenProperties DEF Inv, TypeOK, Loops
<1>3. len' \in -1 .. SizeofPacket
  BY <1>1, <1>2, Constants DEF Inv, TypeOK
<1>4. TypeOK'
  BY <1>1, <1>3 DEF Inv, TypeOK
<1>5. DataSize(header') = DataSize(header)
  BY <1>1
<1>6. DataInside' /\ Thrown' /\ Loops'
  BY <1>1, <1>2, <1>5, Constants DEF Inv, DataInside, Loops, Thrown
<1> QED
  BY <1>1, <1>4, <1>6 DEF Inv, Whole

(* What recv returns is cut off the stream. *)
LEMMA TakeFacts ==
    ASSUME Inv, NEW want \in Int, NEW k \in Got(want), Take(k)
    PROVE  /\ k \in Nat /\ k >= 1 /\ k <= want /\ k <= Len(stream) /\ Len(stream) \in Nat
           /\ SubSeq(stream, 1, k) \in Seq(Byte) /\ Len(SubSeq(stream, 1, k)) = k
           /\ \A i \in 1 .. k : SubSeq(stream, 1, k)[i] \in Byte
           /\ stream \in Seq(Byte) /\ stream' \in Seq(Byte)
           /\ stream = SubSeq(stream, 1, k) \o stream'
           /\ end \in {"open", "closed"}
<1>1. stream \in Seq(Byte) /\ Len(stream) \in Nat
  BY LenProperties DEF Inv, TypeOK
<1>2. k \in Nat /\ k >= 1 /\ k <= want /\ k <= Len(stream)
  BY DEF Got
<1>3. k \in 0 .. Len(stream)
  BY <1>1, <1>2
<1>4. /\ SubSeq(stream, 1, k) \in Seq(Byte) /\ Len(SubSeq(stream, 1, k)) = k
      /\ stream' \in Seq(Byte) /\ stream = SubSeq(stream, 1, k) \o stream'
  <2>1. stream' = SubSeq(stream, k + 1, Len(stream))
    BY DEF Take
  <2> QED
    <3> DEFINE got == SubSeq(stream, 1, k)
               left == SubSeq(stream, k + 1, Len(stream))
    <3>1. CutAt(Byte, stream, k, got, left)
      BY <1>1, <1>3, Cut
    <3> HIDE DEF left
    <3>2. stream' = left
      BY <2>1 DEF left
    <3> HIDE DEF got
    <3>3. got \in Seq(Byte) /\ Len(got) = k /\ left \in Seq(Byte) /\ stream = got \o left
      BY <3>1, Zenon DEF CutAt
    <3> QED
      BY <3>2, <3>3, Zenon DEF got
<1>5. \A i \in 1 .. k : SubSeq(stream, 1, k)[i] \in Byte
  BY <1>4, ElementOfSeq
<1>6. end \in {"open", "closed"}
  <2>1. stream # <<>>
    BY <1>1, <1>2, EmptySeq
  <2> QED
    BY <2>1 DEF Inv, Thrown, TypeOK
<1> QED
  BY <1>1, <1>2, <1>4, <1>5, <1>6

(* The three ways out of the first loop. *)
LEMMA HeadedFacts ==
    ASSUME NEW h, Length(h) \in Nat, DataSize(h) \in Int, Headed(h)
    PROVE  \/ at' = "closed" /\ UNCHANGED received
           \/ /\ at' = "poll" /\ DataSize(h) <= 0
              /\ received' = Append(received, [type |-> h[PACKET_HEADER_SIZE], data |-> <<>>])
           \/ /\ at' = "data" /\ UNCHANGED received
              /\ Length(h) <= SizeofPacket /\ DataSize(h) > 0
  BY Constants DEF Headed, Return

LEMMA RecvHeaderInv ==
    ASSUME Inv, RecvHeader
    PROVE  Inv'
<1>1. at = "header" /\ UNCHANGED <<sent, missing, end, data>>
  BY DEF RecvHeader
<1>2. PICK k \in Got(PACKET_HEADER_SIZE - len) :
        /\ Take(k)
        /\ header' = IF len = 0 THEN Put(header, 0, SubSeq(stream, 1, k)) ELSE header
        /\ overrun' = (overrun \/ len > 0)
        /\ len' = IF len + k = PACKET_HEADER_SIZE THEN 0 ELSE len + k
        /\ \/ IF len + k = PACKET_HEADER_SIZE THEN Headed(header') ELSE UNCHANGED <<at, received>>
           \/ len > 0 /\ at' = "crashed" /\ UNCHANGED received
  BY DEF RecvHeader
<1> DEFINE got == SubSeq(stream, 1, k)
<1>3. len \in Nat /\ len < PACKET_HEADER_SIZE /\ data = <<>> /\ Len(data) = 0
  BY <1>1, Constants DEF Inv, Loops
<1>4. /\ k \in Nat /\ k >= 1 /\ len + k <= PACKET_HEADER_SIZE
      /\ got \in Seq(Byte) /\ Len(got) = k /\ (\A i \in 1 .. k : got[i] \in Byte)
      /\ stream \in Seq(Byte) /\ stream' \in Seq(Byte) /\ stream = got \o stream'
      /\ end \in {"open", "closed"}
  <2>1. PACKET_HEADER_SIZE - len \in Int
    BY <1>3, Constants
  <2>2. k <= PACKET_HEADER_SIZE - len
    BY <1>2, <2>1, TakeFacts
  <2>3. k \in Nat /\ len + k <= PACKET_HEADER_SIZE
    BY <1>2, <1>3, <2>1, <2>2, Constants, TakeFacts
  <2> QED
    BY <1>2, <2>1, <2>3, TakeFacts
<1>5. len = 0 => \A i \in 1 .. PACKET_HEADER_SIZE :
                    header'[i] = IF i <= k THEN got[i] ELSE header[i]
  <2>1. DOMAIN header = 1 .. PACKET_HEADER_SIZE
    BY DEF Inv, TypeOK
  <2> HIDE DEF got
  <2>2. \A i \in 1 .. PACKET_HEADER_SIZE : i - 0 = i /\ (i \in 0 + 1 .. 0 + k <=> i <= k)
    BY <1>4
  <2>3. Put(header, 0, got) = [i \in 1 .. PACKET_HEADER_SIZE |->
                                  IF i \in 0 + 1 .. 0 + k THEN got[i - 0] ELSE header[i]]
    BY <1>4, <2>1 DEF Put
  <2>4. len = 0 => header' = Put(header, 0, got)
    BY <1>2 DEF got
  <2> QED
    BY <2>2, <2>3, <2>4
<1>6. header' \in [1 .. PACKET_HEADER_SIZE -> Byte]
  <2>1. CASE len = 0
    <3>1. DOMAIN header' = 1 .. PACKET_HEADER_SIZE /\ header' = [i \in DOMAIN header' |-> header'[i]]
      BY <1>2, <2>1 DEF Put, Inv, TypeOK
    <3>2. ASSUME NEW i \in 1 .. PACKET_HEADER_SIZE PROVE header'[i] \in Byte
      <4> HIDE DEF got
      <4>1. i <= k => i \in 1 .. k
        BY <1>4
      <4> QED
        BY <1>4, <1>5, <2>1, <4>1 DEF Inv, TypeOK
    <3> QED
      BY <3>1, <3>2
  <2>2. CASE len # 0
    BY <1>2, <2>2 DEF Inv, TypeOK
  <2> QED
    BY <2>1, <2>2
<1>7. Length(header') \in Nat /\ DataSize(header') \in Int
      /\ DataSize(header') = Length(header') - PACKET_HEADER_SIZE
  BY <1>6, LengthIsNumber
<1>8. \/ /\ len + k # PACKET_HEADER_SIZE /\ len' = len + k
         /\ UNCHANGED <<at, received>>
      \/ /\ at' = "crashed" /\ len > 0 /\ UNCHANGED received /\ len' \in 0 .. PACKET_HEADER_SIZE
      \/ /\ len + k = PACKET_HEADER_SIZE /\ len' = 0
         /\ at' = "closed" /\ UNCHANGED received
      \/ /\ len + k = PACKET_HEADER_SIZE /\ len' = 0
         /\ at' = "poll" /\ DataSize(header') <= 0
         /\ received' = Append(received, [type |-> header'[PACKET_HEADER_SIZE], data |-> <<>>])
      \/ /\ len + k = PACKET_HEADER_SIZE /\ len' = 0
         /\ at' = "data" /\ UNCHANGED received
         /\ Length(header') <= SizeofPacket /\ DataSize(header') > 0
  <2>1. len' \in 0 .. PACKET_HEADER_SIZE
    BY <1>2, <1>3, <1>4, Constants
  <2>2. Headed(header') =>
          \/ at' = "closed" /\ UNCHANGED received
          \/ /\ at' = "poll" /\ DataSize(header') <= 0
             /\ received' = Append(received, [type |-> header'[PACKET_HEADER_SIZE], data |-> <<>>])
          \/ /\ at' = "data" /\ UNCHANGED received
             /\ Length(header') <= SizeofPacket /\ DataSize(header') > 0
    BY <1>7, HeadedFacts
  <2> QED
    BY <1>2, <2>1, <2>2
<1>9. TypeOK'
  <2>1. len' \in -1 .. SizeofPacket /\ at' \in {"poll", "header", "data", "closed", "crashed"}
    BY <1>1, <1>3, <1>4, <1>8, Constants
  <2>2. received' \in Seq([type : Byte, data : Seq(Byte)])
    <3> DEFINE r == [type |-> header'[PACKET_HEADER_SIZE], data |-> <<>>]
               R == [type : Byte, data : Seq(Byte)]
    <3>1. r \in R
      <4>1. header'[PACKET_HEADER_SIZE] \in Byte /\ <<>> \in Seq(Byte)
        BY <1>6, Constants, EmptySeq
      <4> QED
        BY <4>1
    <3>2. received \in Seq(R)
      BY DEF Inv, TypeOK
    <3>3. UNCHANGED received \/ received' = Append(received, r)
      BY <1>8
    <3> HIDE DEF r, R
    <3>4. received' \in Seq(R)
      BY <3>1, <3>2, <3>3, AppendProperties
    <3> QED
      BY <3>4 DEF R
  <2>3. overrun' \in BOOLEAN
    BY <1>2 DEF Inv, TypeOK
  <2> QED
    BY <1>1, <1>4, <1>6, <2>1, <2>2, <2>3 DEF Inv, TypeOK
<1>10. DataInside' /\ Thrown' /\ Loops'
  <2>1. DataInside' /\ Thrown'
    BY <1>1, <1>4 DEF Inv, DataInside, Thrown
  <2>2. Loops'
    <3>1. at' = "header" => len' \in 0 .. PACKET_HEADER_SIZE - 1
      BY <1>3, <1>4, <1>8, Constants
    <3>2. at' = "data" => len' = 0 /\ 0 < DataSize(header')
                          /\ PACKET_HEADER_SIZE + DataSize(header') <= SizeofPacket
      BY <1>1, <1>7, <1>8, Constants
    <3>3. data' = <<>> /\ Len(data') = 0
      BY <1>1, <1>3
    <3> QED
      BY <3>1, <3>2, <3>3 DEF Loops
  <2> QED
    BY <2>1, <2>2
<1>11. Whole'
  <2> SUFFICES ASSUME ~overrun' PROVE Whole'
    BY DEF Whole
  <2>1. ~overrun /\ len = 0
    <3>1. ~(overrun \/ len > 0)
      BY <1>2, Zenon
    <3> QED
      BY <1>3, <3>1
  <2>2. Len(received) <= Len(sent) /\ \A i \in 1 .. Len(received) : received[i] = sent[i]
    BY <2>1 DEF Inv, Whole
  <2>3. /\ got \o Coming' = FlattenSeq(Pending)
        /\ Coming' \in Seq(Byte) /\ FlattenSeq(Pending) # <<>>
    <3>1. Taken = <<>>
      BY <1>1, <2>1, SubSeqEmpty DEF Taken
    <3>2. Taken \o Coming = FlattenSeq(Pending)
      BY <1>1, <1>4, <2>1 DEF Inv, Whole
    <3>3. Coming = FlattenSeq(Pending)
      BY <3>1, <3>2, ComingType, ConcatEmptySeq
    <3>4. missing \in Seq(Byte) /\ missing' = missing
      BY <1>1, ComingType
    <3> HIDE DEF got
    <3>5. (got \o stream') \o missing = got \o (stream' \o missing)
      <4>1. got \in Seq(Byte) /\ stream' \in Seq(Byte) /\ missing \in Seq(Byte)
        BY <1>4, <3>4
      <4> QED
        BY <4>1, AssocBytes, Zenon
    <3>6. Coming' \in Seq(Byte) /\ Coming = got \o Coming'
      BY <1>4, <3>4, <3>5, ConcatProperties DEF Coming
    <3>7. got # <<>>
      BY <1>4, EmptySeq
    <3>8. Coming # <<>>
      <4> DEFINE c == Coming'
      <4>1. c \in Seq(Byte) /\ Coming = got \o c
        BY <3>6
      <4> HIDE DEF c
      <4> QED
        BY <1>4, <3>7, <4>1, ConcatEqualIffEmpty
    <3> QED
      BY <3>3, <3>6, <3>8
  <2>4. /\ header' \in Seq(Byte) /\ Len(header') = PACKET_HEADER_SIZE
        /\ SubSeq(header', 1, k) = got
    <3>1. header' \in Seq(Byte) /\ Len(header') = PACKET_HEADER_SIZE
      BY <1>6, Constants, SeqDef, LenProperties
    <3>2. k \in 0 .. Len(header')
      BY <1>4, <2>1, <3>1
    <3>3. /\ SubSeq(header', 1, k) \in Seq(Byte) /\ Len(SubSeq(header', 1, k)) = k
          /\ \A i \in 1 .. k : SubSeq(header', 1, k)[i] = header'[i]
      BY <3>1, <3>2, Cut DEF CutAt
    <3> HIDE DEF got
    <3>4. \A i \in 1 .. k : i \in 1 .. PACKET_HEADER_SIZE /\ header'[i] = got[i]
      BY <1>4, <1>5, <2>1, Constants
    <3> QED
      BY <1>4, <3>1, <3>3, <3>4, SeqEqual
  <2>5. CASE k # PACKET_HEADER_SIZE
    <3>1. at' = "header" /\ len' = k /\ UNCHANGED received
      BY <1>1, <1>4, <1>8, <2>1, <2>5
    <3>2. Taken' = got /\ Pending' = Pending
      BY <1>1, <2>4, <3>1 DEF Taken, Pending
    <3> QED
      BY <1>1, <1>4, <2>2, <2>3, <3>1, <3>2 DEF Whole
  <2>6. CASE k = PACKET_HEADER_SIZE
    <3>1. header' = got
      BY <2>4, <2>6, SubSeqFull
    <3> DEFINE p == sent[Len(received) + 1]
               rest == FlattenSeq(Tail(Pending))
    <3>3. /\ p \in Packet /\ Len(received) < Len(sent) /\ rest \in Seq(Byte)
          /\ header' \o Coming' = Bytes(p) \o rest
      BY <2>2, <2>3, <3>1, Current DEF Inv
    <3>4. /\ header'[PACKET_HEADER_SIZE] = p.type /\ DataSize(header') = Len(p.data)
          /\ Coming' = p.data \o rest
      <4> DEFINE c == Coming'
      <4>1. /\ p \in Packet /\ header' \in Seq(Byte) /\ c \in Seq(Byte)
            /\ rest \in Seq(Byte) /\ Len(header') = PACKET_HEADER_SIZE
            /\ header' \o c = Bytes(p) \o rest
        BY <2>3, <2>4, <3>3
      <4> HIDE DEF p, rest, c
      <4>2. /\ header'[PACKET_HEADER_SIZE] = p.type /\ DataSize(header') = Len(p.data)
            /\ c = p.data \o rest
        BY <4>1, HeadRead
      <4> QED
        BY <4>2 DEF c
    <3>5. CASE at' = "closed"
      <4>1. UNCHANGED received
        BY <1>8, <3>5
      <4> QED
        BY <1>1, <2>2, <3>5, <4>1 DEF Whole
    <3>6. CASE at' = "poll"
      <4>1. /\ DataSize(header') <= 0
            /\ received' = Append(received, [type |-> p.type, data |-> <<>>])
        BY <1>1, <1>8, <3>4, <3>6
      <4>2. p.data = <<>> /\ p = [type |-> p.type, data |-> p.data]
        <5>1. p.data \in Seq(Byte) /\ Len(p.data) \in Nat
              /\ p = [type |-> p.type, data |-> p.data]
          <6> HIDE DEF p
          <6> QED
            BY <3>3, HeadFacts
        <5>2. Len(p.data) = 0
          BY <3>4, <4>1, <5>1
        <5> QED
          BY <5>1, <5>2, EmptySeq
      <4>3. received' = Append(received, p)
        BY <4>1, <4>2
      <4>4. /\ Len(received') <= Len(sent')
            /\ \A i \in 1 .. Len(received') : received'[i] = sent'[i]
            /\ Pending' = Tail(Pending)
        BY <1>1, <2>2, <3>3, <4>3, Returned DEF Inv
      <4>5. Coming' = rest /\ Taken' = <<>>
        BY <3>3, <3>4, <3>6, <4>2, ConcatEmptySeq DEF Taken
      <4>6. Taken' \o Coming' = FlattenSeq(Pending')
        BY <3>3, <4>4, <4>5, ConcatEmptySeq
      <4> QED
        BY <4>4, <4>6 DEF Whole
    <3>7. CASE at' = "data"
      <4>1. UNCHANGED received
        BY <1>1, <1>8, <3>7
      <4>2. Taken' = header' /\ Pending' = Pending
        BY <1>1, <1>3, <2>4, <3>7, <4>1, ConcatEmptySeq DEF Taken, Pending
      <4>3. Taken' \o Coming' = FlattenSeq(Pending')
        BY <2>3, <3>1, <4>2
      <4> QED
        BY <1>1, <2>2, <4>1, <4>3 DEF Whole
    <3>8. at' \in {"closed", "poll", "data"}
      BY <1>4, <1>8, <2>1, <2>6
    <3> QED
      BY <3>5, <3>6, <3>7, <3>8
  <2> QED
    BY <2>5, <2>6
<1> QED
  BY <1>9, <1>10, <1>11 DEF Inv

LEMMA RecvDataInv ==
    ASSUME Inv, RecvData
    PROVE  Inv'
<1>1. at = "data" /\ UNCHANGED <<sent, missing, end, header, overrun>>
  BY DEF RecvData
<1>2. PICK k \in Got(DataSize(header) - len) :
        /\ Take(k)
        /\ data' = SubSeq(data, 1, len) \o SubSeq(stream, 1, k)
        /\ len' = len + k
        /\ IF len' = DataSize(header) THEN Return(header, data') ELSE UNCHANGED <<at, received>>
  BY DEF RecvData
<1> DEFINE got == SubSeq(stream, 1, k)
           n == DataSize(header)
<1>3. /\ header \in [1 .. PACKET_HEADER_SIZE -> Byte] /\ header \in Seq(Byte)
      /\ Len(header) = PACKET_HEADER_SIZE /\ data \in Seq(Byte) /\ Len(data) \in Nat
      /\ n \in Int /\ len \in Nat /\ len <= Len(data)
      /\ Len(data) < n /\ PACKET_HEADER_SIZE + n <= SizeofPacket
  <2>1. header \in [1 .. PACKET_HEADER_SIZE -> Byte] /\ data \in Seq(Byte) /\ Len(data) \in Nat
    BY LenProperties DEF Inv, TypeOK
  <2>2. n \in Int
    BY <2>1, LengthIsNumber
  <2>3. header \in Seq(Byte) /\ Len(header) = PACKET_HEADER_SIZE
    BY TakenType
  <2> QED
    BY <1>1, <2>1, <2>2, <2>3 DEF Inv, Loops
<1> HIDE DEF n
<1>4. /\ k \in Nat /\ k >= 1 /\ len + k <= n
      /\ got \in Seq(Byte) /\ Len(got) = k
      /\ stream \in Seq(Byte) /\ stream' \in Seq(Byte) /\ stream = got \o stream'
      /\ end \in {"open", "closed"}
  <2>1. n - len \in Int /\ k \in Got(n - len)
    BY <1>2, <1>3 DEF n
  <2>2. k \in Nat /\ k <= n - len
    BY <1>2, <2>1, TakeFacts
  <2>3. len + k <= n
    BY <1>3, <2>2
  <2> QED
    BY <1>2, <2>1, <2>3, TakeFacts
<1> HIDE DEF got
<1>5. len = Len(data)
  BY <1>1, <1>4 DEF Inv, Loops
<1>6. data' = data \o got /\ data' \in Seq(Byte) /\ Len(data') = len + k
  <2>1. SubSeq(data, 1, len) = data
    BY <1>3, <1>5, SubSeqFull
  <2>2. data' = data \o got
    BY <1>2, <2>1 DEF got
  <2> QED
    BY <1>3, <1>4, <1>5, <2>2, ConcatProperties
<1>7. \/ len' = n /\ at' = "poll"
         /\ received' = Append(received, [type |-> header[PACKET_HEADER_SIZE], data |-> data'])
      \/ len' # n /\ UNCHANGED <<at, received>>
  BY <1>2 DEF Return, n
<1>8. TypeOK'
  <2>1. len' \in -1 .. SizeofPacket /\ at' \in {"poll", "header", "data", "closed", "crashed"}
    BY <1>1, <1>2, <1>3, <1>4, <1>7, Constants
  <2>2. received' \in Seq([type : Byte, data : Seq(Byte)])
    <3> DEFINE r == [type |-> header[PACKET_HEADER_SIZE], data |-> data']
               R == [type : Byte, data : Seq(Byte)]
    <3>1. r \in R
      <4>1. header[PACKET_HEADER_SIZE] \in Byte
        BY <1>3, Constants
      <4> QED
        BY <1>6, <4>1
    <3>2. received \in Seq(R)
      BY DEF Inv, TypeOK
    <3>3. UNCHANGED received \/ received' = Append(received, r)
      BY <1>7
    <3> HIDE DEF r, R
    <3>4. received' \in Seq(R)
      BY <3>1, <3>2, <3>3, AppendProperties
    <3> QED
      BY <3>4 DEF R
  <2> QED
    BY <1>1, <1>4, <1>6, <2>1, <2>2 DEF Inv, TypeOK
<1>9. DataInside' /\ Thrown' /\ Loops'
  <2>1. DataSize(header') = n
    BY <1>1 DEF n
  <2>2. DataInside'
    BY <1>3, <1>4, <1>6, Constants DEF DataInside
  <2>3. Thrown'
    BY <1>1, <1>4 DEF Thrown
  <2>4. Loops'
    BY <1>1, <1>2, <1>3, <1>4, <1>6, <1>7, <2>1, Constants DEF Loops
  <2> QED
    BY <2>2, <2>3, <2>4
<1>10. Whole'
  <2> SUFFICES ASSUME ~overrun PROVE Whole'
    BY <1>1 DEF Whole
  <2>1. Len(received) <= Len(sent) /\ \A i \in 1 .. Len(received) : received[i] = sent[i]
    BY DEF Inv, Whole
  <2> DEFINE c == Coming'
  <2>2. /\ (header \o data) \o Coming = FlattenSeq(Pending)
        /\ Coming \in Seq(Byte) /\ missing \in Seq(Byte)
    BY <1>1, <1>4, ComingType DEF Inv, Whole, Taken
  <2>3. c \in Seq(Byte) /\ Coming = got \o c
    <3>1. missing' = missing
      BY <1>1
    <3>2. (got \o stream') \o missing = got \o (stream' \o missing)
      <4>1. got \in Seq(Byte) /\ stream' \in Seq(Byte) /\ missing \in Seq(Byte)
        BY <1>4, <2>2
      <4> QED
        BY <4>1, AssocBytes, Zenon
    <3> QED
      BY <1>4, <2>2, <3>1, <3>2, ConcatProperties DEF Coming
  <2>C. c = Coming'
    OBVIOUS
  <2> HIDE DEF c
  <2>4. /\ data' \o c \in Seq(Byte) /\ header \o (data' \o c) = FlattenSeq(Pending)
        /\ FlattenSeq(Pending) # <<>>
    <3> DEFINE t == data' \o c
    <3>1. (data \o got) \o c = data \o (got \o c)
      <4>1. data \in Seq(Byte) /\ got \in Seq(Byte) /\ c \in Seq(Byte)
        BY <1>3, <1>4, <2>3
      <4> QED
        BY <4>1, AssocBytes, Zenon
    <3>2. t \in Seq(Byte) /\ t = data \o Coming
      BY <1>6, <2>3, <3>1, ConcatProperties
    <3>3. (header \o data) \o Coming = header \o (data \o Coming)
      <4>1. header \in Seq(Byte) /\ data \in Seq(Byte) /\ Coming \in Seq(Byte)
        BY <1>3, <2>2
      <4> QED
        BY <4>1, AssocBytes, Zenon
    <3> HIDE DEF t
    <3>4. header \o t = FlattenSeq(Pending)
      BY <2>2, <3>2, <3>3
    <3>5. header # <<>>
      BY <1>3, Constants, EmptySeq
    <3>6. header \o t # <<>>
      BY <1>3, <3>2, <3>5, ConcatEqualIffEmpty
    <3> QED
      BY <3>2, <3>4, <3>6 DEF t
  <2> DEFINE p == sent[Len(received) + 1]
             rest == FlattenSeq(Tail(Pending))
  <2>5. /\ p \in Packet /\ Len(received) < Len(sent) /\ rest \in Seq(Byte)
        /\ FlattenSeq(Pending) = Bytes(p) \o rest
    BY <2>1, <2>4, Current DEF Inv
  <2>6. CASE at' = "poll"
    <3>1. /\ header[PACKET_HEADER_SIZE] = p.type /\ n = Len(p.data)
          /\ data' \o c = p.data \o rest
      <4> DEFINE t == data' \o c
      <4>1. /\ p \in Packet /\ header \in Seq(Byte) /\ t \in Seq(Byte)
            /\ rest \in Seq(Byte) /\ Len(header) = PACKET_HEADER_SIZE
            /\ header \o t = Bytes(p) \o rest
        BY <1>3, <2>4, <2>5
      <4> HIDE DEF t, p, rest
      <4>2. /\ header[PACKET_HEADER_SIZE] = p.type /\ DataSize(header) = Len(p.data)
            /\ t = p.data \o rest
        BY <4>1, HeadRead
      <4> QED
        BY <4>2 DEF t, n
    <3>2. p.data \in Seq(Byte) /\ p = [type |-> p.type, data |-> p.data]
      <4> HIDE DEF p
      <4> QED
        BY <2>5, HeadFacts
    <3>3. len' = n /\ received' = Append(received, [type |-> p.type, data |-> data'])
      BY <1>1, <1>7, <2>6, <3>1
    <3>4. data' = p.data /\ c = rest
      <4>1. Len(data') = Len(p.data)
        BY <1>2, <1>6, <3>1, <3>3
      <4> DEFINE d == p.data
      <4>2. d \in Seq(Byte) /\ data' \o c = d \o rest /\ Len(data') = Len(d)
        BY <3>1, <3>2, <4>1
      <4> HIDE DEF d, rest
      <4>3. data' = d /\ c = rest
        BY <1>6, <2>3, <2>5, <4>2, SplitEqual
      <4> QED
        BY <4>3 DEF d
    <3>5. received' = Append(received, p)
      BY <3>2, <3>3, <3>4
    <3>6. /\ Len(received') <= Len(sent')
          /\ \A i \in 1 .. Len(received') : received'[i] = sent'[i]
          /\ Pending' = Tail(Pending)
      BY <1>1, <2>1, <2>5, <3>5, Returned DEF Inv
    <3>7. Taken' \o Coming' = FlattenSeq(Pending')
      BY <2>C, <2>5, <2>6, <3>4, <3>6, ConcatEmptySeq DEF Taken
    <3> QED
      BY <3>6, <3>7 DEF Whole
  <2>7. CASE at' # "poll"
    <3>1. at' = "data" /\ UNCHANGED received
      BY <1>1, <1>7, <2>7
    <3>2. Taken' = header \o data' /\ Pending' = Pending
      BY <1>1, <3>1 DEF Taken, Pending
    <3>3. (header \o data') \o c = header \o (data' \o c)
      <4>1. header \in Seq(Byte) /\ data' \in Seq(Byte) /\ c \in Seq(Byte)
        BY <1>3, <1>6, <2>3
      <4> QED
        BY <4>1, AssocBytes, Zenon
    <3>4. Taken' \o Coming' = FlattenSeq(Pending')
      BY <2>C, <2>4, <3>2, <3>3
    <3> QED
      BY <1>1, <2>1, <3>1, <3>4 DEF Whole
  <2> QED
    BY <2>6, <2>7
<1> QED
  BY <1>8, <1>9, <1>10 DEF Inv

-----------------------------------------------------------------------------
(* The theorems. *)

LEMMA StepInv == Inv /\ [Next]_vars => Inv'
<1> SUFFICES ASSUME Inv, [Next]_vars PROVE Inv'
  OBVIOUS
<1>1. CASE UNCHANGED vars
  BY <1>1 DEF vars, Inv, TypeOK, DataInside, Loops, Thrown, Whole, Taken, Pending, Coming
<1>2. CASE \E p \in Packet : Send(p)
  BY <1>2, SendInv
<1>3. CASE CloseEnd
  BY <1>3, CloseEndInv
<1>10. CASE SendRest
  BY <1>10, SendRestInv
<1>4. CASE Reset
  BY <1>4, ResetInv
<1>5. CASE Start
  BY <1>5, StartInv
<1>6. CASE RecvHeader
  BY <1>6, RecvHeaderInv
<1>7. CASE RecvData
  BY <1>7, RecvDataInv
<1>8. CASE RecvEnd
  BY <1>8, RecvEndInv
<1>9. CASE RecvError
  BY <1>9, RecvErrorInv
<1> QED
  BY <1>1, <1>2, <1>3, <1>4, <1>5, <1>6, <1>7, <1>8, <1>9, <1>10 DEF Next, Receiver

LEMMA InvAlways == Spec => []Inv
  BY InitInv, StepInv, PTL DEF Spec

(* Every variable keeps its type, received with the packets given out      *)
(* included.                                                               *)
THEOREM TypeCorrect == Spec => []TypeOK
<1>1. Inv => TypeOK
  BY DEF Inv
<1> QED
  BY <1>1, InvAlways, PTL

(* recv writes nothing behind the packet, whatever the header holds.       *)
THEOREM DataInsideAlways == Spec => []DataInside
<1>1. Inv => DataInside
  BY DEF Inv
<1> QED
  BY <1>1, InvAlways, PTL

(* Packets come out as they were sent, unless a header came in parts.      *)
THEOREM AsSentAlways == Spec => []AsSent
<1>1. Inv => AsSent
  <2> SUFFICES ASSUME Inv, ~overrun PROVE IsPrefix(received, sent)
    BY DEF AsSent
  <2>1. /\ Len(received) <= Len(sent) /\ Len(received) \in Nat /\ Len(sent) \in Nat
        /\ \A i \in 1 .. Len(received) : received[i] = sent[i]
    BY LenProperties DEF Inv, Whole, TypeOK
  <2>2. SubSeq(received, 1, Len(received)) = SubSeq(sent, 1, Len(received))
    <3> DEFINE S == Packet \cup [type : Byte, data : Seq(Byte)]
    <3>1. received \in Seq(S) /\ sent \in Seq(S)
      BY SeqMonotonic DEF Inv, TypeOK
    <3> HIDE DEF S
    <3>2. Len(received) \in 0 .. Len(received) /\ Len(received) \in 0 .. Len(sent)
      BY <2>1
    <3> QED
      BY <2>1, <3>1, <3>2, Cut, SeqEqual DEF CutAt
  <2> QED
    BY <2>1, <2>2 DEF IsPrefix
<1> QED
  BY <1>1, InvAlways, PTL

(* What was sent and not given out is still to come.                       *)
THEOREM NothingLostAlways == Spec => []NothingLost
<1>1. Inv => NothingLost
  <2> SUFFICES ASSUME Inv, ~overrun, at = "poll", end = "open"
               PROVE  Coming = FlattenSeq(Pending)
    BY DEF NothingLost, Pending, Coming
  <2>1. Taken \o Coming = FlattenSeq(Pending) /\ Taken = <<>> /\ Coming \in Seq(Byte)
    BY ComingType DEF Inv, Whole, Taken
  <2> QED
    BY <2>1, ConcatEmptySeq
<1> QED
  BY <1>1, InvAlways, PTL

(* The loops wait for ever for the rest of a packet only after a reset, an *)
(* end inside of a packet, or a header that came in parts.                 *)
THEOREM CleanEndAlways == Spec => []CleanEnd
<1>1. Inv => CleanEnd
  <2> SUFFICES ASSUME Inv, Spinning, end = "closed", ~overrun, missing = <<>> PROVE FALSE
    BY DEF CleanEnd, Inv, TypeOK
  <2>1. stream = <<>> /\ at \in {"header", "data"} /\ (at = "header" => len > 0)
    BY DEF Spinning
  <2>2. /\ Taken \in Seq(Byte) /\ (at = "header" => Len(Taken) = len)
        /\ at = "data" => Len(Taken) = PACKET_HEADER_SIZE + Len(data)
    BY TakenType
  <2>3. Taken = FlattenSeq(Pending)
    <3>1. Taken \o Coming = FlattenSeq(Pending) /\ Coming = <<>>
      BY <2>1, EmptySeq, ConcatEmptySeq DEF Inv, Whole, Coming
    <3> QED
      BY <2>1, <2>2, <3>1, ConcatEmptySeq
  <2>4. Len(data) \in Nat /\ Taken # <<>>
    BY <2>1, <2>2, Constants, EmptySeq, LenProperties DEF Inv, TypeOK
  <2> DEFINE p == sent[Len(received) + 1]
             rest == FlattenSeq(Tail(Pending))
  <2>5. p \in Packet /\ rest \in Seq(Byte) /\ Taken = Bytes(p) \o rest
    BY <2>3, <2>4, Current DEF Inv, Whole
  <2> DEFINE m == Len(p.data)
  <2>6. Bytes(p) \in Seq(Byte) /\ Len(Bytes(p)) = PACKET_HEADER_SIZE + m /\ m \in Nat
    <3> HIDE DEF p
    <3> QED
      BY <2>5, HeadFacts
  <2>7. Len(Taken) >= PACKET_HEADER_SIZE + m /\ m \in Nat
    <3> DEFINE b == Bytes(p)
    <3>1. b \in Seq(Byte) /\ Taken = b \o rest /\ Len(b) = PACKET_HEADER_SIZE + m /\ m \in Nat
      BY <2>5, <2>6
    <3> HIDE DEF b, rest, m
    <3>2. Len(Taken) = Len(b) + Len(rest) /\ Len(rest) \in Nat
      BY <2>5, <3>1, ConcatProperties, LenProperties
    <3> QED
      BY <3>1, <3>2, Constants
  <2>8. CASE at = "header"
    <3>1. len < PACKET_HEADER_SIZE /\ len \in Nat
      BY <2>8, Constants DEF Inv, Loops
    <3> HIDE DEF m
    <3> QED
      BY <2>2, <2>7, <2>8, <3>1, Constants
  <2>9. CASE at = "data"
    <3>1. Len(data) < DataSize(header)
      BY <2>9 DEF Inv, Loops
    <3>2. header \in Seq(Byte) /\ Len(header) = PACKET_HEADER_SIZE /\ data \in Seq(Byte)
      BY TakenType DEF Inv, TypeOK
    <3>3. header \o data = Bytes(p) \o rest
      BY <2>5, <2>9 DEF Taken
    <3>4. DataSize(header) = m
      <4> HIDE DEF p, rest
      <4> QED
        BY <2>5, <3>2, <3>3, HeadRead
    <3> HIDE DEF m
    <3> QED
      BY <2>2, <2>4, <2>7, <2>9, <3>1, <3>4, Constants
  <2> QED
    BY <2>1, <2>8, <2>9
<1> QED
  BY <1>1, InvAlways, PTL

============================================================================
