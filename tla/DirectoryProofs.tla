-------------------------- MODULE DirectoryProofs --------------------------
(***************************************************************************)
(* Proofs about the directory the server keeps its files in: what names    *)
(* lead to in it (Paths), what ls lists of it (Listing), and which it is   *)
(* (Options).                                                              *)
(*                                                                         *)
(* For any names, any requests and any depth of the tree; any file system  *)
(* and any lengths of entries; any options in any order.                   *)
(***************************************************************************)
EXTENDS Paths, Listing, Options, FiniteSetTheorems, SequenceTheorems, WellFoundedInduction, TLAPS

-----------------------------------------------------------------------------
(* A set of numbers has a least one. *)
LEMMA LeastNumber ==
    ASSUME NEW T \in SUBSET Nat, T # {}
    PROVE  \E n \in T : \A m \in T : n <= m
<1> DEFINE R == OpToRel(<, Nat)
<1>1. IsWellFoundedOn(R, Nat)
  BY NatLessThanWellFounded
<1>2. PICK n \in T : \A m \in T : ~(<<m, n>> \in R)
  <2> HIDE DEF R
  <2> QED
    BY <1>1, WFMin
<1>3. \A m \in T : ~(m < n)
  BY <1>2 DEF OpToRel
<1> QED
  BY <1>3

(* Induction on numbers up to N, for a set of them instead of a formula:   *)
(* the least number that is not in the set would have a predecessor that   *)
(* is.                                                                     *)
LEMMA UpTo ==
    ASSUME NEW N \in Nat, NEW G,
           0 \in G,
           \A n \in 0 .. N - 1 : n \in G => n + 1 \in G
    PROVE  \A n \in 0 .. N : n \in G
<1> DEFINE Bad == {n \in 0 .. N : n \notin G}
<1> SUFFICES ASSUME Bad # {} PROVE FALSE
  OBVIOUS
<1>1. PICK n \in Bad : \A m \in Bad : n <= m
  <2>1. Bad \in SUBSET Nat
    OBVIOUS
  <2> HIDE DEF Bad
  <2> QED
    BY <2>1, LeastNumber
<1>2. n # 0 /\ n - 1 \in 0 .. N - 1 /\ n - 1 \in G
  BY <1>1
<1> QED
  BY <1>2

(* A function that is defined by recursion on 0 .. N exists.               *)
Follows(f, N, b, Step) == f[0] = b /\ \A i \in 1 .. N : f[i] = Step[i][f[i - 1]]
LEMMA Recursion ==
    ASSUME NEW N \in Nat, NEW S, NEW b \in S, NEW Step \in [1 .. N -> [S -> S]]
    PROVE  \E f \in [0 .. N -> S] : Follows(f, N, b, Step)
<1> DEFINE Upto(n) == \E f \in [0 .. n -> S] :
                         f[0] = b /\ \A i \in 1 .. n : f[i] = Step[i][f[i - 1]]
           G == {n \in 0 .. N : Upto(n)}
<1>1. 0 \in G
  <2> DEFINE f == [i \in 0 .. 0 |-> b]
  <2>1. f \in [0 .. 0 -> S] /\ f[0] = b /\ 1 .. 0 = {}
    OBVIOUS
  <2>2. Upto(0)
    <3> HIDE DEF f
    <3> QED
      BY <2>1
  <2> QED
    BY <2>2
<1>2. ASSUME NEW n \in 0 .. N - 1, n \in G
      PROVE  n + 1 \in G
  <2>1. PICK f \in [0 .. n -> S] : f[0] = b /\ \A i \in 1 .. n : f[i] = Step[i][f[i - 1]]
    BY <1>2
  <2> DEFINE g == [i \in 0 .. n + 1 |-> IF i = n + 1 THEN Step[n + 1][f[n]] ELSE f[i]]
  <2>2. Step[n + 1][f[n]] \in S
    BY <2>1
  <2>3. g \in [0 .. n + 1 -> S] /\ g[0] = b
    BY <2>1, <2>2
  <2>4. ASSUME NEW i \in 1 .. n + 1
        PROVE  g[i] = Step[i][g[i - 1]]
    <3>1. CASE i = n + 1
      <4>1. g[n + 1] = Step[n + 1][f[n]] /\ g[n] = f[n]
        OBVIOUS
      <4> QED
        BY <3>1, <4>1
    <3>2. CASE i # n + 1
      <4>1. i \in 1 .. n /\ g[i] = f[i] /\ g[i - 1] = f[i - 1]
        BY <3>2
      <4> QED
        BY <4>1, <2>1
    <3> QED
      BY <3>1, <3>2
  <2>5. Upto(n + 1)
    <3> HIDE DEF g
    <3> QED
      BY <2>3, <2>4
  <2> QED
    BY <2>5
<1>3. \A n \in 0 .. N : n \in G
  <2> HIDE DEF G
  <2> QED
    BY <1>1, <1>2, UpTo
<1> QED
  BY <1>3 DEF Follows

-----------------------------------------------------------------------------
(* get_path. *)

LEMMA Constants ==
    /\ "" \notin Name /\ "." \notin Name /\ ".." \notin Name
    /\ MaxPath \in Nat
    /\ FAIL \notin Seq(Name) /\ FAIL # <<>>
    /\ \A req \in Request : req \in Seq(Part) /\ req # <<>>
<1>1. FAIL \notin Seq(Part) /\ Name \subseteq Part
  BY PathsAssumption DEF Part
<1>2. \A s \in Seq(Name) : s \in Seq(Part)
  BY <1>1, SeqMonotonic
<1>3. <<>> \in Seq(Part)
  OBVIOUS
<1> QED
  BY <1>1, <1>2, <1>3, PathsAssumption

LEMMA FrontFacts ==
    ASSUME NEW S, NEW s \in Seq(S), s # <<>>
    PROVE  /\ Front(s) \in Seq(S)
           /\ Len(Front(s)) = Len(s) - 1 /\ Len(s) \in Nat /\ Len(s) > 0
           /\ \A i \in 1 .. Len(s) - 1 : Front(s)[i] = s[i]
<1>1. Len(s) \in Nat /\ Len(s) > 0
  BY EmptySeq
<1>2. \A i \in 1 .. Len(s) - 1 : s[i] \in S
  BY <1>1
<1>3. 1 \in 1 .. Len(s) + 1 /\ Len(s) - 1 \in 1 - 1 .. Len(s)
  BY <1>1
<1>4. Front(s) = SubSeq(s, 1, Len(s) - 1)
  BY DEF Front
<1> DEFINE m == Len(s) - 1
<1>5. m \in Nat
  BY <1>1
<1> HIDE DEF m
<1>6. /\ SubSeq(s, 1, m) \in Seq(S)
      /\ Len(SubSeq(s, 1, m)) = m
      /\ \A i \in 1 .. m : SubSeq(s, 1, m)[i] = s[i]
  <2>1. \A i \in 1 .. m : s[i] \in S /\ 1 + i - 1 = i
    BY <1>2 DEF m
  <2> QED
    BY <1>5, <2>1, SubSeqProperties
<1>7. \A i \in 1 .. m : SubSeq(s, 1, m)[i] = s[i]
  BY <1>6
<1> QED
  BY <1>1, <1>4, <1>6, <1>7 DEF m

LEMMA PartsType ==
    ASSUME NEW req \in Request
    PROVE  Parts(req) \in Seq(Part)
<1>1. req \in Seq(Part) /\ Len(req) \in Nat /\ Len(req) > 0
  <2>1. req \in Seq(Part) /\ req # <<>>
    BY Constants
  <2> QED
    BY <2>1, EmptySeq
<1> DEFINE body == IF Last(req) = "" THEN Front(req) ELSE req
<1>2. body \in Seq(Part)
  <2>1. Front(req) \in Seq(Part)
    BY <1>1, FrontFacts
  <2> QED
    BY <1>1, <2>1
<1>3. body # <<>> => Tail(body) \in Seq(Part)
  <2> HIDE DEF body
  <2> QED
    BY <1>2
<1> QED
  BY <1>2, <1>3 DEF Parts

(* What is reached so far is a path of plain names, if anything. *)
Place == Seq(Name) \cup {FAIL}

LEMMA EnterType ==
    ASSUME NEW p \in Place, NEW part \in Part
    PROVE  Enter(p, part) \in Place
<1>1. CASE p = FAIL \/ part = "" \/ part = "."
  <2>1. p = FAIL \/ part = "" => Enter(p, part) = FAIL
    BY DEF Enter
  <2>2. p # FAIL /\ part # "" /\ part = "." => Enter(p, part) = p
    BY DEF Enter
  <2> QED
    BY <1>1, <2>1, <2>2 DEF Place
<1>2. CASE p # FAIL /\ part = ".."
  <2>1. p \in Seq(Name)
    BY <1>2 DEF Place
  <2>2. p # <<>> => Front(p) \in Seq(Name)
    BY <2>1 DEF Front
  <2> QED
    BY <1>2, <2>2 DEF Enter, Place
<1>3. CASE p # FAIL /\ part \notin {"", ".", ".."}
  <2>1. p \in Seq(Name) /\ part \in Name
    BY <1>3 DEF Place, Part
  <2>2. Append(p, part) \in Seq(Name)
    BY <2>1
  <2> QED
    BY <1>3, <2>2 DEF Enter, Place
<1> QED
  BY <1>1, <1>2, <1>3

(* The loop of get_path: the places it comes by. *)
LEMMA Walk ==
    ASSUME NEW parts \in Seq(Part), NEW start \in Seq(Name)
    PROVE  \E w \in [0 .. Len(parts) -> Place] :
              /\ w[0] = start
              /\ \A i \in 1 .. Len(parts) : w[i] = Enter(w[i - 1], parts[i])
              /\ Walked(parts, start) = w[Len(parts)]
<1> DEFINE N == Len(parts)
           Step == [i \in 1 .. N |-> [p \in Place |-> Enter(p, parts[i])]]
           D(g) == [n \in 0 .. N |-> IF n = 0 THEN start ELSE Enter(g[n - 1], parts[n])]
<1>0. N \in Nat /\ start \in Place /\ \A i \in 1 .. N : parts[i] \in Part
  BY DEF Place
<1>1. Step \in [1 .. N -> [Place -> Place]]
  BY <1>0, EnterType
<1>2. PICK w \in [0 .. N -> Place] : Follows(w, N, start, Step)
  <2> HIDE DEF Step, N
  <2> QED
    BY <1>0, <1>1, Recursion
<1>3. ASSUME NEW i \in 1 .. N PROVE w[i] = Enter(w[i - 1], parts[i])
  <2>1. w[i] = Step[i][w[i - 1]]
    BY <1>2 DEF Follows
  <2>2. w[i - 1] \in Place
    BY <1>0
  <2> QED
    BY <2>1, <2>2
<1>4. w[0] = start
  BY <1>2 DEF Follows
<1>5. w = D(w)
  BY <1>0, <1>3, <1>4
<1> DEFINE walked == CHOOSE g : g = D(g)
<1>6. walked = D(walked)
  BY <1>5
<1>7. \A n \in 0 .. N : walked[n] = w[n]
  <2> DEFINE G == {n \in 0 .. N : walked[n] = w[n]}
  <2> HIDE DEF walked
  <2>1. 0 \in G
    BY <1>0, <1>4, <1>6
  <2>2. ASSUME NEW n \in 0 .. N - 1, n \in G PROVE n + 1 \in G
    <3>1. n + 1 \in 1 .. N /\ (n + 1) - 1 = n
      BY <1>0
    <3>2. walked[n + 1] = Enter(walked[n], parts[n + 1])
      BY <1>6, <3>1
    <3>3. w[n + 1] = Enter(w[n], parts[n + 1])
      BY <1>3, <3>1
    <3> QED
      BY <2>2, <3>1, <3>2, <3>3
  <2>3. \A n \in 0 .. N : n \in G
    <3> HIDE DEF G, N
    <3> QED
      BY <1>0, <2>1, <2>2, UpTo
  <2> QED
    BY <2>3
<1>8. Walked(parts, start) = walked[N]
  BY DEF Walked
<1>9. Walked(parts, start) = w[N]
  <2> HIDE DEF walked
  <2>1. N \in 0 .. N
    BY <1>0
  <2> QED
    BY <1>7, <1>8, <2>1
<1> HIDE DEF walked
<1> QED
  BY <1>3, <1>4, <1>9

LEMMA GetPathType ==
    ASSUME NEW req \in Request, NEW from \in Seq(Name)
    PROVE  GetPath(req, from) \in Place
<1>1. Start(req, from) \in Seq(Name)
  BY DEF Start
<1>2. Parts(req) \in Seq(Part)
  BY PartsType
<1>3. Walked(Parts(req), Start(req, from)) \in Place
  <2>1. PICK w \in [0 .. Len(Parts(req)) -> Place] :
                Walked(Parts(req), Start(req, from)) = w[Len(Parts(req))]
    BY <1>1, <1>2, Walk
  <2>2. Len(Parts(req)) \in 0 .. Len(Parts(req))
    BY <1>2
  <2> QED
    BY <2>1, <2>2
<1> QED
  BY <1>3 DEF GetPath, Place

-----------------------------------------------------------------------------
(* GetPathResolves.  Followed part by part, the path holds the names Kept  *)
(* says, in their order, and is as long as the depth; the n-th last of     *)
(* them has the depth n behind it.                                         *)

LEMMA AtNext ==
    ASSUME NEW all, NEW s, NEW i \in Nat, NEW j \in Nat, i <= j + 1
    PROVE  /\ IsFiniteSet(At(all, s, i, j)) /\ Cardinality(At(all, s, i, j)) \in Nat
           /\ Cardinality(At(all, s, i, j + 1)) =
                 Cardinality(At(all, s, i, j)) + (IF all[j + 1] \in s THEN 1 ELSE 0)
<1>1. IsFiniteSet(i .. j)
  BY FS_Interval
<1>2. IsFiniteSet(At(all, s, i, j)) /\ j + 1 \notin At(all, s, i, j)
  <2>1. At(all, s, i, j) \in SUBSET (i .. j)
    BY DEF At
  <2> QED
    BY <1>1, <2>1, FS_Subset
<1>3. CASE all[j + 1] \in s
  <2>1. At(all, s, i, j + 1) = At(all, s, i, j) \cup {j + 1}
    BY <1>3 DEF At
  <2> QED
    BY <1>2, <1>3, <2>1, FS_AddElement, FS_CardinalityType
<1>4. CASE all[j + 1] \notin s
  <2>1. At(all, s, i, j + 1) = At(all, s, i, j)
    BY <1>4 DEF At
  <2> QED
    BY <1>2, <1>4, <2>1, FS_CardinalityType
<1> QED
  BY <1>3, <1>4

Change(part) == IF part \in Name THEN 1 ELSE IF part = ".." THEN -1 ELSE 0

LEMMA DepthNext ==
    ASSUME NEW all, NEW i \in Nat, NEW j \in Nat, i <= j + 1
    PROVE  /\ Depth(all, i, j) \in Int
           /\ Depth(all, i, j + 1) = Depth(all, i, j) + Change(all[j + 1])
<1> DEFINE a == Cardinality(At(all, Name, i, j))
           b == Cardinality(At(all, {".."}, i, j))
<1>1. a \in Nat /\ b \in Nat
  BY AtNext
<1>2. /\ Cardinality(At(all, Name, i, j + 1)) = a + (IF all[j + 1] \in Name THEN 1 ELSE 0)
      /\ Cardinality(At(all, {".."}, i, j + 1)) = b + (IF all[j + 1] \in {".."} THEN 1 ELSE 0)
  BY AtNext
<1>3. Depth(all, i, j) = a - b
  BY DEF Depth
<1>4. Depth(all, i, j + 1) =
        (a + (IF all[j + 1] \in Name THEN 1 ELSE 0)) - (b + (IF all[j + 1] \in {".."} THEN 1 ELSE 0))
  BY <1>2 DEF Depth
<1> HIDE DEF a, b
<1>6. Depth(all, i, j + 1) = (a - b) + Change(all[j + 1])
  <2>1. CASE all[j + 1] \in Name
    <3>1. all[j + 1] \notin {".."}
      BY <2>1, Constants
    <3> QED
      BY <1>1, <1>4, <2>1, <3>1 DEF Change
  <2>2. CASE all[j + 1] = ".."
    <3>1. all[j + 1] \notin Name
      BY <2>2, Constants
    <3> QED
      BY <1>1, <1>4, <2>2, <3>1 DEF Change
  <2>3. CASE all[j + 1] \notin Name /\ all[j + 1] # ".."
    BY <1>1, <1>4, <2>3 DEF Change
  <2> QED
    BY <2>1, <2>2, <2>3
<1> QED
  BY <1>1, <1>3, <1>6

LEMMA DepthZero ==
    ASSUME NEW all, NEW j \in Nat
    PROVE  Depth(all, j + 1, j) = 0
<1>1. At(all, Name, j + 1, j) = {} /\ At(all, {".."}, j + 1, j) = {}
  BY DEF At
<1> QED
  BY <1>1, FS_EmptySet DEF Depth

(* Which names are kept after one more part. *)
LEMMA KeptNext ==
    ASSUME NEW all, NEW j \in Nat
    PROVE  Kept(all, j + 1) =
              {i \in Kept(all, j) : Depth(all, i, j) + Change(all[j + 1]) > 0}
                 \cup (IF all[j + 1] \in Name THEN {j + 1} ELSE {})
<1> DEFINE K == {i \in Kept(all, j) : Depth(all, i, j) + Change(all[j + 1]) > 0}
           L == IF all[j + 1] \in Name THEN {j + 1} ELSE {}
<1>1. ASSUME NEW i \in 1 .. j
      PROVE  i \in Kept(all, j + 1) <=> i \in K
  <2>1. Depth(all, i, j + 1) = Depth(all, i, j) + Change(all[j + 1])
    <3>1. i \in Nat /\ i <= j + 1
      OBVIOUS
    <3> QED
      BY <3>1, DepthNext, Zenon
  <2>2. i .. j + 1 = (i .. j) \cup {j + 1}
    OBVIOUS
  <2>3. i \in At(all, Name, 1, j + 1) <=> i \in At(all, Name, 1, j)
    BY DEF At
  <2>4. i \in Kept(all, j + 1) <=> /\ i \in At(all, Name, 1, j + 1)
                                   /\ \A k \in i .. j + 1 : Depth(all, i, k) > 0
    BY DEF Kept
  <2>5. i \in Kept(all, j) <=> /\ i \in At(all, Name, 1, j)
                               /\ \A k \in i .. j : Depth(all, i, k) > 0
    BY DEF Kept
  <2>6. (\A k \in i .. j + 1 : Depth(all, i, k) > 0) <=>
           (\A k \in i .. j : Depth(all, i, k) > 0) /\ Depth(all, i, j + 1) > 0
    BY <2>2
  <2> QED
    BY <2>1, <2>3, <2>4, <2>5, <2>6
<1>2. j + 1 \in Kept(all, j + 1) <=> all[j + 1] \in Name
  <2>1. j + 1 \in At(all, Name, 1, j + 1) <=> all[j + 1] \in Name
    BY DEF At
  <2>2. \A k \in j + 1 .. j + 1 : k = j + 1
    OBVIOUS
  <2>3. all[j + 1] \in Name => Depth(all, j + 1, j + 1) = 1
    <3>1. Depth(all, j + 1, j + 1) = Depth(all, j + 1, j) + Change(all[j + 1])
      <4>1. j + 1 \in Nat /\ j + 1 <= j + 1
        OBVIOUS
      <4> QED
        BY <4>1, DepthNext, Zenon
    <3>2. Depth(all, j + 1, j) = 0
      BY DepthZero, Zenon
    <3> QED
      BY <3>1, <3>2 DEF Change
  <2> QED
    BY <2>1, <2>2, <2>3 DEF Kept
<1>3. Kept(all, j + 1) \subseteq 1 .. j + 1 /\ K \subseteq 1 .. j /\ L \subseteq {j + 1}
  BY DEF Kept, At
<1>4. 1 .. j + 1 = (1 .. j) \cup {j + 1} /\ j + 1 \notin 1 .. j
  OBVIOUS
<1>5. j + 1 \in L <=> all[j + 1] \in Name
  OBVIOUS
<1> HIDE DEF K, L
<1>6. ASSUME NEW i PROVE i \in Kept(all, j + 1) <=> i \in K \cup L
  <2>1. CASE i \in 1 .. j
    <3>1. i \notin L
      BY <1>3, <1>4, <2>1
    <3> QED
      BY <1>1, <2>1, <3>1
  <2>2. CASE i = j + 1
    BY <1>2, <1>3, <1>4, <1>5, <2>2
  <2>3. CASE i \notin 1 .. j + 1
    BY <1>3, <1>4, <2>3
  <2> QED
    BY <1>4, <2>1, <2>2, <2>3
<1>7. Kept(all, j + 1) = K \cup L
  BY <1>6
<1> QED
  BY <1>7 DEF K, L

(* The path p holds what is kept of the first j parts, at the places f.    *)
Holds(p, f, all, j) ==
    /\ Len(p) = Depth(all, 1, j)
    /\ f \in [1 .. Len(p) -> 1 .. j]
    /\ \A k, l \in 1 .. Len(p) : k < l => f[k] < f[l]
    /\ Kept(all, j) = {f[k] : k \in 1 .. Len(p)}
    /\ \A k \in 1 .. Len(p) : p[k] = all[f[k]] /\ Depth(all, f[k], j) = Len(p) - k + 1

(* Nothing is wrong with the first j parts. *)
Sound(all, j) == \A k \in 1 .. j : all[k] # "" /\ Depth(all, 1, k) >= 0

Reached(p, all, j) ==
    IF Sound(all, j) THEN p \in Seq(Name) /\ \E f : Holds(p, f, all, j) ELSE p = FAIL

LEMMA SoundNext ==
    ASSUME NEW all, NEW j \in Nat
    PROVE  Sound(all, j + 1) <=>
              Sound(all, j) /\ all[j + 1] # "" /\ Depth(all, 1, j + 1) >= 0
<1>1. 1 .. j + 1 = (1 .. j) \cup {j + 1}
  OBVIOUS
<1> QED
  BY <1>1 DEF Sound

(* What one more part changes. *)
OneMore(all, j) ==
    LET change == Change(all[j + 1])
    IN  /\ change \in Int
        /\ Depth(all, 1, j) \in Int /\ Depth(all, 1, j + 1) = Depth(all, 1, j) + change
        /\ Depth(all, j + 1, j + 1) = change
        /\ \A i \in 1 .. j : /\ Depth(all, i, j) \in Int
                             /\ Depth(all, i, j + 1) = Depth(all, i, j) + change
        /\ Kept(all, j + 1) = {i \in Kept(all, j) : Depth(all, i, j) + change > 0}
                                 \cup (IF all[j + 1] \in Name THEN {j + 1} ELSE {})
        /\ \A i \in Kept(all, j) : i \in 1 .. j /\ Depth(all, i, j) > 0
        /\ Sound(all, j + 1) <=>
              Sound(all, j) /\ all[j + 1] # "" /\ Depth(all, 1, j + 1) >= 0

LEMMA OneMoreFacts ==
    ASSUME NEW all, NEW j \in Nat
    PROVE  OneMore(all, j)
<1> DEFINE change == Change(all[j + 1])
<1>1. change \in Int
  BY DEF Change
<1>2. ASSUME NEW i \in 1 .. j
      PROVE  Depth(all, i, j) \in Int /\ Depth(all, i, j + 1) = Depth(all, i, j) + change
  <2>1. i \in Nat /\ i <= j + 1
    OBVIOUS
  <2> QED
    BY <2>1, DepthNext, Zenon
<1>3. Depth(all, 1, j) \in Int /\ Depth(all, 1, j + 1) = Depth(all, 1, j) + change
  <2>1. 1 \in Nat /\ 1 <= j + 1
    OBVIOUS
  <2> QED
    BY <2>1, DepthNext, Zenon
<1>4. Depth(all, j + 1, j + 1) = change
  <2>1. j + 1 \in Nat /\ j + 1 <= j + 1
    OBVIOUS
  <2>2. Depth(all, j + 1, j + 1) = Depth(all, j + 1, j) + change
    BY <2>1, DepthNext, Zenon
  <2>3. Depth(all, j + 1, j) = 0
    BY DepthZero, Zenon
  <2> HIDE DEF change
  <2> QED
    BY <1>1, <2>2, <2>3
<1>5. \A i \in Kept(all, j) : i \in 1 .. j /\ Depth(all, i, j) > 0
  <2> SUFFICES ASSUME NEW i \in Kept(all, j) PROVE i \in 1 .. j /\ Depth(all, i, j) > 0
    OBVIOUS
  <2>1. i \in 1 .. j /\ \A k \in i .. j : Depth(all, i, k) > 0
    BY DEF Kept, At
  <2>2. j \in i .. j
    BY <2>1
  <2> QED
    BY <2>1, <2>2
<1>6. Kept(all, j + 1) = {i \in Kept(all, j) : Depth(all, i, j) + change > 0}
                            \cup (IF all[j + 1] \in Name THEN {j + 1} ELSE {})
  BY KeptNext, Zenon
<1>7. Sound(all, j + 1) <=>
         Sound(all, j) /\ all[j + 1] # "" /\ Depth(all, 1, j + 1) >= 0
  BY SoundNext, Zenon
<1> QED
  BY <1>1, <1>2, <1>3, <1>4, <1>5, <1>6, <1>7, Zenon DEF OneMore

LEMMA LenFacts ==
    ASSUME NEW p \in Seq(Name)
    PROVE  /\ Len(p) \in Nat
           /\ p = <<>> <=> Len(p) = 0
           /\ \A i \in 1 .. Len(p) : p[i] \in Name
  BY EmptySeq, ElementOfSeq

LEMMA ReachedDot ==
    ASSUME NEW all, NEW j \in Nat, NEW p \in Seq(Name), NEW f, Holds(p, f, all, j),
           all[j + 1] = "."
    PROVE  Holds(p, f, all, j + 1)
<1>1. Change(all[j + 1]) = 0 /\ all[j + 1] \notin Name
  BY Constants DEF Change
<1>0. OneMore(all, j)
  BY OneMoreFacts
<1>2. \A i \in 1 .. j : Depth(all, i, j + 1) = Depth(all, i, j) /\ Depth(all, i, j) \in Int
  BY <1>0, <1>1 DEF OneMore
<1>3. Depth(all, 1, j + 1) = Depth(all, 1, j)
  BY <1>0, <1>1 DEF OneMore
<1>4. Kept(all, j + 1) = Kept(all, j)
  <2>1. \A i \in Kept(all, j) : Depth(all, i, j) + 0 > 0
    BY <1>0, <1>2 DEF OneMore
  <2>2. Kept(all, j + 1) = {i \in Kept(all, j) : Depth(all, i, j) + 0 > 0}
    BY <1>0, <1>1 DEF OneMore
  <2> QED
    BY <2>1, <2>2
<1>5. Len(p) \in Nat /\ f \in [1 .. Len(p) -> 1 .. j]
  BY LenFacts DEF Holds
<1>6. f \in [1 .. Len(p) -> 1 .. j + 1]
  BY <1>5
<1>7. \A k \in 1 .. Len(p) : p[k] = all[f[k]] /\ Depth(all, f[k], j + 1) = Len(p) - k + 1
  BY <1>2, <1>5 DEF Holds
<1> QED
  BY <1>3, <1>4, <1>6, <1>7 DEF Holds

LEMMA ReachedName ==
    ASSUME NEW all, NEW j \in Nat, NEW p \in Seq(Name), NEW f, Holds(p, f, all, j),
           all[j + 1] \in Name
    PROVE  \E g : Holds(Append(p, all[j + 1]), g, all, j + 1)
<1> DEFINE N == Len(p)
           q == Append(p, all[j + 1])
           g == [k \in 1 .. N + 1 |-> IF k = N + 1 THEN j + 1 ELSE f[k]]
<1>0. OneMore(all, j)
  BY OneMoreFacts
<1>1. Change(all[j + 1]) = 1
  BY DEF Change
<1>2. N \in Nat /\ f \in [1 .. N -> 1 .. j]
  BY LenFacts DEF Holds
<1>3. /\ Len(q) = N + 1 /\ q[N + 1] = all[j + 1]
      /\ \A k \in 1 .. N : q[k] = p[k]
  BY AppendProperties
<1>4. /\ \A k, l \in 1 .. N : k < l => f[k] < f[l]
      /\ Kept(all, j) = {f[k] : k \in 1 .. N}
      /\ \A k \in 1 .. N : p[k] = all[f[k]] /\ Depth(all, f[k], j) = N - k + 1
      /\ Depth(all, 1, j) = N
  BY DEF Holds
<1>5. /\ g \in [1 .. N + 1 -> 1 .. j + 1] /\ g[N + 1] = j + 1
      /\ \A k \in 1 .. N : g[k] = f[k] /\ g[k] \in 1 .. j
  <2>1. \A k \in 1 .. N : k \in 1 .. N + 1 /\ k # N + 1 /\ f[k] \in 1 .. j
    BY <1>2
  <2>2. \A k \in 1 .. N + 1 : k \in 1 .. N \/ k = N + 1
    BY <1>2
  <2>3. j + 1 \in 1 .. j + 1 /\ N + 1 \in 1 .. N + 1 /\ 1 .. j \subseteq 1 .. j + 1
    BY <1>2
  <2> QED
    BY <2>1, <2>2, <2>3
<1> HIDE DEF N, q, g
<1>6. 1 .. N + 1 = (1 .. N) \cup {N + 1} /\ N + 1 \notin 1 .. N
  BY <1>2
<1>7. Depth(all, 1, j + 1) = N + 1
  BY <1>0, <1>1, <1>4 DEF OneMore
<1>8. ASSUME NEW k \in 1 .. N + 1, NEW l \in 1 .. N + 1, k < l
      PROVE  g[k] < g[l]
  <2>1. k \in 1 .. N /\ g[k] = f[k] /\ f[k] \in 1 .. j
    BY <1>2, <1>5, <1>8
  <2>2. CASE l = N + 1
    BY <1>5, <2>1, <2>2
  <2>3. CASE l \in 1 .. N
    BY <1>4, <1>5, <1>8, <2>1, <2>3
  <2> QED
    BY <1>6, <2>2, <2>3
<1>9. Kept(all, j + 1) = {g[k] : k \in 1 .. N + 1}
  <2>1. \A i \in Kept(all, j) : Depth(all, i, j) \in Int /\ Depth(all, i, j) > 0
    BY <1>0 DEF OneMore
  <2>2. \A i \in Kept(all, j) : Depth(all, i, j) + 1 > 0
    BY <2>1
  <2>3. Kept(all, j + 1) = {i \in Kept(all, j) : Depth(all, i, j) + 1 > 0} \cup {j + 1}
    BY <1>0, <1>1 DEF OneMore
  <2>4. Kept(all, j + 1) = Kept(all, j) \cup {j + 1}
    BY <2>2, <2>3
  <2>5. {g[k] : k \in 1 .. N + 1} = {g[k] : k \in 1 .. N} \cup {g[N + 1]}
    BY <1>6
  <2>6. {g[k] : k \in 1 .. N} = {f[k] : k \in 1 .. N}
    BY <1>5
  <2> QED
    BY <1>4, <1>5, <2>4, <2>5, <2>6
<1>10. ASSUME NEW k \in 1 .. N + 1
       PROVE  q[k] = all[g[k]] /\ Depth(all, g[k], j + 1) = (N + 1) - k + 1
  <2>1. CASE k \in 1 .. N
    <3>1. Depth(all, f[k], j + 1) = Depth(all, f[k], j) + 1
      BY <1>0, <1>1, <1>2, <2>1 DEF OneMore
    <3>2. q[k] = p[k] /\ p[k] = all[f[k]] /\ g[k] = f[k]
      BY <1>3, <1>4, <1>5, <2>1
    <3>3. Depth(all, f[k], j) = N - k + 1
      BY <1>4, <2>1
    <3>4. N - k + 1 + 1 = (N + 1) - k + 1
      BY <1>2, <2>1
    <3> QED
      BY <3>1, <3>2, <3>3, <3>4
  <2>2. CASE k = N + 1
    <3>1. Depth(all, j + 1, j + 1) = 1
      BY <1>0, <1>1 DEF OneMore
    <3> QED
      BY <1>2, <1>3, <1>5, <2>2, <3>1
  <2> QED
    BY <1>6, <2>1, <2>2
<1>11. Holds(q, g, all, j + 1)
  BY <1>3, <1>5, <1>7, <1>8, <1>9, <1>10 DEF Holds
<1> QED
  BY <1>11 DEF q

LEMMA ReachedUp ==
    ASSUME NEW all, NEW j \in Nat, NEW p \in Seq(Name), NEW f, Holds(p, f, all, j),
           all[j + 1] = "..", p # <<>>
    PROVE  \E g : Holds(Front(p), g, all, j + 1)
<1> DEFINE N == Len(p)
           q == Front(p)
           g == [k \in 1 .. N - 1 |-> f[k]]
<1>0. OneMore(all, j)
  BY OneMoreFacts
<1>1. Change(all[j + 1]) = -1 /\ all[j + 1] \notin Name
  BY Constants DEF Change
<1>2. N \in Nat /\ N > 0 /\ f \in [1 .. N -> 1 .. j]
  BY FrontFacts DEF Holds
<1>3. Len(q) = N - 1 /\ \A k \in 1 .. N - 1 : q[k] = p[k]
  BY FrontFacts
<1>4. /\ \A k, l \in 1 .. N : k < l => f[k] < f[l]
      /\ Kept(all, j) = {f[k] : k \in 1 .. N}
      /\ \A k \in 1 .. N : p[k] = all[f[k]] /\ Depth(all, f[k], j) = N - k + 1
      /\ Depth(all, 1, j) = N
  BY DEF Holds
<1>5. g \in [1 .. N - 1 -> 1 .. j + 1] /\ \A k \in 1 .. N - 1 : g[k] = f[k] /\ k \in 1 .. N
  BY <1>2
<1> HIDE DEF N, q, g
<1>6. 1 .. N = (1 .. N - 1) \cup {N} /\ N \notin 1 .. N - 1
  BY <1>2
<1>7. Depth(all, 1, j + 1) = N - 1
  BY <1>0, <1>1, <1>2, <1>4 DEF OneMore
<1>8. \A k, l \in 1 .. N - 1 : k < l => g[k] < g[l]
  BY <1>4, <1>5
<1>9. Kept(all, j + 1) = {g[k] : k \in 1 .. N - 1}
  <2>1. Kept(all, j + 1) = {i \in Kept(all, j) : Depth(all, i, j) + Change(all[j + 1]) > 0}
    BY <1>0, <1>1 DEF OneMore
  <2>2. ASSUME NEW k \in 1 .. N
        PROVE  Depth(all, f[k], j) + Change(all[j + 1]) > 0 <=> k \in 1 .. N - 1
    BY <1>1, <1>2, <1>4
  <2>3. Kept(all, j + 1) = {f[k] : k \in 1 .. N - 1}
    BY <1>4, <1>6, <2>1, <2>2
  <2> QED
    BY <1>5, <2>3
<1>10. ASSUME NEW k \in 1 .. N - 1
       PROVE  q[k] = all[g[k]] /\ Depth(all, g[k], j + 1) = (N - 1) - k + 1
  <2>1. Depth(all, f[k], j + 1) = Depth(all, f[k], j) + Change(all[j + 1])
    BY <1>0, <1>2, <1>5 DEF OneMore
  <2>2. k \in 1 .. N /\ Depth(all, f[k], j) = N - k + 1
    BY <1>4, <1>5
  <2>3. Depth(all, f[k], j + 1) = (N - k + 1) + (-1)
    BY <1>1, <2>1, <2>2
  <2>4. Depth(all, g[k], j + 1) = (N - 1) - k + 1
    BY <1>2, <1>5, <2>3
  <2>5. q[k] = all[g[k]]
    BY <1>3, <1>4, <1>5, <2>2
  <2> QED
    BY <2>4, <2>5
<1>11. Holds(q, g, all, j + 1)
  BY <1>3, <1>5, <1>7, <1>8, <1>9, <1>10 DEF Holds
<1> QED
  BY <1>11 DEF q

(* One turn of the loop. *)
LEMMA ReachedNext ==
    ASSUME NEW all, NEW j \in Nat, all[j + 1] \in Part, NEW p \in Place, Reached(p, all, j)
    PROVE  Reached(Enter(p, all[j + 1]), all, j + 1)
<1> DEFINE part == all[j + 1]
<1>0. OneMore(all, j)
  BY OneMoreFacts
<1>1. CASE ~Sound(all, j)
  <2>1. p = FAIL /\ ~Sound(all, j + 1)
    BY <1>0, <1>1 DEF Reached, OneMore
  <2> QED
    BY <2>1 DEF Reached, Enter
<1>2. CASE Sound(all, j) /\ part = ""
  <2>1. ~Sound(all, j + 1)
    BY <1>0, <1>2 DEF OneMore
  <2> QED
    BY <1>2, <2>1 DEF Reached, Enter
<1>3. CASE Sound(all, j) /\ part # ""
  <2>1. p \in Seq(Name) /\ p # FAIL
    BY <1>3, Constants DEF Reached
  <2>2. PICK f : Holds(p, f, all, j)
    BY <1>3 DEF Reached
  <2>3. /\ Depth(all, 1, j + 1) = Len(p) + Change(part)
        /\ Len(p) \in Nat /\ (p = <<>> <=> Len(p) = 0)
    <3>1. Len(p) \in Nat /\ (p = <<>> <=> Len(p) = 0)
      BY <2>1, LenFacts
    <3>2. Len(p) = Depth(all, 1, j)
      BY <2>2 DEF Holds
    <3> QED
      BY <1>0, <3>1, <3>2 DEF OneMore
  <2>4. Sound(all, j + 1) <=> Len(p) + Change(part) >= 0
    BY <1>0, <1>3, <2>3 DEF OneMore
  <2>5. CASE part = "."
    <3>1. Change(part) = 0 /\ Sound(all, j + 1)
      <4>1. Change(part) = 0
        BY <2>5, Constants DEF Change
      <4> QED
        BY <2>3, <2>4, <2>5, <4>1
    <3>2. Enter(p, part) = p
      BY <2>1, <2>5 DEF Enter
    <3>3. Holds(p, f, all, j + 1)
      BY <2>1, <2>2, <2>5, ReachedDot
    <3> QED
      BY <2>1, <3>1, <3>2, <3>3 DEF Reached
  <2>6. CASE part = ".." /\ p = <<>>
    <3>1. Change(part) = -1 /\ ~Sound(all, j + 1)
      <4>1. Change(part) = -1
        BY <2>6, Constants DEF Change
      <4> QED
        BY <2>3, <2>4, <2>6, <4>1
    <3>2. Enter(p, part) = FAIL
      BY <2>1, <2>6 DEF Enter
    <3> QED
      BY <3>1, <3>2 DEF Reached
  <2>7. CASE part = ".." /\ p # <<>>
    <3>1. Change(part) = -1 /\ Sound(all, j + 1)
      <4>1. Change(part) = -1
        BY <2>7, Constants DEF Change
      <4> QED
        BY <2>3, <2>4, <2>7, <4>1
    <3>2. Enter(p, part) = Front(p) /\ Front(p) \in Seq(Name)
      BY <2>1, <2>7, FrontFacts DEF Enter
    <3>3. \E g : Holds(Front(p), g, all, j + 1)
      BY <2>1, <2>2, <2>7, ReachedUp
    <3> QED
      BY <3>1, <3>2, <3>3 DEF Reached
  <2>8. CASE part \in Name
    <3>1. Change(part) = 1 /\ Sound(all, j + 1)
      BY <2>3, <2>4, <2>8 DEF Change
    <3>2. Enter(p, part) = Append(p, part) /\ Append(p, part) \in Seq(Name)
      BY <1>3, <2>1, <2>8, AppendProperties, Constants DEF Enter
    <3>3. \E g : Holds(Append(p, part), g, all, j + 1)
      BY <2>1, <2>2, <2>8, ReachedName
    <3> QED
      BY <3>1, <3>2, <3>3 DEF Reached
  <2> QED
    BY <1>3, <2>5, <2>6, <2>7, <2>8 DEF Part
<1> QED
  BY <1>1, <1>2, <1>3

(* The beginning: nothing but names. *)
LEMMA ReachedStart ==
    ASSUME NEW all, NEW start \in Seq(Name),
           \A k \in 1 .. Len(start) : all[k] = start[k]
    PROVE  Reached(start, all, Len(start))
<1> DEFINE m == Len(start)
<1>1. m \in Nat /\ \A k \in 1 .. m : start[k] \in Name /\ all[k] \in Name
  BY LenFacts
<1> HIDE DEF m
<1>2. ASSUME NEW i \in 1 .. m + 1, NEW k \in 0 .. m, i <= k + 1
      PROVE  Depth(all, i, k) = k - i + 1
  <2>1. \A l \in i .. k : l \in 1 .. m
    BY <1>1
  <2>2. At(all, Name, i, k) = i .. k
    BY <1>1, <2>1 DEF At
  <2>3. At(all, {".."}, i, k) = {}
    BY <1>1, <2>1, Constants DEF At
  <2>4. Cardinality(i .. k) = k - i + 1
    <3>1. i \in Int /\ k \in Int
      BY <1>1
    <3>2. Cardinality(i .. k) = IF i > k THEN 0 ELSE k - i + 1
      BY <3>1, FS_Interval
    <3> QED
      BY <1>2, <3>1, <3>2
  <2> QED
    <3>1. Depth(all, i, k) = Cardinality(i .. k) - Cardinality({})
      BY <2>2, <2>3, Zenon DEF Depth
    <3> QED
      BY <1>1, <2>4, <3>1, FS_EmptySet
<1>3. Sound(all, m)
  <2> SUFFICES ASSUME NEW k \in 1 .. m PROVE all[k] # "" /\ Depth(all, 1, k) >= 0
    BY DEF Sound
  <2>1. Depth(all, 1, k) = k - 1 + 1
    <3>1. 1 \in 1 .. m + 1 /\ k \in 0 .. m /\ 1 <= k + 1
      BY <1>1
    <3> QED
      BY <1>2, <3>1
  <2>2. all[k] # ""
    BY <1>1, Constants
  <2>3. k - 1 + 1 >= 0
    BY <1>1
  <2> QED
    BY <2>1, <2>2, <2>3
<1> DEFINE f == [k \in 1 .. m |-> k]
<1>4. f \in [1 .. m -> 1 .. m] /\ \A k \in 1 .. m : f[k] = k
  OBVIOUS
<1> HIDE DEF f
<1>5. Kept(all, m) = {f[k] : k \in 1 .. m}
  <2>1. {f[k] : k \in 1 .. m} = 1 .. m
    BY <1>4
  <2>2. ASSUME NEW i \in 1 .. m, NEW j \in i .. m PROVE Depth(all, i, j) > 0
    <3>1. i \in 1 .. m + 1 /\ j \in 0 .. m /\ i <= j + 1
      BY <1>1
    <3>2. Depth(all, i, j) = j - i + 1
      BY <1>2, <3>1, Zenon
    <3>3. j - i + 1 > 0
      BY <1>1
    <3> QED
      BY <3>2, <3>3
  <2>3. At(all, Name, 1, m) = 1 .. m
    BY <1>1 DEF At
  <2> QED
    BY <2>1, <2>2, <2>3 DEF Kept
<1>6. Depth(all, 1, m) = m
  BY <1>1, <1>2
<1>7. \A k \in 1 .. m : start[k] = all[f[k]] /\ Depth(all, f[k], m) = m - k + 1
  <2> SUFFICES ASSUME NEW k \in 1 .. m
               PROVE  start[k] = all[f[k]] /\ Depth(all, f[k], m) = m - k + 1
    OBVIOUS
  <2>1. k \in 1 .. m + 1 /\ m \in 0 .. m /\ k <= m + 1
    BY <1>1
  <2>2. Depth(all, k, m) = m - k + 1
    BY <1>2, <2>1, Zenon
  <2>3. start[k] = all[k]
    BY DEF m
  <2> QED
    BY <1>4, <2>2, <2>3
<1>8. Holds(start, f, all, m)
  BY <1>4, <1>5, <1>6, <1>7 DEF Holds, m
<1> QED
  BY <1>3, <1>8 DEF Reached, m

(* The end. *)
LEMMA WalkedReached ==
    ASSUME NEW parts \in Seq(Part), NEW start \in Seq(Name)
    PROVE  Reached(Walked(parts, start), start \o parts, Len(start) + Len(parts))
<1> DEFINE N == Len(parts)
           m == Len(start)
           all == start \o parts
<1>1. PICK w \in [0 .. N -> Place] :
              /\ w[0] = start
              /\ \A i \in 1 .. N : w[i] = Enter(w[i - 1], parts[i])
              /\ Walked(parts, start) = w[N]
  BY Walk
<1>2. N \in Nat /\ m \in Nat
  BY LenProperties
<1>3. \A k \in 1 .. m : all[k] = start[k]
  BY <1>2
<1>4. \A k \in 1 .. N : all[m + k] = parts[k] /\ parts[k] \in Part
  BY <1>2, ElementOfSeq
<1>5. Reached(start, all, m)
  <2> HIDE DEF all
  <2> QED
    BY <1>3, ReachedStart
<1> HIDE DEF N, all, m
<1> DEFINE G == {n \in 0 .. N : Reached(w[n], all, m + n)}
<1>6. 0 \in G
  <2>1. m + 0 = m
    BY <1>2
  <2> QED
    BY <1>1, <1>2, <1>5, <2>1
<1>7. ASSUME NEW n \in 0 .. N - 1, n \in G PROVE n + 1 \in G
  <2>1. n + 1 \in 1 .. N /\ (n + 1) - 1 = n /\ m + n \in Nat /\ (m + n) + 1 = m + (n + 1)
    BY <1>2
  <2>2. w[n + 1] = Enter(w[n], all[(m + n) + 1]) /\ all[(m + n) + 1] \in Part
    BY <1>1, <1>4, <2>1
  <2>3. w[n] \in Place /\ Reached(w[n], all, m + n)
    BY <1>2, <1>7
  <2>4. Reached(Enter(w[n], all[(m + n) + 1]), all, (m + n) + 1)
    BY <2>1, <2>2, <2>3, ReachedNext
  <2> QED
    BY <1>2, <2>1, <2>2, <2>4
<1>8. \A n \in 0 .. N : n \in G
  <2> HIDE DEF G
  <2> QED
    BY <1>2, <1>6, <1>7, UpTo
<1> QED
  BY <1>1, <1>2, <1>8 DEF N, m, all

(* The first n values of a rising function are n. *)
LEMMA Rising ==
    ASSUME NEW L \in Nat, NEW f \in [1 .. L -> Nat], NEW n \in 0 .. L,
           \A k, l \in 1 .. L : k < l => f[k] < f[l]
    PROVE  Cardinality({f[k] : k \in 1 .. n}) = n
<1> DEFINE T == {f[k] : k \in 1 .. n}
           g == [k \in 1 .. n |-> f[k]]
<1>1. \A k \in 1 .. n : k \in 1 .. L
  OBVIOUS
<1>2. ASSUME NEW k \in 1 .. n, NEW l \in 1 .. n, f[k] = f[l] PROVE k = l
  <2>1. f[k] \in Nat /\ f[l] \in Nat
    BY <1>1
  <2>2. ~(k < l) /\ ~(l < k)
    BY <1>1, <1>2, <2>1
  <2> QED
    BY <2>2
<1>3. g \in Bijection(1 .. n, T)
  BY <1>1, <1>2 DEF Bijection, Injection, Surjection, IsInjective
<1>4. ExistsBijection(1 .. n, T)
  BY <1>3, Zenon DEF ExistsBijection
<1>5. IsFiniteSet(1 .. n) /\ Cardinality(1 .. n) = n
  <2>1. 1 \in Int /\ n \in Int
    OBVIOUS
  <2>2. IsFiniteSet(1 .. n) /\ Cardinality(1 .. n) = IF 1 > n THEN 0 ELSE n - 1 + 1
    BY <2>1, FS_Interval, Zenon
  <2> QED
    BY <2>2
<1> HIDE DEF T
<1>6. Cardinality(T) = Cardinality(1 .. n)
  BY <1>4, <1>5, FS_Bijection, Zenon
<1> QED
  BY <1>5, <1>6 DEF T

(* In the order they were given in, these are the names of the path. *)
LEMMA HeldInOrder ==
    ASSUME NEW all, NEW N \in Nat, NEW p \in Seq(Name), NEW f, Holds(p, f, all, N)
    PROVE  p = InOrder(all, Kept(all, N))
<1> DEFINE L == Len(p)
           kept == Kept(all, N)
<1>1. L \in Nat /\ p = [n \in 1 .. L |-> p[n]]
  BY LenProperties
<1>2. /\ f \in [1 .. L -> 1 .. N]
      /\ \A k, l \in 1 .. L : k < l => f[k] < f[l]
      /\ kept = {f[k] : k \in 1 .. L}
      /\ \A k \in 1 .. L : p[k] = all[f[k]]
  BY DEF Holds
<1> HIDE DEF L, kept
<1>3. f \in [1 .. L -> Nat] /\ \A k \in 1 .. L : f[k] \in Nat /\ f[k] >= 1
  BY <1>2
<1>4. Cardinality(kept) = L
  <2>1. L \in 0 .. L
    BY <1>1
  <2> QED
    BY <1>1, <1>2, <1>3, <2>1, Rising
<1>5. ASSUME NEW n \in 1 .. L
      PROVE  Cardinality(kept \cap (1 .. f[n])) = n
  <2>1. ASSUME NEW k \in 1 .. L PROVE f[k] \in 1 .. f[n] <=> k \in 1 .. n
    <3>1. k < n => f[k] < f[n]
      BY <1>2
    <3>2. n < k => f[n] < f[k]
      BY <1>2
    <3> QED
      BY <1>3, <3>1, <3>2
  <2>2. kept \cap (1 .. f[n]) = {f[k] : k \in 1 .. n}
    <3>1. \A k \in 1 .. n : k \in 1 .. L
      BY <1>1
    <3> QED
      BY <1>2, <2>1, <3>1
  <2>3. n \in 0 .. L
    BY <1>1
  <2> QED
    BY <1>1, <1>2, <1>3, <2>2, <2>3, Rising
<1>6. ASSUME NEW n \in 1 .. L PROVE Nth(kept, n) = f[n]
  <2>1. f[n] \in kept /\ Cardinality(kept \cap (1 .. f[n])) = n
    BY <1>2, <1>5
  <2>2. ASSUME NEW i \in kept, Cardinality(kept \cap (1 .. i)) = n PROVE i = f[n]
    <3>1. PICK k \in 1 .. L : i = f[k]
      BY <1>2
    <3>2. Cardinality(kept \cap (1 .. f[k])) = k
      BY <1>5
    <3> QED
      BY <2>2, <3>1, <3>2
  <2> QED
    BY <2>1, <2>2 DEF Nth
<1>7. p = [n \in 1 .. L |-> all[Nth(kept, n)]]
  BY <1>1, <1>2, <1>6
<1>8. p = InOrder(all, kept)
  BY <1>4, <1>7 DEF InOrder
<1> QED
  BY <1>8 DEF kept

LEMMA Resolves ==
    ASSUME NEW req \in Request, NEW from \in Seq(Name)
    PROVE  GetPath(req, from) = Resolved(req, from)
<1> DEFINE parts == Parts(req)
           start == Start(req, from)
           all == start \o parts
           N == Len(start) + Len(parts)
           p == Walked(parts, start)
<1>1. start \in Seq(Name) /\ parts \in Seq(Part)
  BY PartsType DEF Start
<1>2. Reached(p, all, N)
  BY <1>1, WalkedReached
<1>3. /\ Len(start) \in Nat /\ Len(parts) \in Nat /\ N \in Nat /\ Len(all) = N
      /\ \A k \in 1 .. Len(start) : all[k] = start[k] /\ start[k] \in Name
      /\ \A k \in 1 .. Len(parts) : all[Len(start) + k] = parts[k]
  BY <1>1, LenFacts, LenProperties
<1>4. CASE parts = <<>>
  BY <1>4 DEF GetPath, Resolved
<1>5. CASE parts # <<>>
  <2>1. GetPath(req, from) = p
    BY <1>5 DEF GetPath
  <2> DEFINE wrong == Contains(parts, "") \/ \E j \in 1 .. N : Depth(all, 1, j) < 0
  <2>2. wrong <=> ~Sound(all, N)
    <3>1. Contains(parts, "") <=> \E k \in 1 .. N : all[k] = ""
      <4>1. ASSUME NEW k \in 1 .. Len(parts)
            PROVE  Len(start) + k \in 1 .. N /\ all[Len(start) + k] = parts[k]
        <5> HIDE DEF all, parts, start
        <5> QED
          BY <1>3
      <4>2. ASSUME NEW k \in 1 .. N, all[k] = ""
            PROVE  k - Len(start) \in 1 .. Len(parts) /\ parts[k - Len(start)] = ""
        <5> HIDE DEF all, parts, start
        <5>1. k \notin 1 .. Len(start)
          BY <1>3, <4>2, Constants
        <5>2. k - Len(start) \in 1 .. Len(parts) /\ Len(start) + (k - Len(start)) = k
          BY <1>3, <5>1
        <5> QED
          BY <1>3, <4>2, <5>2
      <4> HIDE DEF all, N, parts, start
      <4> QED
        BY <4>1, <4>2 DEF Contains
    <3>2. ASSUME NEW k \in 1 .. N PROVE Depth(all, 1, k) < 0 <=> ~(Depth(all, 1, k) >= 0)
      <4> HIDE DEF all, N
      <4>1. Depth(all, 1, k) \in Int
        <5>1. 1 \in Nat /\ k \in Nat /\ 1 <= k + 1
          BY <1>3
        <5> QED
          BY <5>1, DepthNext, Zenon
      <4> QED
        BY <4>1
    <3> HIDE DEF all, N, parts
    <3> QED
      BY <3>1, <3>2 DEF Sound
  <2>3. CASE wrong
    <3>1. p = FAIL
      BY <1>2, <2>2, <2>3 DEF Reached
    <3>2. Resolved(req, from) = FAIL
      BY <1>3, <2>3 DEF Resolved
    <3> QED
      BY <2>1, <3>1, <3>2
  <2>4. CASE ~wrong
    <3>1. p \in Seq(Name) /\ \E f : Holds(p, f, all, N)
      BY <1>2, <2>2, <2>4 DEF Reached
    <3>2. p = InOrder(all, Kept(all, N))
      <4> HIDE DEF all, N, p
      <4> QED
        BY <1>3, <3>1, HeldInOrder, Zenon
    <3>3. Resolved(req, from) = InOrder(all, Kept(all, N))
      <4> DEFINE r == InOrder(all, Kept(all, Len(all)))
      <4>1. Resolved(req, from) =
               IF parts = <<>> \/ Contains(parts, "")
                     \/ \E j \in 1 .. Len(all) : Depth(all, 1, j) < 0
               THEN FAIL ELSE r
        BY DEF Resolved
      <4> HIDE DEF r, parts, all, N
      <4>2. Resolved(req, from) = r
        BY <1>3, <1>5, <2>4, <4>1
      <4> QED
        BY <1>3, <4>2 DEF r
    <3> QED
      BY <2>1, <3>2, <3>3
  <2> QED
    BY <2>3, <2>4
<1> QED
  BY <1>4, <1>5

-----------------------------------------------------------------------------
(* The tree. *)

(* Without the root there is nothing but, perhaps, a file in its place.    *)
Rootless == <<>> \notin dirs => dirs = {} /\ files \subseteq {<<>>}

Inv == TypeOK /\ Rootless

LEMMA PrefixIs ==
    ASSUME NEW a \in Seq(Name), NEW b \in Seq(Name)
    PROVE  IsPrefix(a, b) <=> /\ Len(a) <= Len(b)
                              /\ \A i \in 1 .. Len(a) : a[i] = b[i]
<1> DEFINE n == Len(a)
           s == SubSeq(a, 1, n)
           t == SubSeq(b, 1, n)
<1>1. n \in Nat /\ Len(b) \in Nat
  BY LenFacts
<1>2. IsPrefix(a, b) <=> n <= Len(b) /\ s = t
  BY DEF IsPrefix
<1>3. \A i \in 1 .. n : a[i] \in Name
  BY LenFacts
<1>4. s \in Seq(Name) /\ Len(s) = n /\ \A i \in 1 .. n : s[i] = a[i]
  <2> HIDE DEF n
  <2> QED
    BY <1>1, <1>3, SubSeqProperties
<1>5. CASE n <= Len(b)
  <2>1. \A i \in 1 .. n : b[i] \in Name
    BY <1>1, <1>5, LenFacts
  <2>2. t \in Seq(Name) /\ Len(t) = n /\ \A i \in 1 .. n : t[i] = b[i]
    <3> HIDE DEF n
    <3> QED
      BY <1>1, <2>1, SubSeqProperties
  <2>3. s = t <=> \A i \in 1 .. n : s[i] = t[i]
    <3> HIDE DEF s, t
    <3> QED
      BY <1>4, <2>2, SeqEqual
  <2> HIDE DEF s, t
  <2> QED
    BY <1>2, <1>4, <1>5, <2>2, <2>3
<1>6. CASE ~(n <= Len(b))
  BY <1>2, <1>6
<1> QED
  BY <1>5, <1>6

LEMMA PrefixSelf == \A p \in Seq(Name) : IsPrefix(p, p)
  BY PrefixIs, LenFacts

LEMMA Root == <<>> \in Seq(Name) /\ Len(<<>>) = 0
  BY EmptySeq

LEMMA PrefixRoot == \A p \in Seq(Name) : IsPrefix(<<>>, p)
<1> SUFFICES ASSUME NEW p \in Seq(Name) PROVE IsPrefix(<<>>, p)
  OBVIOUS
<1> DEFINE root == <<>>
<1>1. root \in Seq(Name) /\ Len(root) = 0 /\ Len(p) \in Nat
  BY Root, LenFacts
<1> HIDE DEF root
<1>2. Len(root) <= Len(p) /\ \A i \in 1 .. Len(root) : root[i] = p[i]
  BY <1>1
<1>3. IsPrefix(root, p)
  BY <1>1, <1>2, PrefixIs
<1> QED
  BY <1>3 DEF root

(* What lies above a path that is not the root. *)
LEMMA Above ==
    ASSUME NEW p \in Seq(Name), p # <<>>
    PROVE  /\ Front(p) \in Seq(Name) /\ Front(p) # p
           /\ \A to \in Seq(Name) : IsPrefix(to, Front(p)) => IsPrefix(to, p)
           /\ IsPrefix(Front(p), p)
<1>1. /\ Front(p) \in Seq(Name) /\ Len(Front(p)) = Len(p) - 1
      /\ Len(p) \in Nat /\ Len(p) > 0 /\ \A i \in 1 .. Len(p) - 1 : Front(p)[i] = p[i]
  BY FrontFacts
<1> DEFINE q == Front(p)
           n == Len(p)
<1> HIDE DEF q, n
<1>2. ASSUME NEW to \in Seq(Name), IsPrefix(to, q) PROVE IsPrefix(to, p)
  <2>1. Len(to) \in Nat /\ Len(to) <= n - 1 /\ \A i \in 1 .. Len(to) : to[i] = q[i]
    BY <1>1, <1>2, PrefixIs, LenFacts DEF q, n
  <2>2. \A i \in 1 .. Len(to) : i \in 1 .. n - 1
    BY <1>1, <2>1 DEF n
  <2>3. Len(to) <= n /\ \A i \in 1 .. Len(to) : to[i] = p[i]
    BY <1>1, <2>1, <2>2 DEF q, n
  <2> QED
    BY <2>3, PrefixIs DEF n
<1>3. IsPrefix(q, q)
  BY <1>1, PrefixSelf DEF q
<1> QED
  BY <1>1, <1>2, <1>3 DEF q

LEMMA WayFacts ==
    ASSUME Inv, NEW to \in Seq(Name), NEW i \in Way(to)
    PROVE  LET s == SubSeq(to, 1, i)
           IN  /\ s \in Seq(Name) /\ s \notin files /\ s # <<>> /\ Len(s) <= MaxPath
               /\ Front(s) \in dirs \cup {SubSeq(to, 1, j) : j \in Way(to)}
               /\ IsPrefix(s, to)
               /\ i = Len(to) => s = to
<1> DEFINE s == SubSeq(to, 1, i)
<1>1. /\ Len(to) \in Nat /\ i \in 1 .. Len(to) /\ <<>> \in dirs
      /\ \A j \in 1 .. i : SubSeq(to, 1, j) \notin files /\ j <= MaxPath
  BY LenFacts DEF Way
<1>2. \A k \in 1 .. i : to[k] \in Name
  BY <1>1, LenFacts
<1>3. s \in Seq(Name) /\ Len(s) = i /\ \A k \in 1 .. i : s[k] = to[k]
  BY <1>1, <1>2, SubSeqProperties
<1>4. s # <<>> /\ s \notin files /\ Len(s) <= MaxPath
  <2>1. i \in 1 .. i
    BY <1>1
  <2> QED
    BY <1>1, <1>3, <2>1, LenFacts
<1>5. IsPrefix(s, to)
  <2> HIDE DEF s
  <2> QED
    BY <1>1, <1>3, PrefixIs
<1>6. Front(s) \in dirs \cup {SubSeq(to, 1, j) : j \in Way(to)}
  <2> DEFINE t == SubSeq(to, 1, i - 1)
  <2>1. /\ Front(s) \in Seq(Name) /\ Len(Front(s)) = i - 1
        /\ \A k \in 1 .. i - 1 : Front(s)[k] = s[k]
    <3> HIDE DEF s
    <3> QED
      BY <1>3, <1>4, FrontFacts
  <2>2. CASE i = 1
    <3>1. Front(s) = <<>>
      <4> HIDE DEF s
      <4> QED
        BY <2>1, <2>2, LenFacts
    <3> QED
      BY <1>1, <3>1
  <2>3. CASE i # 1
    <3>1. i - 1 \in Nat /\ i - 1 \in 1 .. Len(to) /\ \A k \in 1 .. i - 1 : k \in 1 .. i
      BY <1>1, <2>3
    <3>2. i - 1 \in Way(to)
      BY <1>1, <3>1 DEF Way
    <3>3. t \in Seq(Name) /\ Len(t) = i - 1 /\ \A k \in 1 .. i - 1 : t[k] = to[k]
      BY <1>2, <3>1, SubSeqProperties
    <3>4. Front(s) = t
      <4> DEFINE q == Front(s)
      <4>1. /\ q \in Seq(Name) /\ Len(q) = i - 1
            /\ \A k \in 1 .. i - 1 : q[k] = t[k]
        <5> HIDE DEF t, s
        <5> QED
          BY <1>3, <2>1, <3>1, <3>3
      <4> HIDE DEF q, t
      <4>2. q = t
        BY <3>1, <3>3, <4>1, SeqEqual
      <4> QED
        BY <4>2 DEF q
    <3> QED
      BY <3>2, <3>4
  <2> QED
    BY <2>2, <2>3
<1>7. i = Len(to) => s = to
  <2> HIDE DEF s
  <2> QED
    BY <1>3, SeqEqual
<1> QED
  BY <1>3, <1>4, <1>5, <1>6, <1>7

(* What each request keeps and does. *)
Right == Inv' /\ OnlyNamedStep /\ SucceedMeansStep /\ RootGoneStep

LEMMA To ==
    ASSUME Inv, NEW c \in Connection, NEW req \in Request
    PROVE  /\ path[c] \in Seq(Name)
           /\ GetPath(req, path[c]) \in Place
           /\ FAIL \notin dirs /\ FAIL \notin files
           /\ dirs \subseteq Seq(Name) /\ files \subseteq Seq(Name)
<1>1. path[c] \in Seq(Name) /\ dirs \cup files \subseteq Seq(Name)
  BY DEF Inv, TypeOK
<1> QED
  BY <1>1, GetPathType, Constants

LEMMA InitInv == Init => Inv
<1> SUFFICES ASSUME Init PROVE Inv
  OBVIOUS
<1>1. <<>> \in Seq(Name) /\ Len(<<>>) = 0 /\ MaxPath \in Nat
  BY Root, Constants
<1> QED
  BY <1>1 DEF Init, Inv, TypeOK, Rootless

LEMMA ChangeDirectoryRight ==
    ASSUME Inv, NEW c \in Connection, NEW req \in Request, ChangeDirectory(c, req)
    PROVE  Right
<1> DEFINE to == GetPath(req, path[c])
           ok == to \in dirs
<1>1. /\ path' = IF ok THEN [path EXCEPT ![c] = to] ELSE path
      /\ last' = [op |-> "cd", by |-> c, to |-> to, ok |-> ok]
      /\ dirs' = dirs /\ files' = files
  BY DEF ChangeDirectory, Did
<1>2. ok => to \in Seq(Name)
  BY To
<1> HIDE DEF to
<1>3. Inv'
  <2>1. path' \in [Connection -> Seq(Name)]
    BY <1>1, <1>2 DEF Inv, TypeOK
  <2> QED
    BY <1>1, <2>1 DEF Inv, TypeOK, Rootless
<1>4. last'.op = "cd" /\ last'.by = c /\ last'.to = to /\ last'.ok = ok
  BY <1>1
<1>5. OnlyNamedStep
  BY <1>1, <1>4 DEF OnlyNamedStep, Inv, TypeOK
<1>6. SucceedMeansStep
  BY <1>1, <1>4 DEF SucceedMeansStep, Inv, TypeOK
<1>7. RootGoneStep
  BY <1>1 DEF RootGoneStep, Inv, Rootless
<1> QED
  BY <1>3, <1>5, <1>6, <1>7 DEF Right

LEMMA CreateDirectoryRight ==
    ASSUME Inv, NEW c \in Connection, NEW req \in Request, CreateDirectory(c, req)
    PROVE  Right
<1> DEFINE to == GetPath(req, path[c])
           ok == to \notin {FAIL, <<>>} /\ to \notin dirs /\ Len(to) \in Way(to)
           made == IF to = FAIL THEN {} ELSE {SubSeq(to, 1, i) : i \in Way(to)}
<1>1. /\ dirs' = dirs \cup made /\ path' = path /\ files' = files
      /\ last' = [op |-> "mkdir", by |-> c, to |-> to, ok |-> ok]
  BY DEF CreateDirectory, Did
<1>2. to \in Place /\ FAIL \notin Seq(Name)
  BY To, Constants
<1>3. ASSUME NEW s \in made
      PROVE  /\ s \in Seq(Name) /\ s \notin files /\ s # <<>> /\ Len(s) <= MaxPath
             /\ Front(s) \in dirs' /\ IsPrefix(s, to)
  <2>1. to \in Seq(Name)
    BY <1>2 DEF Place
  <2>2. PICK i \in Way(to) : s = SubSeq(to, 1, i)
    OBVIOUS
  <2>3. made = {SubSeq(to, 1, j) : j \in Way(to)}
    BY <1>2, <2>1
  <2> HIDE DEF to, made
  <2> QED
    BY <1>1, <2>1, <2>2, <2>3, WayFacts
<1>4. ok => to \in made
  <2> SUFFICES ASSUME ok PROVE to \in made
    OBVIOUS
  <2>1. to \in Seq(Name) /\ Len(to) \in Way(to) /\ to # FAIL
    BY <1>2 DEF Place
  <2>2. SubSeq(to, 1, Len(to)) = to
    <3> HIDE DEF to
    <3> QED
      BY <2>1, WayFacts
  <2> QED
    BY <2>1, <2>2
<1>5. <<>> \notin dirs => made = {}
  BY DEF Way
<1>6. ok => to \notin dirs
  OBVIOUS
<1> HIDE DEF to, ok, made
<1>7. Inv'
  <2>1. path' \in [Connection -> Seq(Name)] /\ dirs' \cup files' \subseteq Seq(Name)
    BY <1>1, <1>3 DEF Inv, TypeOK
  <2>2. dirs' \cap files' = {}
    BY <1>1, <1>3 DEF Inv, TypeOK
  <2>3. \A p \in (dirs' \cup files') \ {<<>>} : Front(p) \in dirs'
    BY <1>1, <1>3 DEF Inv, TypeOK
  <2>4. \A p \in dirs' \cup files' : Len(p) <= MaxPath
    BY <1>1, <1>3 DEF Inv, TypeOK
  <2>5. Rootless'
    BY <1>1, <1>5 DEF Inv, Rootless
  <2> QED
    BY <2>1, <2>2, <2>3, <2>4, <2>5 DEF Inv, TypeOK
<1>8. last'.op = "mkdir" /\ last'.by = c /\ last'.to = to /\ last'.ok = ok
  BY <1>1
<1>9. OnlyNamedStep
  <2>1. dirs \ dirs' = {} /\ files \ files' = {} /\ files' \ files = {} /\ dirs' \ dirs \subseteq made
    BY <1>1
  <2> QED
    BY <1>1, <1>3, <1>8, <2>1 DEF OnlyNamedStep
<1>10. SucceedMeansStep
  BY <1>1, <1>4, <1>6, <1>8 DEF SucceedMeansStep
<1>11. RootGoneStep
  BY <1>1, <1>5 DEF RootGoneStep, Inv, Rootless
<1> QED
  BY <1>7, <1>9, <1>10, <1>11 DEF Right

LEMMA RemoveDirectoryRight ==
    ASSUME Inv, NEW c \in Connection, NEW req \in Request, RemoveDirectory(c, req)
    PROVE  Right
<1> DEFINE to == GetPath(req, path[c])
           ok == to \in dirs
<1>1. /\ dirs' = IF ok THEN {p \in dirs : ~IsPrefix(to, p)} ELSE dirs
      /\ files' = IF ok THEN {p \in files : ~IsPrefix(to, p)} ELSE files
      /\ last' = [op |-> "rmdir", by |-> c, to |-> to, ok |-> ok]
      /\ path' = path
  BY DEF RemoveDirectory, Did
<1>2. ok => to \in Seq(Name)
  BY To
<1> HIDE DEF to
<1>3. dirs' \subseteq dirs /\ files' \subseteq files
  BY <1>1
<1>4. ASSUME NEW p \in (dirs' \cup files') \ {<<>>} PROVE Front(p) \in dirs'
  <2>1. Front(p) \in dirs /\ p \in Seq(Name) /\ p # <<>>
    BY <1>3, <1>4 DEF Inv, TypeOK
  <2>2. ok => ~IsPrefix(to, p)
    BY <1>1, <1>4
  <2>3. ok => ~IsPrefix(to, Front(p))
    BY <1>2, <2>1, <2>2, Above
  <2> QED
    BY <1>1, <2>1, <2>3
<1>5. Rootless'
  <2>1. CASE <<>> \notin dirs
    BY <1>3, <2>1 DEF Inv, Rootless
  <2>2. CASE <<>> \in dirs /\ <<>> \notin dirs'
    <3>1. ok /\ IsPrefix(to, <<>>)
      BY <1>1, <2>2
    <3>2. to = <<>>
      <4>1. Len(to) <= 0 /\ Len(to) \in Nat
        BY <1>2, <3>1, PrefixIs, Root, LenFacts
      <4> QED
        BY <1>2, <3>1, <4>1, LenFacts
    <3>3. \A p \in dirs \cup files : IsPrefix(to, p)
      BY <3>2, PrefixRoot DEF Inv, TypeOK
    <3> QED
      BY <1>1, <3>1, <3>3 DEF Rootless
  <2> QED
    BY <2>1, <2>2 DEF Rootless
<1>6. Inv'
  BY <1>1, <1>3, <1>4, <1>5 DEF Inv, TypeOK
<1>7. last'.op = "rmdir" /\ last'.by = c /\ last'.to = to /\ last'.ok = ok
  BY <1>1
<1>8. OnlyNamedStep
  BY <1>1, <1>7 DEF OnlyNamedStep
<1>9. SucceedMeansStep
  BY <1>1, <1>7 DEF SucceedMeansStep
<1>10. RootGoneStep
  <2>1. ASSUME <<>> \in dirs \ dirs' PROVE to = <<>>
    <3>1. ok /\ IsPrefix(to, <<>>)
      BY <1>1, <2>1
    <3>2. Len(to) <= 0 /\ Len(to) \in Nat
      BY <1>2, <3>1, PrefixIs, Root, LenFacts
    <3> QED
      BY <1>2, <3>1, <3>2, LenFacts
  <2>2. <<>> \notin dirs => dirs' = {} /\ files' \subseteq {<<>>}
    BY <1>3 DEF Inv, Rootless
  <2> QED
    BY <1>7, <2>1, <2>2 DEF RootGoneStep
<1> QED
  BY <1>6, <1>8, <1>9, <1>10 DEF Right

LEMMA RemoveFileRight ==
    ASSUME Inv, NEW c \in Connection, NEW req \in Request, RemoveFile(c, req)
    PROVE  Right
<1> DEFINE to == GetPath(req, path[c])
           ok == to \in dirs \cup (files \ {<<>>})
           empty == \A p \in dirs \cup files : IsPrefix(to, p) => p = to
<1>1. /\ dirs' = IF ok /\ empty THEN dirs \ {to} ELSE dirs
      /\ files' = IF ok THEN files \ {to} ELSE files
      /\ last' = [op |-> "rm", by |-> c, to |-> to, ok |-> ok]
      /\ path' = path
  BY DEF RemoveFile, Did
<1>2. ok => to \in Seq(Name)
  BY To
<1> HIDE DEF to
<1>3. dirs' \subseteq dirs /\ files' \subseteq files
  BY <1>1
<1>4. ASSUME NEW p \in (dirs' \cup files') \ {<<>>} PROVE Front(p) \in dirs'
  <2>1. Front(p) \in dirs /\ p \in Seq(Name) /\ p # <<>> /\ p \in dirs \cup files
    BY <1>3, <1>4 DEF Inv, TypeOK
  <2>2. Front(p) # p /\ IsPrefix(Front(p), p)
    BY <2>1, Above
  <2>3. empty => Front(p) # to
    BY <2>1, <2>2
  <2> QED
    BY <1>1, <2>1, <2>3
<1>5. ASSUME <<>> \in dirs, <<>> \notin dirs'
      PROVE  to = <<>> /\ dirs' = {} /\ files' \subseteq {<<>>}
  <2>1. ok /\ empty /\ to = <<>>
    BY <1>1, <1>5
  <2>2. \A p \in dirs \cup files : p = <<>>
    BY <2>1, PrefixRoot DEF Inv, TypeOK
  <2> QED
    BY <1>1, <2>1, <2>2
<1>6. Rootless'
  BY <1>3, <1>5 DEF Inv, Rootless
<1>7. Inv'
  BY <1>1, <1>3, <1>4, <1>6 DEF Inv, TypeOK
<1>8. last'.op = "rm" /\ last'.by = c /\ last'.to = to /\ last'.ok = ok
  BY <1>1
<1>9. OnlyNamedStep
  BY <1>1, <1>8 DEF OnlyNamedStep
<1>10. SucceedMeansStep
  <2> SUFFICES ASSUME ok
               PROVE  /\ to \notin files'
                      /\ to \in dirs' => \E p \in dirs' \cup files' : p # to /\ IsPrefix(to, p)
    BY <1>8 DEF SucceedMeansStep
  <2>1. to \notin files'
    BY <1>1
  <2>2. ASSUME to \in dirs' PROVE \E p \in dirs' \cup files' : p # to /\ IsPrefix(to, p)
    <3>1. ~empty /\ dirs' = dirs /\ files' = files \ {to}
      BY <1>1, <2>2
    <3> QED
      BY <3>1
  <2> QED
    BY <2>1, <2>2
<1>11. RootGoneStep
  BY <1>3, <1>5, <1>8 DEF RootGoneStep, Inv, Rootless
<1> QED
  BY <1>7, <1>9, <1>10, <1>11 DEF Right

LEMMA UploadRight ==
    ASSUME Inv, NEW c \in Connection, NEW req \in Request, Upload(c, req)
    PROVE  Right
<1> DEFINE to == GetPath(req, path[c])
           ok == /\ to # FAIL /\ to \notin dirs
                 /\ to # <<>> => Front(to) \in dirs /\ Len(to) <= MaxPath
<1>1. /\ files' = IF ok THEN files \cup {to} ELSE files
      /\ last' = [op |-> "upload", by |-> c, to |-> to, ok |-> ok]
      /\ path' = path /\ dirs' = dirs
  BY DEF Upload, Did
<1>2. ok => /\ to \in Seq(Name) /\ to \notin dirs /\ Len(to) <= MaxPath
            /\ to # <<>> => Front(to) \in dirs
  <2>1. to \in Place /\ MaxPath \in Nat
    BY To, Constants
  <2> HIDE DEF to
  <2> QED
    BY <2>1, Root DEF Place
<1> HIDE DEF to, ok
<1>3. Inv'
  <2>1. dirs' \cup files' \subseteq Seq(Name) /\ dirs' \cap files' = {}
    BY <1>1, <1>2 DEF Inv, TypeOK
  <2>2. \A p \in (dirs' \cup files') \ {<<>>} : Front(p) \in dirs'
    BY <1>1, <1>2 DEF Inv, TypeOK
  <2>3. \A p \in dirs' \cup files' : Len(p) <= MaxPath
    BY <1>1, <1>2 DEF Inv, TypeOK
  <2>4. Rootless'
    BY <1>1, <1>2 DEF Inv, Rootless
  <2> QED
    BY <1>1, <2>1, <2>2, <2>3, <2>4 DEF Inv, TypeOK
<1>4. last'.op = "upload" /\ last'.by = c /\ last'.to = to /\ last'.ok = ok
  BY <1>1
<1>5. OnlyNamedStep
  BY <1>1, <1>4 DEF OnlyNamedStep
<1>6. SucceedMeansStep
  BY <1>1, <1>4 DEF SucceedMeansStep
<1>7. RootGoneStep
  BY <1>1, <1>3 DEF RootGoneStep, Inv, Rootless
<1> QED
  BY <1>3, <1>5, <1>6, <1>7 DEF Right

LEMMA DownloadRight ==
    ASSUME Inv, NEW c \in Connection, NEW req \in Request, Download(c, req)
    PROVE  Right
<1> DEFINE to == GetPath(req, path[c])
<1>1. /\ path' = path /\ dirs' = dirs /\ files' = files
      /\ last' = [op |-> "download", by |-> c, to |-> to, ok |-> to \in dirs \cup files]
  BY DEF Download, Did
<1>2. Inv'
  BY <1>1 DEF Inv, TypeOK, Rootless
<1>3. OnlyNamedStep /\ SucceedMeansStep /\ RootGoneStep
  BY <1>1 DEF OnlyNamedStep, SucceedMeansStep, RootGoneStep, Inv, Rootless
<1> QED
  BY <1>2, <1>3 DEF Right

(* The name of ls, "./", leads to where the client is. *)
LEMMA LsRight ==
    ASSUME Inv, NEW c \in Connection, Ls(c)
    PROVE  Right
<1> DEFINE here == path[c]
           req == <<".", "">>
           parts == <<".">>
<1>1. here \in Seq(Name)
  BY DEF Inv, TypeOK
<1>2. Parts(req) = parts /\ Start(req, here) = here
  <2> DEFINE S == {".", ""}
  <2>1. /\ req \in Seq(S) /\ Len(req) = 2 /\ req # <<>> /\ req[1] = "." /\ req[2] = ""
        /\ Head(req) = "."
    OBVIOUS
  <2>2. parts \in Seq(S) /\ Len(parts) = 1 /\ parts[1] = "." /\ parts # <<>>
    OBVIOUS
  <2> HIDE DEF req, parts, S
  <2>3. /\ Front(req) \in Seq(S) /\ Len(Front(req)) = 1
        /\ \A i \in 1 .. 1 : Front(req)[i] = req[i]
    <3>1. /\ Front(req) \in Seq(S) /\ Len(Front(req)) = Len(req) - 1
          /\ \A i \in 1 .. Len(req) - 1 : Front(req)[i] = req[i]
      BY <2>1, FrontFacts, Zenon
    <3>2. Len(req) - 1 = 1
      <4>1. Len(req) = 2
        BY <2>1, Zenon
      <4> QED
        BY <4>1
    <3> QED
      BY <3>1, <3>2
  <2> DEFINE q == Front(req)
  <2>4. q \in Seq(S) /\ Len(q) = Len(parts) /\ \A i \in 1 .. Len(q) : q[i] = parts[i]
    <3>1. q \in Seq(S) /\ Len(q) = 1 /\ q[1] = req[1]
      BY <2>3
    <3> HIDE DEF q
    <3>2. \A i \in 1 .. 1 : i = 1
      OBVIOUS
    <3> QED
      BY <2>1, <2>2, <3>1, <3>2
  <2>5. q = parts
    <3> HIDE DEF q
    <3> QED
      BY <2>2, <2>4, SeqEqual
  <2>6. ~Absolute(req) /\ Last(req) = ""
    BY <2>1 DEF Absolute, Last
  <2> QED
    BY <2>5, <2>6 DEF Parts, Start
<1>3. GetPath(req, here) = here
  <2>1. "." \in Part /\ here # FAIL
    BY <1>1, Constants DEF Part
  <2>2. parts \in Seq(Part) /\ Len(parts) = 1 /\ parts[1] = "." /\ parts # <<>>
    BY <2>1
  <2> HIDE DEF parts, here
  <2>3. PICK w \in [0 .. 1 -> Place] :
              /\ w[0] = here
              /\ \A i \in 1 .. 1 : w[i] = Enter(w[i - 1], parts[i])
              /\ Walked(parts, here) = w[1]
    BY <1>1, <2>2, Walk
  <2>4. w[1] = Enter(w[0], ".")
    BY <2>2, <2>3
  <2>5. w[1] = here
    BY <2>1, <2>3, <2>4 DEF Enter
  <2> HIDE DEF req
  <2> QED
    BY <1>2, <2>2, <2>3, <2>5 DEF GetPath
<1>4. /\ path' = path /\ dirs' = dirs /\ files' = files
      /\ last' = [op |-> "ls", by |-> c, to |-> here, ok |-> here \in dirs]
  BY <1>3 DEF Ls, Did
<1> HIDE DEF here
<1>5. Inv'
  BY <1>4 DEF Inv, TypeOK, Rootless
<1>6. OnlyNamedStep /\ SucceedMeansStep /\ RootGoneStep
  BY <1>4 DEF OnlyNamedStep, SucceedMeansStep, RootGoneStep, Inv, Rootless
<1> QED
  BY <1>5, <1>6 DEF Right

LEMMA Step ==
    ASSUME Inv, [Next]_vars
    PROVE  /\ Inv'
           /\ [OnlyNamedStep]_vars /\ [SucceedMeansStep]_vars /\ [RootGoneStep]_vars
<1>1. ASSUME Next PROVE Right
  <2> SUFFICES ASSUME NEW c \in Connection,
                      \/ \E req \in Request :
                            \/ ChangeDirectory(c, req) \/ CreateDirectory(c, req)
                            \/ RemoveDirectory(c, req) \/ RemoveFile(c, req)
                            \/ Upload(c, req) \/ Download(c, req)
                      \/ Ls(c)
               PROVE  Right
    BY <1>1 DEF Next
  <2> QED
    BY ChangeDirectoryRight, CreateDirectoryRight, RemoveDirectoryRight, RemoveFileRight,
       UploadRight, DownloadRight, LsRight
<1>2. CASE UNCHANGED vars
  BY <1>2 DEF vars, Inv, TypeOK, Rootless
<1> QED
  BY <1>1, <1>2 DEF Right

LEMMA InvAlways == Spec => []Inv
<1>1. Inv /\ [Next]_vars => Inv'
  BY Step
<1> QED
  BY <1>1, InitInv, PTL DEF Spec

-----------------------------------------------------------------------------

(* Files and directories make a tree under the root, and a current         *)
(* directory is made of plain names.                                       *)
THEOREM TypeCorrect == Spec => []TypeOK
<1>1. Inv => TypeOK
  BY DEF Inv
<1> QED
  BY <1>1, InvAlways, PTL

(* get_path gives what a name means, for names of any length in            *)
(* directories of any depth.                                               *)
THEOREM GetPathResolvesAlways == Spec => []GetPathResolves
<1>1. Inv => GetPathResolves
  BY To, Resolves DEF GetPathResolves
<1> QED
  BY <1>1, InvAlways, PTL

(* A request touches nothing but what its name leads to.                   *)
THEOREM OnlyNamedAlways == Spec => OnlyNamed
<1>1. Inv /\ [Next]_vars => [OnlyNamedStep]_vars
  BY Step
<1> QED
  BY <1>1, InvAlways, PTL DEF Spec, OnlyNamed

(* STATUS_SUCCEED means that it is done, with one exemption: rm answers    *)
(* with it for a directory that is not empty, which it leaves as it is, as *)
(* the result of remove is not looked at (connection_core.cpp:169).        *)
THEOREM SucceedMeansAlways == Spec => SucceedMeans
<1>1. Inv /\ [Next]_vars => [SucceedMeansStep]_vars
  BY Step
<1> QED
  BY <1>1, InvAlways, PTL DEF Spec, SucceedMeans

(* Once the root has been removed no directory is made again.              *)
THEOREM RootGoneAlways == Spec => RootGone
<1>1. Inv /\ [Next]_vars => [RootGoneStep]_vars
  BY Step
<1> QED
  BY <1>1, InvAlways, PTL DEF Spec, RootGone

-----------------------------------------------------------------------------
(* The listing.  What has been listed is behind the stream's position, and *)
(* what is behind it and was not listed has been missed: nothing where     *)
(* entries are numbered one by one, elsewhere one for each full block.     *)

Missed == {e \in stayed : Shown(e) /\ listed[e] = 0 /\ place[e] < position}
Full == IF done THEN blocks - 1 ELSE blocks

ListingInv ==
    /\ ListingTypeOK
    /\ ListedOnce
    /\ \A e \in DOMAIN place : listed[e] > 0 => place[e] < position
    /\ dense => OneByOne(place) /\ Missed = {}
    /\ Full \in Nat /\ Cardinality(Missed) <= Full /\ Full <= Cardinality(Listed)
    /\ done => position = EndOfDir

LEMMA SumOfOne ==
    ASSUME NEW e \in Entry
    PROVE  Characters({e}) = Length(e)
<1> DEFINE S == {e}
           Pick(s) == CHOOSE x \in s : TRUE
           Sum(iter) == [s \in SUBSET S |-> IF s = {} THEN 0
                                            ELSE Length(Pick(s)) + iter[s \ {Pick(s)}]]
           one == [s \in SUBSET S |-> IF s = {} THEN 0 ELSE Length(e)]
           iter == CHOOSE iter : iter = Sum(iter)
<1>1. Length(e) \in Nat
  BY ListingAssumption
<1>2. SUBSET S = {{}, S} /\ S # {} /\ Pick(S) = e /\ S \ {e} = {}
  OBVIOUS
<1>3. one[{}] = 0 /\ one[S] = Length(e)
  BY <1>2
<1>4. one = Sum(one)
  <2>1. \A s \in SUBSET S : one[s] = IF s = {} THEN 0 ELSE Length(Pick(s)) + one[s \ {Pick(s)}]
    BY <1>1, <1>2, <1>3
  <2>2. one = [s \in SUBSET S |-> one[s]]
    OBVIOUS
  <2> QED
    BY <2>1, <2>2
<1>5. iter = Sum(iter)
  <2> HIDE DEF one
  <2> QED
    BY <1>4
<1>6. iter[S] = Length(Pick(S)) + iter[{}] /\ iter[{}] = 0
  <2> HIDE DEF iter
  <2>1. S \in SUBSET S /\ {} \in SUBSET S
    OBVIOUS
  <2>2. iter[S] = Sum(iter)[S] /\ iter[{}] = Sum(iter)[{}]
    BY <1>5
  <2> QED
    BY <1>2, <2>1, <2>2
<1>7. iter[S] = Length(e)
  <2> HIDE DEF iter
  <2> QED
    BY <1>1, <1>2, <1>6
<1> QED
  BY <1>7 DEF Characters, MapThenSumSet, MapThenFoldSet

(* The first of some entries.                                              *)
LEMMA FirstFacts ==
    ASSUME ListingTypeOK, NEW S \in SUBSET DOMAIN place, S # {}
    PROVE  /\ FirstOf(S) \in S
           /\ \A d \in S : place[FirstOf(S)] <= place[d]
<1>1. \A e \in S : place[e] \in Nat
  BY ListingAssumption DEF ListingTypeOK, Position
<1>2. {place[e] : e \in S} \in SUBSET Nat /\ {place[e] : e \in S} # {}
  BY <1>1
<1>3. PICK n \in {place[e] : e \in S} : \A m \in {place[e] : e \in S} : n <= m
  BY <1>2, LeastNumber
<1>4. \E e \in S : \A d \in S : place[e] <= place[d]
  BY <1>3
<1> QED
  BY <1>4 DEF FirstOf

LEMMA PlaceFacts ==
    ASSUME ListingTypeOK
    PROVE  /\ MaxPosition \in Nat /\ position \in Nat
           /\ \A e \in DOMAIN place : place[e] \in 1 .. MaxPosition /\ place[e] \in Nat
           /\ Ahead \subseteq DOMAIN place /\ TooLong \subseteq Ahead
           /\ IsFiniteSet(DOMAIN place) /\ Cardinality(DOMAIN place) \in Nat
<1>1. IsFiniteSet(DOMAIN place)
  BY ListingAssumption, FS_Subset DEF ListingTypeOK
<1> QED
  BY <1>1, ListingAssumption, FS_CardinalityType DEF ListingTypeOK, Position, EndOfDir, Ahead, TooLong

(* A block holds something unless nothing is left: the first entry fits.   *)
LEMMA BlockFacts ==
    ASSUME ListingTypeOK
    PROVE  /\ Block \subseteq Ahead
           /\ Block = {} => Ahead = {}
<1>1. Block \subseteq Ahead
  BY DEF Block
<1>2. ASSUME Ahead # {} PROVE Block # {}
  <2> DEFINE e == FirstOf(Ahead)
             f == FirstOf(TooLong)
  <2>1. e \in Ahead /\ \A d \in Ahead : place[e] <= place[d]
    BY <1>2, PlaceFacts, FirstFacts
  <2> HIDE DEF e
  <2>2. \A d \in Ahead : place[d] <= place[e] => d = e
    BY <2>1, PlaceFacts DEF ListingTypeOK
  <2>3. {d \in Ahead : place[d] <= place[e]} = {e}
    BY <2>1, <2>2, PlaceFacts
  <2>4. Characters({e}) \in 1 .. Capacity
    BY <2>1, SumOfOne, PlaceFacts, ListingAssumption DEF ListingTypeOK
  <2>5. e \notin TooLong
    BY <2>3, <2>4, ListingAssumption DEF TooLong
  <2>6. CASE TooLong = {}
    BY <1>2, <2>6 DEF Block
  <2>7. CASE TooLong # {}
    <3>1. f \in TooLong
      BY <2>7, PlaceFacts, FirstFacts
    <3>2. f \in Ahead /\ f # e
      BY <2>5, <3>1, PlaceFacts
    <3>3. place[e] < place[f]
      BY <2>1, <2>2, <3>2, PlaceFacts
    <3> QED
      BY <2>1, <2>7, <3>3 DEF Block
  <2> QED
    BY <2>6, <2>7
<1> QED
  BY <1>1, <1>2

(* Where entries are numbered one by one, the one behind an entry has the  *)
(* next number.                                                            *)
LEMMA NextTaken ==
    ASSUME ListingTypeOK, OneByOne(place), NEW p \in Nat, p >= 1, p <= Cardinality(DOMAIN place)
    PROVE  \E e \in DOMAIN place : place[e] = p
<1> DEFINE S == DOMAIN place
           n == Cardinality(S)
<1>1. IsFiniteSet(S) /\ n \in Nat
  BY PlaceFacts
<1>2. IsFiniteSet(1 .. n) /\ Cardinality(1 .. n) = n
  BY <1>1, FS_Interval
<1>3. place \in [S -> 1 .. n]
  BY <1>1, PlaceFacts DEF ListingTypeOK, OneByOne
<1>4. place \in Injection(S, 1 .. n)
  BY <1>3 DEF ListingTypeOK, Injection, IsInjective
<1>5. place \in Surjection(S, 1 .. n)
  BY <1>1, <1>2, <1>4, FS_Injection
<1>6. p \in 1 .. n
  BY <1>1
<1> QED
  BY <1>5, <1>6 DEF Surjection

(* seekdir skips at most the entry that did not fit.                       *)
LEMMA SeekFacts ==
    ASSUME ListingTypeOK, NEW f \in DOMAIN place
    PROVE  /\ Seek(f) \in place[f] .. MaxPosition
           /\ \A e \in DOMAIN place : place[e] > place[f] => place[e] > Seek(f)
           /\ dense /\ OneByOne(place) => Seek(f) = place[f]
<1> DEFINE Later == {p \in {place[d] : d \in DOMAIN place} : p > place[f]}
           m == Min(Later)
<1>1. place[f] \in 1 .. MaxPosition /\ MaxPosition \in Nat
  BY PlaceFacts
<1>2. \A e \in DOMAIN place : place[e] \in Nat /\ (place[e] > place[f] <=> place[e] \in Later)
  BY PlaceFacts
<1>3. CASE Later # {}
  <2>1. m \in Later /\ \A p \in Later : m <= p
    <3>1. Later \in SUBSET Nat
      BY PlaceFacts
    <3>2. \E n \in Later : \A p \in Later : n <= p
      <4> HIDE DEF Later
      <4> QED
        BY <1>3, <3>1, LeastNumber
    <3> QED
      BY <3>2 DEF Min
  <2>2. Seek(f) = m - 1
    BY <1>3 DEF Seek, After
  <2> HIDE DEF m
  <2>3. m \in 1 .. MaxPosition /\ m > place[f]
    BY <2>1, PlaceFacts
  <2>4. \A e \in DOMAIN place : place[e] > place[f] => place[e] > m - 1
    BY <1>2, <2>1, <2>3
  <2>5. ASSUME OneByOne(place) PROVE m - 1 = place[f]
    <3>1. PICK d \in DOMAIN place : place[d] = m
      BY <2>1
    <3>2. m <= Cardinality(DOMAIN place) /\ Cardinality(DOMAIN place) \in Nat
      BY <2>5, <3>1, PlaceFacts DEF OneByOne
    <3>3. place[f] + 1 \in Nat /\ place[f] + 1 >= 1 /\ place[f] + 1 <= Cardinality(DOMAIN place)
      BY <1>1, <2>3, <3>2
    <3>4. PICK e \in DOMAIN place : place[e] = place[f] + 1
      BY <2>5, <3>3, NextTaken
    <3>5. place[f] + 1 \in Later
      BY <1>1, <1>2, <3>4
    <3>6. m <= place[f] + 1
      <4> HIDE DEF Later
      <4> QED
        BY <2>1, <3>5
    <3> QED
      BY <1>1, <2>3, <3>6
  <2>6. m - 1 \in place[f] .. MaxPosition
    BY <1>1, <2>3
  <2> QED
    BY <2>2, <2>4, <2>5, <2>6
<1>4. CASE Later = {}
  <2>1. Seek(f) = (IF dense THEN place[f] + 1 ELSE MaxPosition + 1) - 1
    BY <1>4 DEF Seek, After, EndOfDir
  <2>2. \A e \in DOMAIN place : ~(place[e] > place[f])
    BY <1>2, <1>4
  <2>3. dense => Seek(f) = place[f]
    BY <1>1, <2>1
  <2>4. ~dense => Seek(f) = MaxPosition
    BY <1>1, <2>1
  <2> QED
    BY <1>1, <2>2, <2>3, <2>4
<1> QED
  BY <1>3, <1>4

LEMMA SetsFinite ==
    ASSUME ListingTypeOK
    PROVE  /\ IsFiniteSet(Missed) /\ Cardinality(Missed) \in Nat
           /\ IsFiniteSet(Listed) /\ Cardinality(Listed) \in Nat
<1>1. Missed \subseteq Entry /\ Listed \subseteq Entry
  BY DEF Missed, Listed, ListingTypeOK
<1> QED
  BY <1>1, ListingAssumption, FS_Subset, FS_CardinalityType

LEMMA ListingInitInv == ListingInit => ListingInv
<1> SUFFICES ASSUME ListingInit PROVE ListingInv
  OBVIOUS
<1>1. PICK there \in SUBSET Entry :
         /\ place \in {f \in [there -> Position] : \A d, e \in there : f[d] = f[e] => d = e}
         /\ stayed = there
  BY DEF ListingInit
<1>2. DOMAIN place = there
  BY <1>1
<1>3. ListingTypeOK
  <2>1. dense \in BOOLEAN
    BY DEF ListingInit, OneByOne
  <2>2. position \in 1 .. EndOfDir
    BY ListingAssumption DEF ListingInit, EndOfDir
  <2> QED
    BY <1>1, <1>2, <2>1, <2>2 DEF ListingInit, ListingTypeOK
<1>4. Missed = {}
  BY <1>3, PlaceFacts DEF ListingInit, Missed, ListingTypeOK
<1>5. Cardinality(Missed) = 0 /\ Full = 0
  BY <1>4, FS_EmptySet DEF Full, ListingInit
<1>6. Cardinality(Listed) \in Nat
  BY <1>3, SetsFinite
<1> QED
  BY <1>3, <1>4, <1>5, <1>6 DEF ListingInit, ListingInv, ListedOnce

(* What prepareData does to the position: it passes the block and skips at *)
(* most the entry that did not fit, and no entry where there are no gaps.  *)
LEMMA PrepareDataPosition ==
    ASSUME ListingInv, PrepareData
    PROVE  /\ position' \in position .. EndOfDir
           /\ \A e \in Block : place[e] < position'
           /\ \A e \in Ahead \ Block :
                 place[e] < position' => ~dense /\ TooLong # {} /\ e = FirstOf(TooLong)
           /\ Block = {} => position' = EndOfDir
<1> DEFINE f == FirstOf(TooLong)
<1>1. ListingTypeOK /\ (dense => OneByOne(place))
  BY DEF ListingInv
<1>2. position \in 1 .. EndOfDir /\ EndOfDir = MaxPosition + 1 /\ MaxPosition \in Nat
  BY <1>1, PlaceFacts DEF ListingTypeOK, EndOfDir
<1>3. Block \subseteq Ahead /\ Ahead \subseteq DOMAIN place /\ TooLong \subseteq Ahead
  BY <1>1, BlockFacts, PlaceFacts
<1>4. CASE TooLong = {}
  <2>1. position' = EndOfDir /\ Block = Ahead
    BY <1>4 DEF PrepareData, Block
  <2> QED
    BY <1>1, <1>2, <1>3, <2>1, PlaceFacts
<1>5. CASE TooLong # {}
  <2>1. f \in TooLong
    BY <1>1, <1>3, <1>5, FirstFacts
  <2>2. f \in Ahead /\ f \in DOMAIN place
    BY <1>3, <2>1
  <2>3. position' = Seek(f) /\ Block = {e \in Ahead : place[e] < place[f]}
    BY <1>5 DEF PrepareData, Block
  <2>4. Ahead # {} /\ Block # {}
    BY <1>1, <2>2, BlockFacts
  <2> HIDE DEF f
  <2>5. /\ Seek(f) \in place[f] .. MaxPosition
        /\ \A e \in DOMAIN place : place[e] > place[f] => place[e] > Seek(f)
        /\ dense => Seek(f) = place[f]
    BY <1>1, <2>2, SeekFacts
  <2>6. place[f] >= position /\ place[f] \in Nat
    BY <1>1, <2>2, PlaceFacts DEF Ahead
  <2>7. \A e \in Ahead \ Block : place[e] < position' => ~dense /\ e = f
    <3> SUFFICES ASSUME NEW e \in Ahead \ Block, place[e] < position'
                 PROVE  ~dense /\ e = f
      OBVIOUS
    <3>1. e \in DOMAIN place /\ place[e] \in Nat
      BY <1>1, <1>3, PlaceFacts
    <3>2. ~(place[e] < place[f])
      BY <2>3
    <3>3. ~(place[e] > place[f])
      BY <2>3, <2>5, <2>6, <3>1
    <3>4. place[e] = place[f]
      BY <2>6, <3>1, <3>2, <3>3
    <3>5. e = f
      BY <1>1, <2>2, <3>1, <3>4 DEF ListingTypeOK
    <3>6. ~dense
      BY <2>3, <2>5, <2>6, <3>4
    <3> QED
      BY <3>5, <3>6
  <2>8. position' \in position .. EndOfDir
    BY <1>2, <2>3, <2>5, <2>6
  <2>9. \A e \in Block : place[e] < position'
    BY <1>1, <1>3, <2>3, <2>5, <2>6, PlaceFacts
  <2> QED
    BY <1>5, <2>4, <2>7, <2>8, <2>9 DEF f
<1> QED
  BY <1>4, <1>5

LEMMA PrepareDataTypes ==
    ASSUME ListingInv, PrepareData
    PROVE  /\ ListingTypeOK' /\ ListedOnce'
           /\ \A e \in Entry : listed'[e] = IF e \in Block THEN 1 ELSE listed[e]
           /\ \A e \in Block : listed[e] = 0
<1>1. ListingTypeOK
  BY DEF ListingInv
<1>2. Block \subseteq Ahead /\ Ahead \subseteq Entry
  BY <1>1, BlockFacts, PlaceFacts DEF ListingTypeOK
<1>3. \A e \in Ahead : listed[e] = 0
  BY <1>1, <1>2, PlaceFacts DEF ListingInv, ListingTypeOK, Ahead
<1>4. listed' = [e \in Entry |-> listed[e] + IF e \in Block THEN 1 ELSE 0]
  BY DEF PrepareData
<1>5. \A e \in Entry : listed[e] \in Nat
  BY <1>1 DEF ListingTypeOK
<1>6. \A e \in Entry : listed'[e] = IF e \in Block THEN 1 ELSE listed[e]
  BY <1>2, <1>3, <1>4, <1>5
<1>7. listed' \in [Entry -> Nat]
  BY <1>4, <1>5
<1>8. ListedOnce'
  BY <1>6 DEF ListingInv, ListedOnce
<1>9. position' \in 1 .. EndOfDir
  BY <1>1, PrepareDataPosition, PlaceFacts DEF ListingTypeOK, EndOfDir
<1>10. done' \in BOOLEAN /\ blocks' \in Nat
  BY <1>1 DEF PrepareData, ListingTypeOK
<1>11. UNCHANGED <<place, at_root, dense, stayed>>
  BY DEF PrepareData
<1>12. ListingTypeOK'
  BY <1>1, <1>7, <1>9, <1>10, <1>11 DEF ListingTypeOK, Position, EndOfDir
<1> QED
  BY <1>2, <1>3, <1>6, <1>8, <1>12

LEMMA PrepareDataInv ==
    ASSUME ListingInv, PrepareData
    PROVE  ListingInv'
<1> DEFINE f == FirstOf(TooLong)
<1>1. ListingTypeOK /\ ListingTypeOK' /\ ListedOnce'
  BY PrepareDataTypes DEF ListingInv
<1>2. UNCHANGED <<place, at_root, dense, stayed>> /\ ~done /\ blocks' = blocks + 1 /\ (done' <=> Block = {})
  BY DEF PrepareData
<1>3. Block \subseteq Ahead /\ Ahead \subseteq DOMAIN place /\ DOMAIN place \subseteq Entry
  BY <1>1, BlockFacts, PlaceFacts DEF ListingTypeOK
<1>4. stayed \subseteq DOMAIN place /\ stayed \subseteq Entry
  BY <1>1 DEF ListingTypeOK
<1>5. position \in Nat /\ position' \in Nat /\ position <= position'
  BY <1>1, PrepareDataPosition DEF ListingTypeOK
<1>6. \A e \in DOMAIN place : place[e] \in Nat
  BY <1>1, PlaceFacts
<1>7. (\A e \in DOMAIN place : listed[e] > 0 => place[e] < position)'
  <2> SUFFICES ASSUME NEW e \in DOMAIN place, listed'[e] > 0
               PROVE  place[e] < position'
    BY <1>2
  <2>1. CASE e \in Block
    BY <2>1, PrepareDataPosition
  <2>2. CASE e \notin Block
    <3>1. place[e] < position
      BY <1>3, <2>2, PrepareDataTypes DEF ListingInv
    <3> QED
      BY <1>5, <1>6, <3>1
  <2> QED
    BY <2>1, <2>2
<1>8. \A e \in Missed' \ Missed : ~dense /\ TooLong # {} /\ e = f
  <2> SUFFICES ASSUME NEW e \in Missed', e \notin Missed
               PROVE  ~dense /\ TooLong # {} /\ e = f
    OBVIOUS
  <2>1. e \in stayed /\ Shown(e) /\ listed'[e] = 0 /\ place[e] < position'
    BY <1>2 DEF Missed, Shown
  <2>2. e \in Entry /\ e \notin Block /\ listed[e] = 0
    BY <1>4, <2>1, PrepareDataTypes
  <2>3. place[e] >= position
    BY <1>4, <1>5, <1>6, <2>1, <2>2 DEF Missed
  <2>4. e \in Ahead \ Block
    BY <1>4, <2>1, <2>2, <2>3 DEF Ahead
  <2> QED
    BY <2>1, <2>4, PrepareDataPosition
<1>9. (dense => OneByOne(place) /\ Missed = {})'
  BY <1>2, <1>8 DEF ListingInv, OneByOne
<1>10. /\ IsFiniteSet(Missed) /\ Cardinality(Missed) \in Nat
       /\ IsFiniteSet(Missed') /\ Cardinality(Missed') \in Nat
       /\ IsFiniteSet(Listed) /\ Cardinality(Listed) \in Nat
       /\ IsFiniteSet(Listed') /\ Cardinality(Listed') \in Nat
  <2>1. IsFiniteSet(Missed') /\ Cardinality(Missed') \in Nat /\ IsFiniteSet(Listed') /\ Cardinality(Listed') \in Nat
    <3>1. Missed' \subseteq Entry /\ Listed' \subseteq Entry
      BY <1>2, <1>4 DEF Missed, Listed
    <3> QED
      BY <3>1, ListingAssumption, FS_Subset, FS_CardinalityType
  <2> QED
    BY <1>1, <2>1, SetsFinite
<1>11. Full = blocks /\ blocks \in Nat /\ Cardinality(Missed) <= blocks /\ blocks <= Cardinality(Listed)
  BY <1>1, <1>2 DEF Full, ListingInv, ListingTypeOK
<1>12. (Full \in Nat /\ Cardinality(Missed) <= Full /\ Full <= Cardinality(Listed))'
  <2>1. CASE Block = {}
    <3>1. Full' = blocks
      BY <1>2, <1>11, <2>1 DEF Full
    <3>2. TooLong = {}
      BY <1>1, <2>1, BlockFacts, PlaceFacts
    <3>3. Missed' \subseteq Missed
      BY <1>8, <3>2
    <3>4. Cardinality(Missed') <= Cardinality(Missed)
      BY <1>10, <3>3, FS_Subset
    <3>5. Listed' = Listed
      BY <2>1, PrepareDataTypes DEF Listed
    <3> QED
      BY <1>10, <1>11, <3>1, <3>4, <3>5
  <2>2. CASE Block # {}
    <3>1. Full' = blocks + 1
      BY <1>2, <2>2 DEF Full
    <3>2. IsFiniteSet(Missed \cup {f}) /\ Cardinality(Missed \cup {f}) <= Cardinality(Missed) + 1
                                      /\ Cardinality(Missed \cup {f}) \in Nat
      <4> HIDE DEF f
      <4>1. /\ IsFiniteSet(Missed \cup {f})
            /\ Cardinality(Missed \cup {f}) = IF f \in Missed THEN Cardinality(Missed)
                                              ELSE Cardinality(Missed) + 1
        BY <1>10, FS_AddElement
      <4> QED
        BY <1>10, <4>1
    <3>3. Missed' \subseteq Missed \cup {f}
      BY <1>8
    <3>4. Cardinality(Missed') <= Cardinality(Missed \cup {f})
      BY <3>2, <3>3, FS_Subset
    <3>5. Cardinality(Missed') <= blocks + 1
      BY <1>10, <1>11, <3>2, <3>4
    <3>6. PICK b \in Block : TRUE
      BY <2>2
    <3>7. b \notin Listed /\ b \in Listed'
      BY <1>3, <3>6, PrepareDataTypes DEF Listed
    <3>8. Listed \cup {b} \subseteq Listed'
      <4>1. \A e \in Listed : e \in Listed'
        BY <1>3, PrepareDataTypes DEF Listed
      <4> QED
        BY <3>7, <4>1
    <3>9. Cardinality(Listed \cup {b}) = Cardinality(Listed) + 1
      BY <1>10, <3>7, FS_AddElement
    <3>10. Cardinality(Listed \cup {b}) <= Cardinality(Listed')
      BY <1>10, <3>8, FS_Subset
    <3> QED
      BY <1>10, <1>11, <3>1, <3>5, <3>9, <3>10
  <2> QED
    BY <2>1, <2>2
<1>13. (done => position = EndOfDir)'
  BY <1>2, PrepareDataPosition DEF EndOfDir
<1> QED
  BY <1>1, <1>7, <1>9, <1>12, <1>13 DEF ListingInv

(* What another client deletes or creates leaves what was listed and what  *)
(* was missed as they are, but for an entry that does not count any more.  *)
LEMMA CountsKept ==
    ASSUME ListingInv, ListingTypeOK', Missed' \subseteq Missed,
           UNCHANGED <<listed, blocks, done>>
    PROVE  (Full \in Nat /\ Cardinality(Missed) <= Full /\ Full <= Cardinality(Listed))'
<1>1. ListingTypeOK
  BY DEF ListingInv
<1>2. Full' = Full /\ Listed' = Listed
  BY DEF Full, Listed
<1>3. Cardinality(Missed') <= Cardinality(Missed) /\ Cardinality(Missed') \in Nat
  BY <1>1, SetsFinite, FS_Subset, FS_CardinalityType
<1>4. Cardinality(Missed) \in Nat /\ Full \in Nat /\ Cardinality(Missed) <= Full /\ Full <= Cardinality(Listed)
  BY <1>1, SetsFinite DEF ListingInv
<1> QED
  BY <1>2, <1>3, <1>4

LEMMA DeleteInv ==
    ASSUME ListingInv, NEW e \in Entry, Delete(e)
    PROVE  ListingInv'
<1>1. ListingTypeOK
  BY DEF ListingInv
<1>2. DOMAIN place' = DOMAIN place \ {e} /\ \A d \in DOMAIN place \ {e} : place'[d] = place[d]
  BY DEF Delete
<1>3. ListingTypeOK'
  <2>1. place' \in [DOMAIN place' -> Position] /\ DOMAIN place' \subseteq Entry
    BY <1>1 DEF Delete, ListingTypeOK
  <2>2. (\A c, d \in DOMAIN place : place[c] = place[d] => c = d)'
    BY <1>1, <1>2 DEF ListingTypeOK
  <2>3. stayed' \subseteq DOMAIN place'
    BY <1>1, <1>2 DEF Delete, ListingTypeOK
  <2> QED
    BY <1>1, <2>1, <2>2, <2>3 DEF Delete, ListingTypeOK, EndOfDir, Position
<1>4. Missed' \subseteq Missed
  <2> SUFFICES ASSUME NEW d \in Missed' PROVE d \in Missed
    OBVIOUS
  <2>1. d \in stayed /\ d # e /\ d \in DOMAIN place
    BY <1>1 DEF Missed, Delete, ListingTypeOK
  <2> QED
    BY <1>2, <2>1 DEF Missed, Shown, Delete
<1>5. (Full \in Nat /\ Cardinality(Missed) <= Full /\ Full <= Cardinality(Listed))'
  BY <1>3, <1>4, CountsKept DEF Delete
<1> QED
  BY <1>2, <1>3, <1>5 DEF Delete, ListingInv, ListedOnce, EndOfDir

LEMMA CreateInv ==
    ASSUME ListingInv, NEW e \in Entry, NEW p \in Position, Create(e, p)
    PROVE  ListingInv'
<1>1. ListingTypeOK
  BY DEF ListingInv
<1>2. /\ DOMAIN place' = DOMAIN place \cup {e} /\ e \notin DOMAIN place
      /\ place'[e] = p
      /\ \A d \in DOMAIN place : place'[d] = place[d] /\ place[d] # p
  BY DEF Create
<1>3. ListingTypeOK'
  <2>1. place' \in [DOMAIN place' -> Position] /\ DOMAIN place' \subseteq Entry
    BY <1>1 DEF Create, ListingTypeOK
  <2>2. (\A c, d \in DOMAIN place : place[c] = place[d] => c = d)'
    BY <1>1, <1>2 DEF ListingTypeOK
  <2>3. stayed' \subseteq DOMAIN place'
    BY <1>1, <1>2 DEF Create, ListingTypeOK
  <2>4. dense' \in BOOLEAN
    BY <1>1 DEF Create, OneByOne, ListingTypeOK
  <2> QED
    BY <1>1, <2>1, <2>2, <2>3, <2>4 DEF Create, ListingTypeOK, EndOfDir, Position
<1>4. Missed' \subseteq Missed
  <2> SUFFICES ASSUME NEW d \in Missed' PROVE d \in Missed
    OBVIOUS
  <2>1. d \in stayed /\ d \in DOMAIN place
    BY <1>1 DEF Missed, Create, ListingTypeOK
  <2> QED
    BY <1>2, <2>1 DEF Missed, Shown, Create
<1>5. (Full \in Nat /\ Cardinality(Missed) <= Full /\ Full <= Cardinality(Listed))'
  BY <1>3, <1>4, CountsKept DEF Create
<1>6. (dense => OneByOne(place) /\ Missed = {})'
  <2>1. dense' => dense /\ OneByOne(place')
    BY <1>1 DEF Create, ListingTypeOK
  <2> QED
    BY <1>4, <2>1 DEF ListingInv, OneByOne
<1>7. (\A d \in DOMAIN place : listed[d] > 0 => place[d] < position)'
  <2>1. listed[e] = 0
    BY DEF Create
  <2> QED
    BY <1>2, <2>1 DEF Create, ListingInv
<1> QED
  BY <1>3, <1>5, <1>6, <1>7 DEF Create, ListingInv, ListedOnce, EndOfDir

LEMMA ListingStep == ListingInv /\ [ListingNext]_listingVars => ListingInv'
<1> SUFFICES ASSUME ListingInv, [ListingNext]_listingVars PROVE ListingInv'
  OBVIOUS
<1>1. CASE PrepareData
  BY <1>1, PrepareDataInv
<1>2. ASSUME NEW e \in Entry, Delete(e) PROVE ListingInv'
  BY <1>2, DeleteInv
<1>3. ASSUME NEW e \in Entry, NEW p \in Position, Create(e, p) PROVE ListingInv'
  BY <1>3, CreateInv
<1>4. CASE UNCHANGED listingVars
  BY <1>4 DEF listingVars, ListingInv, ListingTypeOK, ListedOnce, OneByOne, Missed, Shown, Full, Listed, EndOfDir, Position
<1> QED
  BY <1>1, <1>2, <1>3, <1>4 DEF ListingNext

LEMMA ListingInvAlways == ListingSpec => []ListingInv
<1> QED
  BY ListingInitInv, ListingStep, PTL DEF ListingSpec

(* Types of Listing: the stream's position stays in the directory or at    *)
(* its end, whatever prepareData, and other clients in between, do.        *)
THEOREM ListingTypeCorrect == ListingSpec => []ListingTypeOK
<1>1. ListingInv => ListingTypeOK
  BY DEF ListingInv
<1> QED
  BY <1>1, ListingInvAlways, PTL

(* No block of a listing repeats an entry, however the file system numbers *)
(* its entries and whatever other clients create and delete meanwhile      *)
(* (prepareData, connection_core.cpp:244).                                 *)
THEOREM ListedOnceAlways == ListingSpec => []ListedOnce
<1>1. ListingInv => ListedOnce
  BY DEF ListingInv
<1> QED
  BY <1>1, ListingInvAlways, PTL

(* At the end of a listing the stream is behind everything.                *)
LEMMA EndMissing ==
    ASSUME ListingInv, done
    PROVE  Missing = Missed
<1>1. \A e \in stayed : place[e] < position
  BY PlaceFacts DEF ListingInv, ListingTypeOK, EndOfDir
<1> QED
  BY <1>1 DEF Missing, Missed

(* Where entries are numbered one by one and nothing is deleted, a listing *)
(* that ended has every entry that was there all the time, for any lengths *)
(* of names and any number of blocks.                                      *)
THEOREM CompleteAlways == ListingSpec => []Complete
<1>1. ListingInv => Complete
  BY EndMissing DEF ListingInv, Complete
<1> QED
  BY <1>1, ListingInvAlways, PTL

(* On any file system a listing that ended misses at most one entry for    *)
(* each block that holds something, and it has at least as many entries    *)
(* as blocks.                                                              *)
THEOREM MissesFewAlways == ListingSpec => []MissesFew
<1>1. ListingInv => MissesFew
  BY EndMissing DEF ListingInv, MissesFew, Full
<1> QED
  BY <1>1, ListingInvAlways, PTL

-----------------------------------------------------------------------------
(* The options.  The name given last is at the beginning of the buffer,    *)
(* and a terminator behind it unless -d wrote it over a name of another    *)
(* length.                                                                 *)

Buffer == [1 .. DIR_SIZE -> Char \cup {NUL}]
Written(d) ==
    /\ d \in Seq(Char) /\ Len(d) \in Nat /\ Len(d) <= DIR_SIZE
    /\ \A i \in 1 .. Len(d) : dir[i] = d[i]
Ended(d) == Len(d) < DIR_SIZE /\ dir[Len(d) + 1] = NUL

OptionsInv ==
    /\ OptionsTypeOK
    /\ Written(named.dir)
    /\ \/ named.by # "-d"
       \/ named.over = Len(named.dir) /\ Len(named.dir) < DIR_SIZE
       => Ended(named.dir)

(* The string in a buffer ends before the first terminator.                *)
LEMMA StringInIs ==
    ASSUME NEW buffer \in Buffer
    PROVE  \E n \in 0 .. DIR_SIZE :
              /\ StringIn(buffer) = [i \in 1 .. n |-> buffer[i]]
              /\ Len(StringIn(buffer)) = n
              /\ \A i \in 1 .. n : buffer[i] # NUL
              /\ n < DIR_SIZE => buffer[n + 1] = NUL
<1> DEFINE ends == Ends(buffer)
<1>1. DIR_SIZE \in Nat /\ DOMAIN buffer = 1 .. DIR_SIZE
  BY OptionsAssumption DEF Buffer
<1>2. buffer = [i \in 1 .. DIR_SIZE |-> buffer[i]]
  BY DEF Buffer
<1>3. buffer \in Seq(Char \cup {NUL}) /\ Len(buffer) = DIR_SIZE
  BY <1>1, SeqDef, LenProperties DEF Buffer
<1>4. CASE ends = {}
  <2>1. StringIn(buffer) = buffer
    BY <1>4 DEF StringIn
  <2>2. \A i \in 1 .. DIR_SIZE : buffer[i] # NUL
    BY <1>1, <1>4 DEF Ends
  <2>3. DIR_SIZE \in 0 .. DIR_SIZE /\ ~(DIR_SIZE < DIR_SIZE)
    BY <1>1
  <2>4. StringIn(buffer) = [i \in 1 .. DIR_SIZE |-> buffer[i]] /\ Len(StringIn(buffer)) = DIR_SIZE
    BY <1>2, <1>3, <2>1
  <2> QED
    BY <2>2, <2>3, <2>4
<1>5. CASE ends # {}
  <2> DEFINE e == CHOOSE i \in ends : \A j \in ends : i <= j
  <2>1. e \in ends /\ \A j \in ends : e <= j
    <3>1. ends \in SUBSET Nat
      BY <1>1 DEF Ends
    <3>2. \E i \in ends : \A j \in ends : i <= j
      <4> HIDE DEF ends
      <4> QED
        BY <1>5, <3>1, LeastNumber
    <3> QED
      BY <3>2
  <2>2. StringIn(buffer) = SubSeq(buffer, 1, e - 1)
    BY <1>5 DEF StringIn
  <2> HIDE DEF e
  <2>3. e \in 1 .. DIR_SIZE /\ buffer[e] = NUL
    BY <1>1, <2>1 DEF Ends
  <2>4. \A i \in 1 .. e - 1 : buffer[i] # NUL
    BY <1>1, <2>1, <2>3 DEF Ends
  <2>5. SubSeq(buffer, 1, e - 1) = [i \in 1 .. e - 1 |-> buffer[i]]
    BY <1>1, <1>3, <2>3
  <2>6. Len(SubSeq(buffer, 1, e - 1)) = e - 1
    BY <1>1, <1>3, <2>3, SubSeqProperties
  <2>7. e - 1 \in 0 .. DIR_SIZE /\ e - 1 + 1 = e
    BY <1>1, <2>3
  <2> QED
    BY <2>2, <2>3, <2>4, <2>5, <2>6, <2>7
<1> QED
  BY <1>4, <1>5

(* What options name is characters.                                        *)
LEMMA NamesType ==
    ASSUME NEW d \in Dir \cup {DefaultDir} \cup {c.dir : c \in Config}
    PROVE  d \in Seq(Char) /\ Len(d) \in Nat /\ DIR_SIZE \in Nat
<1>1. d \in Dir \cup {DefaultDir}
  BY OptionsAssumption
<1> QED
  BY <1>1, OptionsAssumption, LenProperties

LEMMA OptionsInitInv == OptionsInit => OptionsInv
<1> SUFFICES ASSUME OptionsInit PROVE OptionsInv
  OBVIOUS
<1> DEFINE d == DefaultDir
<1>1. d \in Seq(Char) /\ Len(d) \in Nat /\ Len(d) < DIR_SIZE /\ DIR_SIZE \in Nat
  BY NamesType, OptionsAssumption
<1>2. PICK rest \in [1 .. DIR_SIZE -> {NUL} \cup Char] :
         dir = [i \in 1 .. DIR_SIZE |-> IF i <= Len(d) + 1 THEN Terminated(d)[i] ELSE rest[i]]
  BY DEF OptionsInit
<1>3. /\ \A i \in 1 .. Len(d) : Terminated(d)[i] = d[i] /\ d[i] \in Char
      /\ Terminated(d)[Len(d) + 1] = NUL
  <2>1. d \in Seq(Char \cup {NUL}) /\ \A i \in 1 .. Len(d) : d[i] \in Char
    BY <1>1, ElementOfSeq
  <2> QED
    BY <1>1, <2>1, AppendProperties DEF Terminated
<1>4. \A i \in 1 .. DIR_SIZE : i <= Len(d) + 1 => i \in 1 .. Len(d) \/ i = Len(d) + 1
  BY <1>1
<1> HIDE DEF d
<1>5. dir \in Buffer
  BY <1>2, <1>3, <1>4 DEF Buffer
<1>6. \A i \in 1 .. Len(d) : i \in 1 .. DIR_SIZE /\ i <= Len(d) + 1
  BY <1>1
<1>7. Len(d) + 1 \in 1 .. DIR_SIZE /\ Len(d) + 1 <= Len(d) + 1
  BY <1>1
<1>8. Written(d) /\ Ended(d)
  BY <1>1, <1>2, <1>3, <1>6, <1>7 DEF Written, Ended
<1>9. /\ status = "options" /\ port = DefaultPort /\ test_mode = FALSE /\ args = 0
      /\ named = [by |-> "default", dir |-> d, over |-> 0]
  BY DEF OptionsInit, d
<1>10. OptionsTypeOK
  <2>1. named \in [by : {"default", "-c", "-d"}, dir : Dir \cup {DefaultDir}, over : 0 .. DIR_SIZE]
    BY <1>1, <1>9 DEF d
  <2>2. args \in 0 .. MaxArgs
    BY <1>9, OptionsAssumption
  <2> QED
    BY <1>5, <1>9, <2>1, <2>2 DEF OptionsTypeOK, Buffer
<1> QED
  BY <1>8, <1>9, <1>10 DEF OptionsInv

(* What memcpy leaves in the buffer.                                       *)
LEMMA CopyFacts ==
    ASSUME OptionsInv, NEW s \in Seq(Char \cup {NUL}), Len(s) <= DIR_SIZE, dir' = Copy(s)
    PROVE  /\ dir' \in Buffer
           /\ \A i \in 1 .. Len(s) : dir'[i] = s[i]
           /\ \A i \in 1 .. DIR_SIZE : i > Len(s) => dir'[i] = dir[i]
<1>1. Len(s) \in Nat /\ DIR_SIZE \in Nat /\ dir \in Buffer
  BY OptionsAssumption, LenProperties DEF OptionsInv, OptionsTypeOK, Buffer
<1>2. \A i \in 1 .. Len(s) : s[i] \in Char \cup {NUL}
  BY ElementOfSeq
<1>3. dir' = [i \in 1 .. DIR_SIZE |-> IF i <= Len(s) THEN s[i] ELSE dir[i]]
  BY DEF Copy
<1>4. \A i \in 1 .. DIR_SIZE : i <= Len(s) => i \in 1 .. Len(s)
  BY <1>1
<1>5. \A i \in 1 .. Len(s) : i \in 1 .. DIR_SIZE /\ i <= Len(s)
  BY <1>1
<1>6. dir' \in Buffer
  BY <1>1, <1>2, <1>3, <1>4 DEF Buffer
<1>7. \A i \in 1 .. DIR_SIZE : i > Len(s) => ~(i <= Len(s))
  BY <1>1
<1> QED
  BY <1>3, <1>5, <1>6, <1>7

LEMMA NamedType ==
    ASSUME OptionsInv, NEW by \in {"-c", "-d"}, NEW d \in Dir, Named(by, d)
    PROVE  /\ named' \in [by : {"default", "-c", "-d"}, dir : Dir \cup {DefaultDir}, over : 0 .. DIR_SIZE]
           /\ named'.by = by /\ named'.dir = d /\ named'.over = Len(StringIn(dir))
<1>1. Len(StringIn(dir)) \in 0 .. DIR_SIZE
  BY StringInIs DEF OptionsInv, OptionsTypeOK, Buffer
<1>2. named' = [by |-> by, dir |-> d, over |-> Len(StringIn(dir))]
  BY DEF Named
<1> QED
  BY <1>1, <1>2

(* A name that is too long leaves nothing to be said of the buffer, which  *)
(* is not used any more.                                                   *)
LEMMA OverrunInv ==
    ASSUME OptionsInv, NEW characters, Overrun(characters)
    PROVE  OptionsInv'
<1>1. /\ status' = "overrun" /\ UNCHANGED <<dir, port, test_mode, named>>
      /\ args < MaxArgs /\ args' = args + 1
  BY DEF Overrun, More
<1>2. args' \in 0 .. MaxArgs
  BY <1>1, OptionsAssumption DEF OptionsInv, OptionsTypeOK
<1>3. OptionsTypeOK'
  BY <1>1, <1>2 DEF OptionsInv, OptionsTypeOK
<1> QED
  BY <1>1, <1>3 DEF OptionsInv, Written, Ended

LEMMA LoadConfigInv ==
    ASSUME OptionsInv, NEW c \in Config, LoadConfig(c)
    PROVE  OptionsInv'
<1> DEFINE d == c.dir
           s == Terminated(d)
<1>1. /\ d \in Dir /\ d \in Seq(Char) /\ Len(d) \in Nat
      /\ c.port \in Port \cup {BAD} /\ DIR_SIZE \in Nat
  BY NamesType, OptionsAssumption
<1>2. /\ s \in Seq(Char \cup {NUL}) /\ Len(s) = Len(d) + 1
      /\ \A i \in 1 .. Len(d) : s[i] = d[i]
      /\ s[Len(d) + 1] = NUL
  <2>1. d \in Seq(Char \cup {NUL}) /\ NUL \in Char \cup {NUL}
    BY <1>1
  <2> HIDE DEF d
  <2> QED
    BY <1>1, <2>1, AppendProperties DEF Terminated
<1>3. \/ Overrun(s)
      \/ /\ Write(s, "-c", d) /\ More /\ test_mode' = test_mode
         /\ IF c.port = BAD THEN status' = "failed" /\ UNCHANGED port
                            ELSE port' = c.port /\ UNCHANGED status
  BY DEF LoadConfig
<1> HIDE DEF d, s
<1>4. CASE Overrun(s)
  BY <1>4, OverrunInv
<1>5. CASE /\ Write(s, "-c", d) /\ More /\ test_mode' = test_mode
           /\ IF c.port = BAD THEN status' = "failed" /\ UNCHANGED port
                              ELSE port' = c.port /\ UNCHANGED status
  <2>1. dir' = Copy(s) /\ Named("-c", d) /\ Len(s) <= DIR_SIZE
    BY <1>5 DEF Write
  <2>2. /\ dir' \in Buffer
        /\ \A i \in 1 .. Len(s) : dir'[i] = s[i]
    BY <1>2, <2>1, CopyFacts
  <2>3. /\ named' \in [by : {"default", "-c", "-d"}, dir : Dir \cup {DefaultDir}, over : 0 .. DIR_SIZE]
        /\ named'.dir = d
    BY <1>1, <2>1, NamedType
  <2>4. \A i \in 1 .. Len(d) : i \in 1 .. Len(s)
    BY <1>1, <1>2
  <2>5. Len(d) + 1 \in 1 .. Len(s) /\ Len(d) < DIR_SIZE /\ Len(d) <= DIR_SIZE
    BY <1>1, <1>2, <2>1
  <2>6. Written(d)' /\ Ended(d)'
    BY <1>1, <1>2, <2>2, <2>4, <2>5 DEF Written, Ended
  <2>7. port' \in Port \cup {DefaultPort} /\ status' \in {"options", "failed"}
    BY <1>1, <1>5 DEF More, OptionsInv, OptionsTypeOK
  <2>8. args' \in 0 .. MaxArgs
    BY <1>5, OptionsAssumption DEF More, OptionsInv, OptionsTypeOK
  <2>9. OptionsTypeOK'
    BY <1>5, <2>2, <2>3, <2>7, <2>8 DEF OptionsInv, OptionsTypeOK, Buffer
  <2> QED
    BY <2>3, <2>6, <2>9 DEF OptionsInv, Written, Ended
<1> QED
  BY <1>3, <1>4, <1>5

(* -d over a name of the same length keeps its terminator.                 *)
LEMMA SetDirInv ==
    ASSUME OptionsInv, NEW d \in Dir, SetDir(d)
    PROVE  OptionsInv'
<1>1. d \in Seq(Char) /\ Len(d) \in Nat /\ DIR_SIZE \in Nat
  BY NamesType
<1>2. CASE Overrun(d)
  BY <1>2, OverrunInv
<1>3. CASE ~Overrun(d)
  <2>1. /\ dir' = Copy(d) /\ Named("-d", d) /\ More /\ Len(d) <= DIR_SIZE
        /\ UNCHANGED <<status, port, test_mode>>
    BY <1>3 DEF SetDir, Write
  <2>2. /\ dir' \in Buffer
        /\ \A i \in 1 .. Len(d) : dir'[i] = d[i]
        /\ \A i \in 1 .. DIR_SIZE : i > Len(d) => dir'[i] = dir[i]
    <3>1. d \in Seq(Char \cup {NUL})
      BY <1>1
    <3> QED
      BY <2>1, <3>1, CopyFacts
  <2>3. /\ named' \in [by : {"default", "-c", "-d"}, dir : Dir \cup {DefaultDir}, over : 0 .. DIR_SIZE]
        /\ named'.by = "-d" /\ named'.dir = d /\ named'.over = Len(StringIn(dir))
    BY <2>1, NamedType
  <2>4. Written(d)'
    BY <1>1, <2>1, <2>2 DEF Written
  <2>5. ASSUME named'.over = Len(d), Len(d) < DIR_SIZE PROVE Ended(d)'
    <3>1. PICK n \in 0 .. DIR_SIZE : /\ Len(StringIn(dir)) = n
                                     /\ n < DIR_SIZE => dir[n + 1] = NUL
      BY StringInIs DEF OptionsInv, OptionsTypeOK, Buffer
    <3>2. dir[Len(d) + 1] = NUL
      BY <2>3, <2>5, <3>1
    <3>3. Len(d) + 1 \in 1 .. DIR_SIZE /\ Len(d) + 1 > Len(d)
      BY <1>1, <2>5
    <3> QED
      BY <2>2, <2>5, <3>2, <3>3 DEF Ended
  <2>6. args' \in 0 .. MaxArgs
    BY <2>1, OptionsAssumption DEF More, OptionsInv, OptionsTypeOK
  <2>7. OptionsTypeOK'
    BY <2>1, <2>2, <2>3, <2>6 DEF OptionsInv, OptionsTypeOK, Buffer
  <2> QED
    BY <2>3, <2>4, <2>5, <2>7 DEF OptionsInv, Written, Ended
<1> QED
  BY <1>2, <1>3

LEMMA OptionsStep == OptionsInv /\ [OptionsNext]_optionsVars => OptionsInv'
<1> SUFFICES ASSUME OptionsInv, [OptionsNext]_optionsVars PROVE OptionsInv'
  OBVIOUS
<1>1. ASSUME NEW c \in Config, LoadConfig(c) PROVE OptionsInv'
  BY <1>1, LoadConfigInv
<1>2. ASSUME NEW d \in Dir, SetDir(d) PROVE OptionsInv'
  BY <1>2, SetDirInv
<1>3. ASSUME UNCHANGED <<dir, named>>, OptionsTypeOK' PROVE OptionsInv'
  BY <1>3 DEF OptionsInv, Written, Ended
<1>4. ASSUME NEW p \in Port \cup {BAD}, SetPort(p) PROVE OptionsInv'
  <2>1. args' \in 0 .. MaxArgs
    BY <1>4, OptionsAssumption DEF SetPort, More, OptionsInv, OptionsTypeOK
  <2>2. OptionsTypeOK' /\ UNCHANGED <<dir, named>>
    BY <1>4, <2>1 DEF SetPort, More, OptionsInv, OptionsTypeOK
  <2> QED
    BY <1>3, <2>2
<1>5. CASE TestMode \/ GiveUp
  <2>1. args' \in 0 .. MaxArgs
    BY <1>5, OptionsAssumption DEF TestMode, GiveUp, More, OptionsInv, OptionsTypeOK
  <2>2. OptionsTypeOK' /\ UNCHANGED <<dir, named>>
    BY <1>5, <2>1 DEF TestMode, GiveUp, More, OptionsInv, OptionsTypeOK
  <2> QED
    BY <1>3, <2>2
<1>6. CASE Run
  <2>1. OptionsTypeOK' /\ UNCHANGED <<dir, named>>
    BY <1>6 DEF Run, OptionsInv, OptionsTypeOK
  <2> QED
    BY <1>3, <2>1
<1>7. CASE UNCHANGED optionsVars
  <2>1. OptionsTypeOK' /\ UNCHANGED <<dir, named>>
    BY <1>7 DEF optionsVars, OptionsInv, OptionsTypeOK
  <2> QED
    BY <1>3, <2>1
<1> QED
  BY <1>1, <1>2, <1>4, <1>5, <1>6, <1>7 DEF OptionsNext

LEMMA OptionsInvAlways == OptionsSpec => []OptionsInv
  BY OptionsInitInv, OptionsStep, PTL DEF OptionsSpec

(* What the string in the buffer is, by what was written to it.            *)
LEMMA StringWritten ==
    ASSUME dir \in Buffer, NEW d, Written(d)
    PROVE  /\ IsPrefix(d, StringIn(dir))
           /\ Ended(d) => Ends(dir) # {} /\ StringIn(dir) = d
<1>1. PICK n \in 0 .. DIR_SIZE :
         /\ StringIn(dir) = [i \in 1 .. n |-> dir[i]]
         /\ Len(StringIn(dir)) = n
         /\ \A i \in 1 .. n : dir[i] # NUL
         /\ n < DIR_SIZE => dir[n + 1] = NUL
  BY StringInIs
<1>2. DIR_SIZE \in Nat /\ NUL \notin Char
  BY OptionsAssumption
<1>3. d \in Seq(Char) /\ Len(d) \in Nat /\ Len(d) <= DIR_SIZE
      /\ \A i \in 1 .. Len(d) : dir[i] = d[i]
  BY DEF Written
<1>4. \A i \in 1 .. Len(d) : d[i] \in Char
  BY <1>3, ElementOfSeq
<1>5. Len(d) <= n
  <2> SUFFICES ASSUME n < Len(d) PROVE FALSE
    BY <1>2, <1>3
  <2>1. n + 1 \in 1 .. Len(d) /\ n < DIR_SIZE
    BY <1>2, <1>3
  <2> QED
    BY <1>1, <1>2, <1>3, <1>4, <2>1
<1>6. \A i \in 1 .. Len(d) : i \in 1 .. n
  BY <1>3, <1>5
<1>7. d = [i \in 1 .. Len(d) |-> d[i]]
  BY <1>3, LenProperties
<1>8. SubSeq(StringIn(dir), 1, Len(d)) = d
  <2>1. SubSeq(StringIn(dir), 1, Len(d)) = [i \in 1 .. Len(d) |-> StringIn(dir)[i]]
    <3>1. StringIn(dir) \in Seq(Char \cup {NUL})
      <4>1. \A i \in 1 .. n : dir[i] \in Char \cup {NUL}
        BY <1>2 DEF Buffer
      <4>2. StringIn(dir) \in [1 .. n -> Char \cup {NUL}]
        BY <1>1, <4>1
      <4> QED
        BY <4>2, SeqDef
    <3> QED
      BY <1>1, <1>3, <1>5, <3>1
  <2>2. \A i \in 1 .. Len(d) : StringIn(dir)[i] = d[i]
    BY <1>1, <1>3, <1>6
  <2> QED
    BY <1>7, <2>1, <2>2
<1>9. IsPrefix(d, StringIn(dir))
  BY <1>1, <1>3, <1>5, <1>8 DEF IsPrefix
<1>10. ASSUME Ended(d) PROVE Ends(dir) # {} /\ StringIn(dir) = d
  <2>0. Len(d) + 1 \in DOMAIN dir /\ dir[Len(d) + 1] = NUL
    BY <1>2, <1>3, <1>10 DEF Ended, Buffer
  <2>1. n <= Len(d)
    <3> SUFFICES ASSUME Len(d) < n PROVE FALSE
      BY <1>2, <1>3
    <3>1. Len(d) + 1 \in 1 .. n
      BY <1>3
    <3> QED
      BY <1>1, <1>10, <3>1 DEF Ended
  <2>2. n = Len(d)
    BY <1>3, <1>5, <2>1
  <2>3. StringIn(dir) = d
    BY <1>1, <1>3, <1>7, <2>2
  <2> QED
    BY <2>0, <2>3 DEF Ends
<1> QED
  BY <1>9, <1>10

(* The directory main goes on to use begins with the name that was given   *)
(* last, and is that name unless -d wrote it over one of another length or *)
(* without room for its end; after a name that is longer than the buffer   *)
(* nothing is claimed.                                                     *)
THEOREM SavesToFittingAlways == OptionsSpec => []SavesToFitting
<1>1. OptionsInv => SavesToFitting
  <2> SUFFICES ASSUME OptionsInv PROVE SavesToFitting
    OBVIOUS
  <2>1. /\ IsPrefix(named.dir, StringIn(dir))
        /\ Ended(named.dir) => Ends(dir) # {} /\ StringIn(dir) = named.dir
    BY StringWritten DEF OptionsInv, OptionsTypeOK, Buffer
  <2> QED
    BY <2>1 DEF SavesToFitting, OptionsInv
<1> QED
  BY <1>1, OptionsInvAlways, PTL

=============================================================================
