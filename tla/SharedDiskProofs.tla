-------------------------- MODULE SharedDiskProofs --------------------------
(***************************************************************************)
(* Proofs about SharedDisk, for any number of connections, names, files    *)
(* and descriptors: which descriptors are lost, and that a transfer nobody *)
(* disturbs is faithful.                                                   *)
(***************************************************************************)
EXTENDS SharedDisk, FiniteSetTheorems, SequenceTheorems, TLAPS

-----------------------------------------------------------------------------
(* The inductive invariant. *)

Block == Connection \cup {HOLE}
Up == {c \in Connection : line[c] = "up"}
Busy == {c \in Connection : Working(c)}

(* A core that has something open has a file open, under a name.           *)
WorkOK == \A c \in Connection : Working(c) =>
             line[c] # "new" /\ work[c].fd \in File /\ work[c].name \in Name

(* Nobody else writes the file of an undisturbed transfer. *)
Unshared(c) == \A d \in Connection \ {c} :
                  line[d] = "up" /\ Uses(d, work[c].fd) => work[d].mode # "up"

(* An undisturbed upload has its name still, and the file what was sent so *)
(* far.                                                                    *)
Uploading(c) ==
    /\ file[work[c].name] = work[c].fd
    /\ content[work[c].fd] = [i \in 1 .. work[c].at |-> c]

(* The file of an undisturbed download is what it was, and the client has  *)
(* the beginning of it.                                                    *)
Downloading(c) ==
    /\ goal[c] = content[work[c].fd]
    /\ Len(got[c]) = work[c].at /\ work[c].at <= Len(goal[c])
    /\ \A i \in 1 .. work[c].at : got[c][i] = goal[c][i]

Alone(c) ==
    /\ line[c] = "up" /\ Working(c)
    /\ Unshared(c)
    /\ work[c].mode = "up" => Uploading(c)
    /\ work[c].mode = "down" => Downloading(c)

AloneOK == \A c \in Connection : alone[c] => Alone(c)

Inv == TypeOK /\ WorkOK /\ AloneOK /\ OnlyLeaversLeak

-----------------------------------------------------------------------------
(* Sequences that are given by their length and elements. *)

LEMMA SequenceOf ==
    ASSUME NEW S, NEW n \in Nat, NEW f, f = [i \in 1 .. n |-> f[i]],
           \A i \in 1 .. n : f[i] \in S
    PROVE  f \in Seq(S) /\ Len(f) = n
<1>1. f \in [1 .. n -> S]
  OBVIOUS
<1> QED
  BY <1>1, SeqDef, LenProperties

LEMMA Elements ==
    ASSUME NEW S, NEW s \in Seq(S)
    PROVE  /\ Len(s) \in Nat /\ DOMAIN s = 1 .. Len(s)
           /\ \A i \in 1 .. Len(s) : s[i] \in S
           /\ s = [i \in 1 .. Len(s) |-> s[i]]
  BY LenProperties, ElementOfSeq

(* Two sequences with the same elements. *)
LEMMA SameElements ==
    ASSUME NEW S, NEW s \in Seq(S), NEW t \in Seq(S), Len(s) = Len(t),
           \A i \in 1 .. Len(s) : s[i] = t[i]
    PROVE  s = t
  BY SeqEqual

-----------------------------------------------------------------------------
(* Descriptors. *)

(* What becomes of one connection counts for one. *)
LEMMA CountUp ==
    ASSUME TypeOK
    PROVE  /\ IsFiniteSet(Up) /\ Cardinality(Up) \in Nat
           /\ \A c \in Up : Cardinality(Up \ {c}) = Cardinality(Up) - 1
           /\ \A c \in Connection \ Up : Cardinality(Up \cup {c}) = Cardinality(Up) + 1
<1>1. IsFiniteSet(Up)
  <2>1. Up \in SUBSET Connection
    BY DEF Up
  <2> QED
    BY <2>1, SharedDiskAssumption, FS_Subset
<1> QED
  BY <1>1, FS_CardinalityType, FS_AddElement, FS_RemoveElement

LEMMA CountBusy ==
    ASSUME TypeOK
    PROVE  /\ IsFiniteSet(Busy) /\ Cardinality(Busy) \in Nat
           /\ \A c \in Busy : Cardinality(Busy \ {c}) = Cardinality(Busy) - 1
           /\ \A c \in Connection \ Busy :
                 Cardinality(Busy \cup {c}) = Cardinality(Busy) + 1
<1>1. IsFiniteSet(Busy)
  <2>1. Busy \in SUBSET Connection
    BY DEF Busy
  <2> QED
    BY <2>1, SharedDiskAssumption, FS_Subset
<1> QED
  BY <1>1, FS_CardinalityType, FS_AddElement, FS_RemoveElement

(* The three things that may become of the descriptors in a step.          *)
Taken(c) ==
    free > 0 /\ free' = free - 1
    /\ \/ c \in Connection \ Up /\ Up' = Up \cup {c} /\ Busy' = Busy
       \/ c \in Connection \ Busy /\ Busy' = Busy \cup {c} /\ Up' = Up
Given(c) ==
    free' = free + 1
    /\ \/ c \in Up /\ Up' = Up \ {c} /\ Busy' = Busy
       \/ c \in Busy /\ Busy' = Busy \ {c} /\ Up' = Up

LEMMA LeakStep ==
    ASSUME Inv,
           \/ free' = free /\ Up' = Up /\ Busy' = Busy
           \/ \E c \in Connection : Taken(c) \/ Given(c)
    PROVE  OnlyLeaversLeak' /\ free' \in 0 .. MaxDescriptors
<1> DEFINE up == Cardinality(Up)
           busy == Cardinality(Busy)
<1>1. /\ MaxDescriptors - free = up + busy
      /\ free \in 0 .. MaxDescriptors /\ up \in Nat /\ busy \in Nat
  BY CountUp, CountBusy DEF Inv, TypeOK, OnlyLeaversLeak, Up, Busy
<1>2. \/ free' = free /\ up' = up /\ busy' = busy
      \/ free > 0 /\ free' = free - 1 /\ up' + busy' = up + busy + 1
      \/ free' = free + 1 /\ up' + busy' = up + busy - 1 /\ up' \in Nat /\ busy' \in Nat
  <2>1. CASE free' = free /\ Up' = Up /\ Busy' = Busy
    BY <2>1
  <2>2. ASSUME NEW c \in Connection, Taken(c)
        PROVE  free > 0 /\ free' = free - 1 /\ up' + busy' = up + busy + 1
    BY <1>1, <2>2, CountUp, CountBusy DEF Inv, Taken
  <2>3. ASSUME NEW c \in Connection, Given(c)
        PROVE  /\ free' = free + 1 /\ up' + busy' = up + busy - 1
               /\ up' \in Nat /\ busy' \in Nat
    <3>1. \A S : IsFiniteSet(S) => Cardinality(S \ {c}) \in Nat
      BY FS_RemoveElement, FS_CardinalityType
    <3> QED
      BY <1>1, <2>3, <3>1, CountUp, CountBusy DEF Inv, Given
  <2> QED
    BY <2>1, <2>2, <2>3
<1>3. MaxDescriptors - free' = up' + busy' /\ free' \in 0 .. MaxDescriptors
  BY <1>1, <1>2, SharedDiskAssumption
<1> QED
  BY <1>3 DEF OnlyLeaversLeak, Up, Busy

-----------------------------------------------------------------------------
(* The steps.  What a step of c has to leave as it is for another          *)
(* connection to stay undisturbed.                                         *)

StepOf(c) == \A d \in Connection \ {c} :
                UNCHANGED <<line[d], work[d]>>

LEMMA Others ==
    ASSUME Inv, NEW c \in Connection, NEW d \in Connection \ {c}, alone[d], StepOf(c),
           UNCHANGED <<got[d], goal[d], content[work[d].fd]>>,
           work[d].mode = "up" => UNCHANGED file[work[d].name],
           line'[c] = "up" /\ work'[c].mode = "up" => work'[c].fd # work[d].fd
    PROVE  Alone(d)'
<1>1. Alone(d)
  BY DEF Inv, AloneOK
<1>2. UNCHANGED <<line[d], work[d]>>
  BY DEF StepOf
<1>3. Unshared(d)'
  <2> SUFFICES ASSUME NEW e \in Connection \ {d}, line'[e] = "up", Uses(e, work[d].fd)'
               PROVE  work'[e].mode # "up"
    BY <1>2 DEF Unshared
  <2>1. CASE e = c
    BY <1>2, <2>1 DEF Uses
  <2>2. CASE e # c
    BY <1>1, <2>2 DEF Alone, Unshared, StepOf, Uses, Working
  <2> QED
    BY <2>1, <2>2
<1> QED
  BY <1>1, <1>2, <1>3 DEF Alone, Working, Uploading, Downloading


LEMMA ConnectInv ==
    ASSUME Inv, NEW c \in Connection, Connect(c)
    PROVE  Inv'
<1>1. Taken(c)
  BY DEF Inv, TypeOK, Connect, Taken, Up, Busy, Working
<1>2. OnlyLeaversLeak' /\ free' \in 0 .. MaxDescriptors
  BY <1>1, LeakStep
<1>3. TypeOK'
  BY <1>2 DEF Inv, TypeOK, Connect
<1>4. WorkOK'
  BY DEF Inv, TypeOK, WorkOK, Connect, Working
<1>5. AloneOK'
  <2>1. StepOf(c) /\ ~Working(c)
    BY DEF Inv, TypeOK, WorkOK, Connect, StepOf
  <2>2. ~alone[c]
    BY <2>1 DEF Inv, AloneOK, Alone
  <2>3. ASSUME NEW d \in Connection \ {c}, alone[d] PROVE Alone(d)'
    BY <2>1, <2>3, Others DEF Connect, Working
  <2> QED
    BY <2>2, <2>3 DEF Connect, AloneOK
<1> QED
  BY <1>2, <1>3, <1>4, <1>5 DEF Inv

(* A step after which c does not work any more, or is not alone.           *)
LEMMA LeavesOthers ==
    ASSUME Inv, NEW c \in Connection, StepOf(c), Forget(c), UNCHANGED <<file, content>>,
           line'[c] = "up" => work'[c].mode # "up"
    PROVE  AloneOK'
<1>1. ~alone'[c]
  BY DEF Forget, Inv, TypeOK
<1>2. ASSUME NEW d \in Connection \ {c}, alone'[d] PROVE Alone(d)'
  <2>1. alone[d] /\ UNCHANGED <<got[d], goal[d]>>
    BY <1>2 DEF Forget, Inv, TypeOK
  <2> QED
    BY <2>1, Others DEF StepOf
<1> QED
  BY <1>1, <1>2 DEF AloneOK

LEMMA CloseConnectionInv ==
    ASSUME Inv, NEW c \in Connection, CloseConnection(c)
    PROVE  Inv'
<1>1. Given(c)
  BY DEF Inv, TypeOK, CloseConnection, Given, Up, Busy, Working
<1>2. OnlyLeaversLeak' /\ free' \in 0 .. MaxDescriptors
  BY <1>1, LeakStep
<1>3. TypeOK'
  BY <1>2 DEF Inv, TypeOK, CloseConnection, Forget
<1>4. WorkOK'
  BY DEF Inv, TypeOK, WorkOK, CloseConnection, Working
<1>5. AloneOK'
  <2>1. StepOf(c) /\ line'[c] = "closed"
    BY DEF Inv, TypeOK, CloseConnection, StepOf
  <2> QED
    BY <2>1, LeavesOthers DEF CloseConnection
<1> QED
  BY <1>2, <1>3, <1>4, <1>5 DEF Inv

LEMMA UnsetInv ==
    ASSUME Inv, NEW c \in Connection, line[c] = "up", Working(c),
           NEW how \in {"none", "downloaded", "uploaded"}, Unset(c, how),
           UNCHANGED <<file, content, line>>
    PROVE  Inv'
<1>1. Given(c)
  BY DEF Inv, TypeOK, Unset, Given, Up, Busy, Working, Ready
<1>2. OnlyLeaversLeak' /\ free' \in 0 .. MaxDescriptors
  BY <1>1, LeakStep
<1>3. TypeOK'
  BY <1>2, SharedDiskAssumption DEF Inv, TypeOK, Unset, Forget, Ready
<1>4. WorkOK'
  BY DEF Inv, TypeOK, WorkOK, Unset, Working, Ready
<1>5. AloneOK'
  <2>1. StepOf(c) /\ work'[c].mode = "ready"
    BY DEF Inv, TypeOK, Unset, Ready, StepOf
  <2> QED
    BY <2>1, LeavesOthers DEF Unset
<1> QED
  BY <1>2, <1>3, <1>4, <1>5 DEF Inv

(* A position that has moved. *)
LEMMA Moved ==
    ASSUME TypeOK, NEW c \in Connection, NEW k \in 0 .. MaxBlocks
    PROVE  [work EXCEPT ![c].at = k] \in
              [Connection -> [mode : {"ready", "up", "down"}, name : Name \cup {NONE},
                              fd : File \cup {NONE}, at : 0 .. MaxBlocks]]
<1> DEFINE R == [mode : {"ready", "up", "down"}, name : Name \cup {NONE},
                 fd : File \cup {NONE}, at : 0 .. MaxBlocks]
<1>1. work \in [Connection -> R] /\ work[c] \in R
  BY DEF TypeOK
<1>2. [work[c] EXCEPT !.at = k] \in R
  BY <1>1
<1> HIDE DEF R
<1>3. [work EXCEPT ![c] = [work[c] EXCEPT !.at = k]] \in [Connection -> R]
  BY <1>1, <1>2
<1> QED
  BY <1>3 DEF R

(* What a block written makes of the file. *)
LEMMA Written ==
    ASSUME Inv, NEW c \in Connection, Write(c)
    PROVE  LET f == work[c].fd
               at == work[c].at
           IN  /\ f \in File /\ at \in 0 .. MaxBlocks - 1 /\ Working(c)
               /\ \A g \in File \ {f} : content'[g] = content[g]
               /\ content' \in [File -> Seq(Block)]
               /\ \A g \in File : Len(content'[g]) <= MaxBlocks
               /\ content[f] = [i \in 1 .. at |-> c] =>
                     content'[f] = [i \in 1 .. at + 1 |-> c]
<1> DEFINE f == work[c].fd
           at == work[c].at
           old == content[f]
           m == IF at < Len(old) THEN Len(old) ELSE at + 1
           new == [i \in 1 .. m |->
                      IF i = at + 1 THEN c ELSE IF i \in DOMAIN old THEN old[i] ELSE HOLE]
<1>1. Working(c)
  BY DEF Write, Working
<1>2. f \in File /\ at \in 0 .. MaxBlocks - 1
  BY <1>1, SharedDiskAssumption DEF Inv, TypeOK, WorkOK, Write
<1>3. /\ content \in [File -> Seq(Block)]
      /\ \A g \in File : Len(content[g]) <= MaxBlocks
  BY DEF Inv, TypeOK, Block
<1>4. old \in Seq(Block) /\ Len(old) \in 0 .. MaxBlocks
  BY <1>2, <1>3, Elements, SharedDiskAssumption
<1>5. m \in Nat /\ m <= MaxBlocks
  BY <1>2, <1>4, SharedDiskAssumption
<1>6. \A i \in 1 .. m : new[i] \in Block
  BY <1>4, Elements DEF Block
<1>7. new \in Seq(Block) /\ Len(new) = m
  <2> HIDE DEF m
  <2>1. new = [i \in 1 .. m |-> new[i]]
    OBVIOUS
  <2> HIDE DEF new
  <2> QED
    BY <1>5, <1>6, <2>1, SequenceOf
<1>8. content' = [content EXCEPT ![f] = new]
  BY DEF Write
<1>9. old = [i \in 1 .. at |-> c] => new = [i \in 1 .. at + 1 |-> c]
  <2> SUFFICES ASSUME old = [i \in 1 .. at |-> c]
               PROVE  new = [i \in 1 .. at + 1 |-> c]
    OBVIOUS
  <2>1. Len(old) = at
    BY <1>2, <1>4, Elements
  <2>2. m = at + 1
    BY <1>2, <2>1
  <2> QED
    BY <1>2, <2>2
<1> HIDE DEF new, m
<1> QED
  BY <1>1, <1>2, <1>3, <1>5, <1>7, <1>8, <1>9

LEMMA WriteInv ==
    ASSUME Inv, NEW c \in Connection, Write(c)
    PROVE  Inv'
<1> DEFINE f == work[c].fd
           at == work[c].at
<1>1. /\ work' = [work EXCEPT ![c].at = at + 1] /\ work[c].mode = "up" /\ line[c] = "up"
      /\ UNCHANGED <<file, line, got, goal, alone, result, free>>
  BY DEF Write
<1>2. free' = free /\ Up' = Up /\ Busy' = Busy
  BY <1>1 DEF Inv, TypeOK, Up, Busy, Working
<1>3. OnlyLeaversLeak' /\ free' \in 0 .. MaxDescriptors
  BY <1>2, LeakStep
<1>4. TypeOK'
  <2>1. at + 1 \in 0 .. MaxBlocks
    <3>1. at \in 0 .. MaxBlocks /\ at < MaxBlocks
      BY DEF Write, Inv, TypeOK
    <3> QED
      BY <3>1, SharedDiskAssumption
  <2> QED
    BY <1>1, <2>1, Written, Moved DEF Inv, TypeOK, Block
<1>5. WorkOK'
  BY <1>1 DEF Inv, TypeOK, WorkOK, Working
<1>6. AloneOK'
  <2>1. StepOf(c)
    BY <1>1 DEF Inv, TypeOK, StepOf
  <2>2. ASSUME alone[c] PROVE Alone(c)'
    <3>1. Alone(c) /\ Working(c) /\ f \in File
      BY <2>2, Written DEF Inv, AloneOK
    <3>2. /\ work'[c].fd = f /\ work'[c].name = work[c].name
          /\ work'[c].mode = "up" /\ work'[c].at = at + 1
      BY <1>1 DEF Inv, TypeOK
    <3>3. Unshared(c)'
      BY <1>1, <2>1, <3>1, <3>2 DEF Alone, Unshared, StepOf, Uses, Working
    <3>4. Uploading(c)'
      BY <1>1, <3>1, <3>2, Written DEF Alone, Uploading
    <3> QED
      BY <1>1, <3>2, <3>3, <3>4 DEF Alone, Working
  <2>3. ASSUME NEW d \in Connection \ {c}, alone[d] PROVE Alone(d)'
    <3>1. work[d].fd # f /\ work[d].fd \in File
      BY <1>1, <2>3, Written DEF Inv, AloneOK, Alone, Unshared, Uses, WorkOK
    <3>2. work'[c].fd = f
      BY <1>1 DEF Inv, TypeOK
    <3>3. content'[work[d].fd] = content[work[d].fd] /\ work'[d] = work[d]
      BY <2>1, <3>1, Written DEF StepOf
    <3> QED
      BY <1>1, <2>1, <2>3, <3>1, <3>2, <3>3, Others
  <2> QED
    BY <1>1, <2>2, <2>3 DEF AloneOK
<1> QED
  BY <1>3, <1>4, <1>5, <1>6 DEF Inv

(* A download that goes on has another block of its file.                  *)
LEMMA ReadInv ==
    ASSUME Inv, NEW c \in Connection, Read(c)
    PROVE  Inv'
<1> DEFINE f == work[c].fd
           at == work[c].at
<1>1. line[c] = "up" /\ work[c].mode = "down" /\ UNCHANGED <<file, content, line>>
  BY DEF Read, ReadOf
<1>2. Working(c) /\ f \in File /\ f # NONE /\ at \in 0 .. MaxBlocks
  BY <1>1, SharedDiskAssumption DEF Inv, TypeOK, WorkOK, Working
<1>3. content[f] \in Seq(Block) /\ Len(content[f]) \in Nat /\ Len(content[f]) <= MaxBlocks
  BY <1>2, Elements DEF Inv, TypeOK, Block
<1>4. CASE at >= Len(content[f])
  <2>1. Unset(c, "downloaded")
    BY <1>2, <1>3, <1>4 DEF Read, ReadOf
  <2> QED
    BY <1>1, <1>2, <2>1, UnsetInv
<1>5. CASE at < Len(content[f])
  <2> DEFINE b == content[f][at + 1]
  <2>1. /\ got' = [got EXCEPT ![c] = Append(got[c], b)]
        /\ work' = [work EXCEPT ![c].at = at + 1]
        /\ UNCHANGED <<result, free, goal, alone>>
    BY <1>2, <1>5 DEF Read, ReadOf
  <2>2. at + 1 \in 1 .. Len(content[f]) /\ b \in Block
    BY <1>2, <1>3, <1>5, Elements
  <2>3. got[c] \in Seq(Block) /\ got \in [Connection -> Seq(Block)]
    BY DEF Inv, TypeOK, Block
  <2>4. /\ Append(got[c], b) \in Seq(Block)
        /\ Len(got[c]) \in Nat /\ Len(Append(got[c], b)) = Len(got[c]) + 1
        /\ \A i \in 1 .. Len(got[c]) : Append(got[c], b)[i] = got[c][i]
        /\ Append(got[c], b)[Len(got[c]) + 1] = b
    BY <2>2, <2>3, AppendProperties, LenProperties
  <2>5. free' = free /\ Up' = Up /\ Busy' = Busy
    BY <1>1, <2>1 DEF Inv, TypeOK, Up, Busy, Working
  <2>6. OnlyLeaversLeak' /\ free' \in 0 .. MaxDescriptors
    BY <2>5, LeakStep
  <2>7. TypeOK'
    <3>0. at + 1 \in 0 .. MaxBlocks
      BY <1>2, <1>3, <1>5, SharedDiskAssumption
    <3>1. work' \in [Connection -> [mode : {"ready", "up", "down"}, name : Name \cup {NONE},
                                    fd : File \cup {NONE}, at : 0 .. MaxBlocks]]
      BY <2>1, <3>0, Moved DEF Inv
    <3>2. got' \in [Connection -> Seq(Block)]
      BY <2>1, <2>3, <2>4
    <3> QED
      BY <1>1, <2>1, <3>1, <3>2 DEF Inv, TypeOK, Block
  <2>8. WorkOK'
    BY <1>1, <2>1 DEF Inv, TypeOK, WorkOK, Working
  <2>9. AloneOK'
    <3>1. StepOf(c)
      BY <1>1, <2>1 DEF Inv, TypeOK, StepOf
    <3>2. /\ work'[c].fd = f /\ work'[c].mode = "down" /\ work'[c].at = at + 1
          /\ got'[c] = Append(got[c], b)
      BY <1>1, <2>1 DEF Inv, TypeOK
    <3>3. ASSUME alone[c] PROVE Alone(c)'
      <4>1. Alone(c)
        BY <3>3 DEF Inv, AloneOK
      <4>2. Unshared(c)'
        BY <1>1, <3>1, <3>2, <4>1 DEF Alone, Unshared, StepOf, Uses, Working
      <4>3. Downloading(c)'
        <5>1. goal[c] = content[f] /\ Len(got[c]) = at
          BY <1>1, <4>1 DEF Alone, Downloading
        <5>2. \A i \in 1 .. at : got[c][i] = goal[c][i]
          BY <1>1, <4>1 DEF Alone, Downloading
        <5>3. \A i \in 1 .. at + 1 : Append(got[c], b)[i] = goal[c][i]
          BY <1>2, <2>4, <5>1, <5>2
        <5>4. goal'[c] = content'[f] /\ got'[c] = Append(got[c], b)
          BY <1>1, <2>1, <3>2, <5>1
        <5>5. Len(got[c]) \in Nat /\ Len(Append(got[c], b)) = at + 1
          BY <2>2, <2>4, <5>1
        <5>6. goal'[c] = goal[c] /\ at + 1 <= Len(goal[c])
          BY <1>3, <2>1, <2>2, <5>1
        <5> HIDE DEF b
        <5>7. \A i \in 1 .. at + 1 : got'[c][i] = goal'[c][i]
          BY <5>3, <5>4, <5>6
        <5>8. Len(got'[c]) = at + 1 /\ at + 1 <= Len(goal'[c])
          BY <5>4, <5>5, <5>6
        <5> QED
          BY <3>2, <5>4, <5>7, <5>8, Zenon DEF Downloading
      <4> QED
        BY <1>1, <3>2, <4>2, <4>3 DEF Alone, Working
    <3>4. ASSUME NEW d \in Connection \ {c}, alone[d] PROVE Alone(d)'
      <4>1. got'[d] = got[d]
        BY <2>1 DEF Inv, TypeOK
      <4> QED
        BY <1>1, <2>1, <3>1, <3>2, <3>4, <4>1, Others
    <3> QED
      BY <2>1, <3>3, <3>4 DEF AloneOK
  <2> QED
    BY <2>6, <2>7, <2>8, <2>9 DEF Inv
<1> QED
  BY <1>2, <1>3, <1>4, <1>5

LEMMA EndUploadInv ==
    ASSUME Inv, NEW c \in Connection, EndUpload(c)
    PROVE  Inv'
  BY UnsetInv DEF EndUpload, Working

LEMMA CallOffInv ==
    ASSUME Inv, NEW c \in Connection, CallOff(c)
    PROVE  Inv'
  BY UnsetInv DEF CallOff

(* What is common to both ways to begin: c has a file open that nobody     *)
(* writes, or is not alone.                                                *)
LEMMA BeginsAlone ==
    ASSUME Inv, NEW c \in Connection, NEW f \in File, StepOf(c), Idle(c),
           ~Writing(f), work'[c].fd = f
    PROVE  Unshared(c)'
  BY DEF Unshared, Writing, StepOf, Uses, Working

LEMMA OpenUploadInv ==
    ASSUME Inv, NEW c \in Connection, NEW n \in Name, OpenUpload(c, n)
    PROVE  Inv'
<1>1. PICK f \in Opened(n) :
         /\ work' = [work EXCEPT ![c] = [mode |-> "up", name |-> n, fd |-> f, at |-> 0]]
         /\ file' = [file EXCEPT ![n] = f]
         /\ content' = [content EXCEPT ![f] = <<>>]
         /\ alone' = [Disturb(f, c) EXCEPT ![c] = ~Writing(f)]
  BY DEF OpenUpload
<1>2. /\ Idle(c) /\ free > 0 /\ free' = free - 1
      /\ result' = [result EXCEPT ![c] = "none"] /\ UNCHANGED <<line, got, goal>>
  BY DEF OpenUpload
<1>3. f \in File /\ (file[n] = f \/ (file[n] = NONE /\ \A m \in Name : file[m] # f))
  BY DEF Inv, TypeOK, Opened
<1>4. /\ work'[c] = [mode |-> "up", name |-> n, fd |-> f, at |-> 0]
      /\ file'[n] = f /\ \A m \in Name \ {n} : file'[m] = file[m]
      /\ content'[f] = <<>> /\ \A g \in File \ {f} : content'[g] = content[g]
  BY <1>1, <1>3 DEF Inv, TypeOK
<1>5. StepOf(c)
  BY <1>1, <1>2 DEF Inv, TypeOK, StepOf
<1>6. OnlyLeaversLeak' /\ free' \in 0 .. MaxDescriptors
  <2>1. Taken(c)
    BY <1>1, <1>2 DEF Inv, TypeOK, Taken, Up, Busy, Idle, Working
  <2> QED
    BY <2>1, LeakStep
<1>7. TypeOK'
  <2>1. content' \in [File -> Seq(Block)] /\ \A g \in File : Len(content'[g]) <= MaxBlocks
    BY <1>1, <1>3, <1>4, EmptySeq, SharedDiskAssumption DEF Inv, TypeOK, Block
  <2>2. work' \in [Connection -> [mode : {"ready", "up", "down"}, name : Name \cup {NONE},
                                  fd : File \cup {NONE}, at : 0 .. MaxBlocks]]
    BY <1>1, <1>3, SharedDiskAssumption DEF Inv, TypeOK
  <2>3. \A k, m \in Name : file'[k] = file'[m] /\ file'[k] # NONE => k = m
    <3>1. \A m \in Name \ {n} : file[m] # f
      BY <1>3, SharedDiskAssumption DEF Inv, TypeOK
    <3>2. \A k, m \in Name \ {n} : file[k] = file[m] /\ file[k] # NONE => k = m
      BY DEF Inv, TypeOK
    <3> QED
      BY <1>4, <3>1, <3>2
  <2>4. alone' \in [Connection -> BOOLEAN]
    BY <1>1 DEF Inv, TypeOK, Disturb
  <2> QED
    BY <1>1, <1>2, <1>3, <1>6, <2>1, <2>2, <2>3, <2>4 DEF Inv, TypeOK, Block
<1>8. WorkOK'
  BY <1>2, <1>3, <1>4, <1>5 DEF Inv, WorkOK, StepOf, Idle, Working
<1>9. AloneOK'
  <2>1. ASSUME alone'[c] PROVE Alone(c)'
    <3>1. ~Writing(f)
      BY <1>1, <2>1 DEF Disturb
    <3>2. Unshared(c)'
      BY <1>2, <1>3, <1>4, <1>5, <3>1, BeginsAlone
    <3>3. Uploading(c)'
      <4>1. <<>> = [i \in 1 .. 0 |-> c]
        OBVIOUS
      <4> QED
        BY <1>4, <4>1 DEF Uploading
    <3> QED
      BY <1>2, <1>4, <3>2, <3>3 DEF Alone, Idle, Working
  <2>2. ASSUME NEW d \in Connection \ {c}, alone'[d] PROVE Alone(d)'
    <3>1. alone[d] /\ ~Uses(d, f)
      BY <1>1, <2>2 DEF Disturb
    <3>2. Alone(d) /\ Working(d) /\ work[d].fd \in File \ {f} /\ work[d].name \in Name
      BY <3>1 DEF Inv, AloneOK, Alone, WorkOK, Uses
    <3>3. work'[d] = work[d]
      BY <1>5 DEF StepOf
    <3>4. work[d].mode = "up" => work[d].name # n
      BY <1>3, <3>2, SharedDiskAssumption DEF Alone, Uploading
    <3> QED
      BY <1>2, <1>4, <1>5, <3>1, <3>2, <3>3, <3>4, Others
  <2> QED
    BY <2>1, <2>2 DEF AloneOK
<1> QED
  BY <1>6, <1>7, <1>8, <1>9 DEF Inv

LEMMA OpenDownloadInv ==
    ASSUME Inv, NEW c \in Connection, NEW n \in Name, OpenDownload(c, n)
    PROVE  Inv'
<1> DEFINE f == file[n]
<1>1. /\ work' = [work EXCEPT ![c] = [mode |-> "down", name |-> n, fd |-> f, at |-> 0]]
      /\ got' = [got EXCEPT ![c] = <<>>] /\ goal' = [goal EXCEPT ![c] = content[f]]
      /\ alone' = [alone EXCEPT ![c] = ~Writing(f)]
      /\ result' = [result EXCEPT ![c] = "none"]
      /\ Idle(c) /\ free > 0 /\ free' = free - 1 /\ UNCHANGED <<file, content, line>>
  BY DEF OpenDownload
<1>2. f \in File
  BY DEF OpenDownload, Inv, TypeOK
<1>3. /\ work'[c] = [mode |-> "down", name |-> n, fd |-> f, at |-> 0]
      /\ got'[c] = <<>> /\ goal'[c] = content[f] /\ alone'[c] = ~Writing(f)
      /\ \A d \in Connection \ {c} : UNCHANGED <<got[d], goal[d], alone[d]>>
  BY <1>1 DEF Inv, TypeOK
<1>4. StepOf(c)
  BY <1>1 DEF Inv, TypeOK, StepOf
<1>5. OnlyLeaversLeak' /\ free' \in 0 .. MaxDescriptors
  <2>1. Taken(c)
    BY <1>1 DEF Inv, TypeOK, Taken, Up, Busy, Idle, Working
  <2> QED
    BY <2>1, LeakStep
<1>6. TypeOK'
  <2>1. work' \in [Connection -> [mode : {"ready", "up", "down"}, name : Name \cup {NONE},
                                  fd : File \cup {NONE}, at : 0 .. MaxBlocks]]
    BY <1>1, <1>2, SharedDiskAssumption DEF Inv, TypeOK
  <2>2. got' \in [Connection -> Seq(Block)] /\ goal' \in [Connection -> Seq(Block)]
    BY <1>1, <1>2, EmptySeq DEF Inv, TypeOK, Block
  <2>3. alone' \in [Connection -> BOOLEAN]
    BY <1>1 DEF Inv, TypeOK
  <2> QED
    BY <1>1, <1>5, <2>1, <2>2, <2>3 DEF Inv, TypeOK, Block
<1>7. WorkOK'
  BY <1>1, <1>2, <1>3, <1>4 DEF Inv, WorkOK, StepOf, Idle, Working
<1>8. AloneOK'
  <2>1. ASSUME alone'[c] PROVE Alone(c)'
    <3>1. Unshared(c)'
      <4>1. ~Writing(f)
        BY <1>3, <2>1, Zenon
      <4>2. work'[c].fd = f /\ Idle(c)
        BY <1>1, <1>3
      <4> HIDE DEF f
      <4> QED
        BY <1>2, <1>4, <4>1, <4>2, BeginsAlone
    <3>2. Downloading(c)'
      BY <1>1, <1>2, <1>3, EmptySeq, Elements DEF Inv, TypeOK, Downloading
    <3> QED
      BY <1>1, <1>3, <3>1, <3>2 DEF Alone, Idle, Working
  <2>2. ASSUME NEW d \in Connection \ {c}, alone'[d] PROVE Alone(d)'
    <3>1. work'[d] = work[d]
      BY <1>4 DEF StepOf
    <3> QED
      BY <1>1, <1>3, <1>4, <2>2, <3>1, Others
  <2> QED
    BY <2>1, <2>2 DEF AloneOK
<1> QED
  BY <1>5, <1>6, <1>7, <1>8 DEF Inv

LEMMA RemoveFileInv ==
    ASSUME Inv, NEW c \in Connection, NEW n \in Name, RemoveFile(c, n)
    PROVE  Inv'
<1>1. /\ file' = [file EXCEPT ![n] = NONE]
      /\ alone' = [d \in Connection |->
                      alone[d] /\ ~(work[d].name = n /\ work[d].mode = "up")]
      /\ Idle(c) /\ UNCHANGED <<content, line, work, got, goal, result, free>>
  BY DEF RemoveFile
<1>2. OnlyLeaversLeak' /\ free' \in 0 .. MaxDescriptors
  <2>1. free' = free /\ Up' = Up /\ Busy' = Busy
    BY <1>1 DEF Up, Busy, Working
  <2> QED
    BY <2>1, LeakStep
<1>3. TypeOK'
  <2>1. alone' \in [Connection -> BOOLEAN]
    BY <1>1 DEF Inv, TypeOK
  <2> QED
    BY <1>1, <2>1 DEF Inv, TypeOK
<1>4. WorkOK'
  BY <1>1 DEF Inv, WorkOK, Working
<1>5. AloneOK'
  <2> SUFFICES ASSUME NEW d \in Connection, alone'[d] PROVE Alone(d)'
    BY DEF AloneOK
  <2>1. alone[d] /\ ~(work[d].name = n /\ work[d].mode = "up")
    BY <1>1
  <2>2. d # c /\ work[d].name \in Name
    BY <1>1, <2>1 DEF Inv, AloneOK, Alone, WorkOK, Idle
  <2>3. StepOf(c) /\ work[c].mode = "ready"
    BY <1>1 DEF StepOf, Idle, Working
  <2>4. work[d].mode = "up" => file'[work[d].name] = file[work[d].name]
    BY <1>1, <2>1, <2>2 DEF Inv, TypeOK
  <2> QED
    BY <1>1, <2>1, <2>2, <2>3, <2>4, Others
<1> QED
  BY <1>2, <1>3, <1>4, <1>5 DEF Inv

-----------------------------------------------------------------------------
(* The invariant, and what follows from it. *)

LEMMA InitInv == Init => Inv
<1> SUFFICES ASSUME Init PROVE Inv
  OBVIOUS
<1>1. TypeOK
  BY SharedDiskAssumption, EmptySeq DEF Init, TypeOK, Ready
<1>2. WorkOK /\ AloneOK
  BY DEF Init, WorkOK, AloneOK, Working, Ready
<1>3. OnlyLeaversLeak
  <2>1. Up = {} /\ Busy = {}
    BY DEF Init, Up, Busy, Working, Ready
  <2>2. OnlyLeaversLeak <=> MaxDescriptors - free = Cardinality(Up) + Cardinality(Busy)
    BY DEF OnlyLeaversLeak, Up, Busy
  <2> QED
    BY <2>1, <2>2, FS_EmptySet, SharedDiskAssumption DEF Init
<1> QED
  BY <1>1, <1>2, <1>3 DEF Inv

LEMMA StepInv == Inv /\ [Next]_vars => Inv'
<1> SUFFICES ASSUME Inv, [Next]_vars PROVE Inv'
  OBVIOUS
<1>1. ASSUME NEW c \in Connection,
             \/ Connect(c) \/ CloseConnection(c)
             \/ Write(c) \/ EndUpload(c) \/ Read(c) \/ CallOff(c)
      PROVE  Inv'
  BY <1>1, ConnectInv, CloseConnectionInv, WriteInv, EndUploadInv, ReadInv, CallOffInv
<1>2. ASSUME NEW c \in Connection, NEW n \in Name,
             OpenUpload(c, n) \/ OpenDownload(c, n) \/ RemoveFile(c, n)
      PROVE  Inv'
  BY <1>2, OpenUploadInv, OpenDownloadInv, RemoveFileInv
<1>3. CASE UNCHANGED vars
  BY <1>3 DEF vars, Inv, TypeOK, WorkOK, AloneOK, Alone, Unshared, Uploading, Downloading,
              OnlyLeaversLeak, Working, Uses
<1> QED
  BY <1>1, <1>2, <1>3 DEF Next

LEMMA InvAlways == Spec => []Inv
  BY InitInv, StepInv, PTL DEF Spec

(* Every variable has its type, an upload stays within its bound, and no   *)
(* two names lead to one file: fopen and unlink of commands.cpp never make *)
(* a link.                                                                 *)
THEOREM TypeCorrect == Spec => []TypeOK
<1>1. Inv => TypeOK
  BY DEF Inv
<1> QED
  BY <1>1, InvAlways, PTL

(* The only descriptors that are lost are those of transfers whose client  *)
(* left in the middle: every other end of a transfer (SEND_DONE, the end   *)
(* of the file, STATUS_FAILED) closes its FILE* exactly once.              *)
THEOREM OnlyLeaversLeakAlways == Spec => []OnlyLeaversLeak
<1>1. Inv => OnlyLeaversLeak
  BY DEF Inv
<1> QED
  BY <1>1, InvAlways, PTL

(* Which step gives a connection its result. *)
LEMMA Ending ==
    ASSUME Inv, [Next]_vars, NEW c \in Connection, result'[c] # result[c]
    PROVE  /\ result'[c] = "downloaded" => Read(c)
           /\ result'[c] = "uploaded" => EndUpload(c)
<1> DEFINE Ends(d, how) == result' = [result EXCEPT ![d] = how]
<1>1. \/ \E d \in Connection : Ends(d, "none")
      \/ \E d \in Connection : EndUpload(d) /\ Ends(d, "uploaded")
      \/ \E d \in Connection : Read(d) /\ Ends(d, "downloaded")
  <2>1. ASSUME NEW d \in Connection, Connect(d) \/ Write(d)
        PROVE  result' = result
    BY <2>1 DEF Connect, Write
  <2>2. ASSUME NEW d \in Connection, CloseConnection(d) \/ CallOff(d)
        PROVE  Ends(d, "none")
    BY <2>2 DEF CloseConnection, CallOff, Unset
  <2>3. ASSUME NEW d \in Connection, EndUpload(d)
        PROVE  Ends(d, "uploaded")
    BY <2>3 DEF EndUpload, Unset
  <2>4. ASSUME NEW d \in Connection, Read(d)
        PROVE  Ends(d, "downloaded") \/ result' = result
    BY <2>4 DEF Read, ReadOf, Unset
  <2>5. ASSUME NEW d \in Connection, NEW n \in Name,
               OpenUpload(d, n) \/ OpenDownload(d, n) \/ RemoveFile(d, n)
        PROVE  Ends(d, "none") \/ result' = result
    BY <2>5 DEF OpenUpload, OpenDownload, RemoveFile
  <2>6. CASE UNCHANGED vars
    BY <2>6 DEF vars
  <2> HIDE DEF Ends
  <2> QED
    BY <2>1, <2>2, <2>3, <2>4, <2>5, <2>6 DEF Next
<1>2. \A d \in Connection : \A how : Ends(d, how) =>
         result'[c] = IF c = d THEN how ELSE result[c]
  BY DEF Inv, TypeOK
<1> HIDE DEF Ends
<1> QED
  BY <1>1, <1>2

(* A download nobody disturbed has what its file held when it began, with  *)
(* any number of clients, whatever becomes of the name meanwhile.          *)
THEOREM DownloadFaithfulAlways == Spec => DownloadFaithful
<1>1. ASSUME Inv, [Next]_vars, NEW c \in Connection,
             result'[c] = "downloaded", result[c] # "downloaded", alone[c]
      PROVE  got[c] = goal[c]
  <2>1. Alone(c) /\ got[c] \in Seq(Block) /\ goal[c] \in Seq(Block)
    BY <1>1 DEF Inv, TypeOK, AloneOK, Block
  <2>2. Read(c) /\ result' # result
    BY <1>1, Ending
  <2>3. work[c].mode = "down" /\ work[c].fd \in File
    BY <1>1, <2>1, <2>2 DEF Inv, WorkOK, Alone, Read, ReadOf
  <2>4. ~(work[c].at < Len(content[work[c].fd]))
    BY <2>2, <2>3, SharedDiskAssumption DEF Read, ReadOf
  <2>5. Downloading(c)
    BY <2>1, <2>3 DEF Alone
  <2>6. Len(got[c]) = Len(goal[c]) /\ \A i \in 1 .. Len(got[c]) : got[c][i] = goal[c][i]
    BY <2>1, <2>4, <2>5, Elements DEF Downloading
  <2> QED
    BY <2>1, <2>6, SameElements
<1>2. Inv /\ [Next]_vars =>
        [\A c \in Connection : result'[c] = "downloaded" /\ result[c] # "downloaded" /\ alone[c] =>
            got[c] = goal[c]]_vars
  BY <1>1
<1> QED
  BY <1>2, InvAlways, PTL DEF Spec, DownloadFaithful

(* An upload nobody disturbed is under its name, block by block.           *)
THEOREM UploadFaithfulAlways == Spec => UploadFaithful
<1>1. ASSUME Inv, [Next]_vars, NEW c \in Connection,
             result'[c] = "uploaded", result[c] # "uploaded", alone[c]
      PROVE  content'[file'[work[c].name]] = [i \in 1 .. work[c].at |-> c]
  <2>1. Alone(c)
    BY <1>1 DEF Inv, AloneOK
  <2>2. EndUpload(c)
    BY <1>1, Ending
  <2>3. Uploading(c) /\ UNCHANGED <<file, content>>
    BY <2>1, <2>2 DEF Alone, EndUpload
  <2> QED
    BY <2>3 DEF Uploading
<1>2. Inv /\ [Next]_vars =>
        [\A c \in Connection : result'[c] = "uploaded" /\ result[c] # "uploaded" /\ alone[c] =>
            content'[file'[work[c].name]] = [i \in 1 .. work[c].at |-> c]]_vars
  BY <1>1
<1> QED
  BY <1>2, InvAlways, PTL DEF Spec, UploadFaithful

=============================================================================
