--------------------------- MODULE BroadcastProofs ---------------------------
(***************************************************************************)
(* Proofs about Broadcast, for any number of clients, messages, lost       *)
(* connections and rounds: what each user gets, and when the server may    *)
(* crash.                                                                  *)
(***************************************************************************)
EXTENDS Broadcast, SequenceTheorems, TLAPS

-----------------------------------------------------------------------------
(* The inductive invariant. *)

Places == 1 .. Len(connections)
Newest == Len(log)

(* The walk has been at c. *)
Passed(c) == \E i \in Places : i < g_it /\ connections[i] = c

(* A connection is in the list once. *)
Distinct == \A i, j \in Places : connections[i] = connections[j] => i = j

(* A message is under way as long as main walks, and an iterator that is   *)
(* in use has been set.                                                    *)
Begun ==
    /\ Newest <= MaxSay
    /\ MainWalks => Newest >= 1
    /\ MainWalks \/ KaWalks => g_it >= 1

(* Nobody comes in during a walk of main's: those it may still meet are    *)
(* the sender and addressees.                                              *)
Addressed ==
    server = "up" /\ MainWalks =>
        \A i \in Places : connections[i] = log[Newest].from \/ connections[i] \in log[Newest].to

(* NeverAstray, and nobody has a message from the future.                  *)
Taken == \A c \in Client : \A i \in 1 .. Len(Got(c)) : Got(c)[i] \in 1 .. Newest

(* Walks that have not overlapped: one thread walks at a time,             *)
Apart == ~overlap => ~MainWalks \/ ~KaWalks

(* g_it is where main has sent to or is about to look, and those it has    *)
(* passed have the message;                                                *)
MainWalk ==
    ~overlap /\ server = "up" /\ MainWalks =>
        /\ log[Newest].to = ToSet(connections) \ {log[Newest].from}
        /\ main.at = "send" => g_it \in Places /\ main.rc = connections[g_it]
        /\ main.at = "look" => g_it <= Len(connections) + 1
        /\ \A c \in Client :
              IsOnceInOrder(Got(c), For(c, Newest - 1) \cup
                 (IF Passed(c) /\ c # log[Newest].from THEN {Newest} ELSE {}))

(* the keepalive thread's walk, too, is within a list that nothing leaves; *)
KaWalk ==
    ~overlap /\ lost = <<>> /\ server \in {"up", "stopping"} =>
        /\ ka.at = "send" => g_it \in Places /\ ka.rc = connections[g_it]
        /\ ka.at = "look" => g_it <= Len(connections) + 1

(* and when the server has stopped nobody begins another.                  *)
Stopped == server = "stopping" => connections = <<>>

Inv == /\ TypeOK /\ Distinct /\ Begun /\ Addressed /\ Taken /\ NeverAstray
       /\ Apart /\ MainWalk /\ KaWalk /\ Stopped
       /\ OnceInOrder /\ CrashNeedsOverlap

-----------------------------------------------------------------------------
(* Sequences. *)

LEMMA ToSetFacts ==
    ASSUME NEW S, NEW s \in Seq(S)
    PROVE  /\ Len(s) \in Nat /\ DOMAIN s = 1 .. Len(s)
           /\ ToSet(s) = {s[i] : i \in 1 .. Len(s)}
           /\ \A i \in 1 .. Len(s) : s[i] \in S
  BY LenProperties, ElementOfSeq DEF ToSet

LEMMA Appended ==
    ASSUME NEW S, NEW s \in Seq(S), NEW x \in S
    PROVE  Append(s, x) \in Seq(S) /\ Append(s, x) # <<>>
  BY AppendProperties, EmptySeq, LenProperties

(* What is sent later is got later: to shown \o mails it is all one        *)
(* whether a message is appended to mails or to the whole.                 *)
LEMMA AppendToSecond ==
    ASSUME NEW S, NEW s \in Seq(S), NEW t \in Seq(S), NEW x \in S
    PROVE  s \o Append(t, x) = Append(s \o t, x)
<1>1. <<x>> \in Seq(S)
  OBVIOUS
<1>2. Append(t, x) = t \o <<x>> /\ Append(s \o t, x) = (s \o t) \o <<x>>
  BY AppendIsConcat, ConcatProperties
<1> QED
  BY <1>1, <1>2, ConcatAssociative

(* What is moved from the head of mails to the end of shown stays where it *)
(* is in the whole.                                                        *)
HeadMoves(S, s, t, n) ==
    /\ SubSeq(t, 1, n) \in Seq(S) /\ SubSeq(t, n + 1, Len(t)) \in Seq(S)
    /\ (s \o SubSeq(t, 1, n)) \o SubSeq(t, n + 1, Len(t)) = s \o t
LEMMA MoveHead ==
    ASSUME NEW S, NEW s \in Seq(S), NEW t \in Seq(S), NEW n \in 1 .. Len(t)
    PROVE  HeadMoves(S, s, t, n)
<1> DEFINE head == SubSeq(t, 1, n)
           rest == SubSeq(t, n + 1, Len(t))
<1>1. Len(t) \in Nat /\ \A i \in 1 .. Len(t) : t[i] \in S
  BY LenProperties, ElementOfSeq
<1>2. head \in Seq(S) /\ rest \in Seq(S)
  BY <1>1, SubSeqProperties
<1>3. head \o rest = t
  <2>1. head \o rest = SubSeq(t, 1, Len(t))
    BY <1>1, ConcatAdjacentSubSeq
  <2> QED
    BY <2>1, SubSeqFull
<1> HIDE DEF head, rest
<1>4. (s \o head) \o rest = s \o (head \o rest)
  BY <1>2
<1> QED
  BY <1>2, <1>3, <1>4 DEF HeadMoves, head, rest

(* A newer message behind older ones. *)
LEMMA Newer ==
    ASSUME NEW s \in Seq(Nat), NEW messages, IsOnceInOrder(s, messages),
           NEW n \in Nat, \A i \in messages : i < n
    PROVE  IsOnceInOrder(Append(s, n), messages \cup {n})
<1> DEFINE t == Append(s, n)
<1>1. /\ t \in Seq(Nat) /\ Len(s) \in Nat /\ Len(t) = Len(s) + 1
      /\ t[Len(s) + 1] = n /\ \A i \in 1 .. Len(s) : t[i] = s[i]
  BY AppendProperties, LenProperties
<1> HIDE DEF t
<1>2. ToSet(t) = {t[i] : i \in 1 .. Len(s) + 1} /\ messages = {s[i] : i \in 1 .. Len(s)}
  BY <1>1, ToSetFacts DEF IsOnceInOrder
<1>3. ToSet(t) = messages \cup {n}
  <2>1. \A x : x \in ToSet(t) <=> \E i \in 1 .. Len(s) + 1 : x = t[i]
    BY <1>2
  <2>2. \A x : x \in messages <=> \E i \in 1 .. Len(s) : x = s[i]
    BY <1>2
  <2>3. \A i \in 1 .. Len(s) + 1 : i \in 1 .. Len(s) \/ i = Len(s) + 1
    BY <1>1
  <2>4. \A i \in 1 .. Len(s) : i \in 1 .. Len(s) + 1
    BY <1>1
  <2>5. Len(s) + 1 \in 1 .. Len(s) + 1
    BY <1>1
  <2>6. ASSUME NEW x \in ToSet(t) PROVE x \in messages \/ x = n
    <3>1. PICK i \in 1 .. Len(s) + 1 : x = t[i]
      BY <2>1, <2>6
    <3> QED
      BY <1>1, <2>2, <2>3, <3>1
  <2>7. messages \subseteq ToSet(t) /\ n \in ToSet(t)
    BY <1>1, <2>1, <2>2, <2>4, <2>5
  <2> QED
    BY <2>6, <2>7
<1>4. ASSUME NEW i \in 2 .. Len(t) PROVE t[i - 1] < t[i]
  <2>1. CASE i \in 2 .. Len(s)
    <3>1. s[i - 1] < s[i]
      BY <2>1 DEF IsOnceInOrder
    <3>2. i \in 1 .. Len(s) /\ i - 1 \in 1 .. Len(s)
      BY <1>1, <2>1
    <3> QED
      BY <1>1, <3>1, <3>2
  <2>2. CASE i = Len(s) + 1
    <3>1. i - 1 \in 1 .. Len(s) /\ t[i - 1] = s[i - 1] /\ s[i - 1] \in messages
      BY <1>1, <1>2, <1>4, <2>2
    <3> QED
      BY <1>1, <2>2, <3>1
  <2> QED
    BY <1>1, <1>4, <2>1, <2>2
<1> QED
  BY <1>3, <1>4 DEF IsOnceInOrder, t

LEMMA RemoveFacts ==
    ASSUME NEW s \in Seq(Client), NEW i \in 1 .. Len(s)
    PROVE  /\ RemoveAt(s, i) \in Seq(Client)
           /\ Len(RemoveAt(s, i)) = Len(s) - 1
           /\ \A j \in 1 .. Len(s) - 1 :
                 RemoveAt(s, i)[j] = IF j < i THEN s[j] ELSE s[j + 1]
<1> DEFINE front == SubSeq(s, 1, i - 1)
           back == SubSeq(s, i + 1, Len(s))
<1>1. /\ front \in Seq(Client) /\ Len(front) = i - 1
      /\ \A j \in 1 .. i - 1 : front[j] = s[j]
  OBVIOUS
<1>2. /\ back \in Seq(Client) /\ Len(back) = Len(s) - i
      /\ \A j \in 1 .. Len(s) - i : back[j] = s[j + i]
  OBVIOUS
<1>3. RemoveAt(s, i) = front \o back
  BY DEF RemoveAt
<1> HIDE DEF front, back
<1>4. RemoveAt(s, i) \in Seq(Client) /\ Len(RemoveAt(s, i)) = Len(s) - 1
  BY <1>1, <1>2, <1>3
<1>5. ASSUME NEW j \in 1 .. Len(s) - 1, j < i
      PROVE  RemoveAt(s, i)[j] = s[j]
  BY <1>1, <1>2, <1>3, <1>5
<1>6. ASSUME NEW j \in 1 .. Len(s) - 1, ~(j < i)
      PROVE  RemoveAt(s, i)[j] = s[j + 1]
  <2>1. j - (i - 1) \in 1 .. Len(s) - i /\ j - (i - 1) + i = j + 1
    BY <1>6
  <2>2. back[j - (i - 1)] = s[j + 1]
    BY <2>1, <1>2
  <2>3. (front \o back)[j] = back[j - (i - 1)]
    BY <1>1, <1>2, <1>6
  <2> QED
    BY <2>2, <2>3, <1>3
<1> QED
  BY <1>4, <1>5, <1>6

-----------------------------------------------------------------------------
(* What the steps do to the list and to what has been got. *)

LEMMA ListedAt ==
    ASSUME NEW c
    PROVE  Listed(c) <=> \E i \in Places : connections[i] = c
  BY DEF Listed, Contains, Places

LEMMA EraseFacts ==
    ASSUME TypeOK, Distinct, NEW c, Erase(c)
    PROVE  /\ connections' \in Seq(Client)
           /\ Distinct'
           /\ \A i \in Places' : \E j \in Places : connections'[i] = connections[j]
<1>1. PICK i \in Places : connections' = RemoveAt(connections, i)
  BY DEF Erase, Places
<1>2. connections \in Seq(Client) /\ Len(connections) \in Nat
  BY DEF TypeOK
<1>3. /\ connections' \in Seq(Client) /\ Places' = 1 .. Len(connections) - 1
      /\ \A j \in Places' :
            connections'[j] = IF j < i THEN connections[j] ELSE connections[j + 1]
  BY <1>1, <1>2, RemoveFacts DEF Places
<1> DEFINE old(j) == IF j < i THEN j ELSE j + 1
<1>4. \A j \in Places' : old(j) \in Places /\ connections'[j] = connections[old(j)]
  BY <1>1, <1>2, <1>3 DEF Places
<1>5. \A j, k \in Places' : old(j) = old(k) => j = k
  BY <1>1, <1>3 DEF Places
<1> HIDE DEF old
<1> QED
  BY <1>3, <1>4, <1>5 DEF Distinct

LEMMA GotType ==
    ASSUME TypeOK, NEW c \in Client
    PROVE  /\ Got(c) \in Seq(Message) /\ Got(c) \in Seq(Nat)
           /\ Len(Got(c)) \in Nat /\ DOMAIN Got(c) = 1 .. Len(Got(c))
<1>1. shown[c] \in Seq(Message) /\ mails[c] \in Seq(Message)
  BY DEF TypeOK
<1>2. Got(c) \in Seq(Message)
  BY <1>1, ConcatProperties DEF Got
<1>3. Message \subseteq Nat
  BY BroadcastAssumption DEF Message
<1> QED
  BY <1>2, <1>3, SeqMonotonic, LenProperties

(* Steps that neither send nor show: all that has been got stays.          *)
LEMMA NothingGot ==
    ASSUME UNCHANGED <<mails, shown, log>>
    PROVE  /\ \A c \in Client : Got(c)' = Got(c)
           /\ \A c \in Client, n \in Int : For(c, n)' = For(c, n)
           /\ Newest' = Newest
           /\ Taken => Taken'
           /\ NeverAstray => NeverAstray'
<1>1. /\ \A c \in Client : Got(c)' = Got(c)
      /\ \A c \in Client, n \in Int : For(c, n)' = For(c, n)
      /\ Newest' = Newest /\ log' = log
  BY DEF Got, For, Newest
<1> QED
  BY <1>1 DEF Taken, NeverAstray

LEMMA ShowGot ==
    ASSUME TypeOK, NEW c \in Client, NEW count \in 1 .. MaxSay, Show(c, count)
    PROVE  /\ mails' \in [Client -> Seq(Message)] /\ shown' \in [Client -> Seq(Message)]
           /\ \A d \in Client : Got(d)' = Got(d)
<1> DEFINE n == Showing(count, Len(mails[c]))
<1>1. shown[c] \in Seq(Message) /\ mails[c] \in Seq(Message) /\ Len(mails[c]) \in Nat
  BY DEF TypeOK
<1>2. n \in 1 .. Len(mails[c])
  BY <1>1, BroadcastAssumption DEF Show, Showing
<1>3. /\ shown' = [shown EXCEPT ![c] = shown[c] \o SubSeq(mails[c], 1, n)]
      /\ mails' = [mails EXCEPT ![c] = SubSeq(mails[c], n + 1, Len(mails[c]))]
  BY DEF Show
<1> HIDE DEF n
<1>4. /\ SubSeq(mails[c], 1, n) \in Seq(Message)
      /\ SubSeq(mails[c], n + 1, Len(mails[c])) \in Seq(Message)
      /\ (shown[c] \o SubSeq(mails[c], 1, n)) \o SubSeq(mails[c], n + 1, Len(mails[c]))
            = shown[c] \o mails[c]
  <2>1. HeadMoves(Message, shown[c], mails[c], n)
    BY <1>1, <1>2, MoveHead
  <2> QED
    BY <2>1 DEF HeadMoves
<1>5. shown[c] \o SubSeq(mails[c], 1, n) \in Seq(Message)
  BY <1>1, <1>4, ConcatProperties
<1> QED
  BY <1>3, <1>4, <1>5 DEF TypeOK, Got

(* A message that is sent to c. *)
LEMMA MailGot ==
    ASSUME TypeOK, NEW c \in Client, Newest \in Message, AppendMail(c, Newest),
           UNCHANGED shown
    PROVE  /\ mails' \in [Client -> Seq(Message)]
           /\ Got(c)' = Append(Got(c), Newest)
           /\ \A d \in Client \ {c} : Got(d)' = Got(d)
<1>1. shown[c] \in Seq(Message) /\ mails[c] \in Seq(Message)
  BY DEF TypeOK
<1>2. mails' = [mails EXCEPT ![c] = Append(mails[c], Newest)] /\ shown' = shown
  BY DEF AppendMail, Newest
<1>3. Append(mails[c], Newest) \in Seq(Message)
  BY <1>1, AppendProperties
<1>4. shown[c] \o Append(mails[c], Newest) = Append(shown[c] \o mails[c], Newest)
  <2>1. ASSUME NEW s \in Seq(Message), NEW t \in Seq(Message)
        PROVE  s \o Append(t, Newest) = Append(s \o t, Newest)
    BY AppendToSecond
  <2> QED
    BY <1>1, <2>1
<1> QED
  BY <1>2, <1>3, <1>4 DEF TypeOK, Got

LEMMA NotEmpty ==
    ASSUME TypeOK, connections # <<>> \/ Places # {}
    PROVE  1 \in Places /\ connections[1] \in Client
  BY EmptySeq, LenProperties DEF TypeOK, Places

-----------------------------------------------------------------------------
(* The steps. *)

(* Steps that neither send nor show, with main or nobody walking apart.    *)
LEMMA ConnectInv ==
    ASSUME Inv, NEW c \in Client, Connect(c)
    PROVE  Inv'
<1>1. /\ server = "up" /\ main.at = "idle" /\ ~Listed(c)
      /\ connections' = Append(connections, c)
      /\ UNCHANGED <<server, g_it, main, ka, mails, shown, log, overlap, lost, rounds>>
  BY DEF Connect, client
<1>2. connections \in Seq(Client) /\ Len(connections) \in Nat
  BY DEF Inv, TypeOK
<1>3. /\ connections' \in Seq(Client) /\ Places' = 1 .. Len(connections) + 1
      /\ connections'[Len(connections) + 1] = c
      /\ \A i \in Places : connections'[i] = connections[i]
  BY <1>1, <1>2, AppendProperties DEF Places
<1>4. TypeOK'
  BY <1>1, <1>3 DEF Inv, TypeOK
<1>5. Distinct'
  <2>1. \A i \in Places : connections[i] # c
    BY <1>1, ListedAt
  <2>2. \A i \in Places' : i \in Places \/ i = Len(connections) + 1
    BY <1>2, <1>3 DEF Places
  <2> QED
    BY <1>3, <2>1, <2>2 DEF Inv, Distinct
<1>6. Begun' /\ Addressed' /\ Apart' /\ MainWalk' /\ KaWalk' /\ Stopped' /\ CrashNeedsOverlap'
  <2>1. ~MainWalks /\ ~KaWalks /\ ~MainWalks' /\ ~KaWalks' /\ ka' = ka
    BY <1>1 DEF Connect, MainWalks, KaWalks
  <2>2. Begun' /\ Addressed' /\ Apart' /\ MainWalk' /\ Stopped' /\ CrashNeedsOverlap'
    BY <1>1, <2>1 DEF Inv, Begun, Addressed, Apart, MainWalk, Stopped, CrashNeedsOverlap, Newest
  <2>3. KaWalk'
    BY <2>1 DEF KaWalk, KaWalks
  <2> QED
    BY <2>2, <2>3
<1>7. Taken' /\ NeverAstray'
  BY <1>1, NothingGot DEF Inv
<1>8. OnceInOrder'
  BY <1>1, NothingGot DEF Inv, OnceInOrder, Newest, TypeOK, MainWalks
<1> QED
  BY <1>4, <1>5, <1>6, <1>7, <1>8 DEF Inv

LEMMA DisconnectInv ==
    ASSUME Inv, NEW c \in Client, Disconnect(c)
    PROVE  Inv'
<1>1. /\ server = "up" /\ main.at = "idle" /\ Erase(c) /\ lost' = Append(lost, c)
      /\ overlap' = (overlap \/ KaWalks)
      /\ UNCHANGED <<server, g_it, main, ka, mails, shown, log, rounds>>
  BY DEF Disconnect, client
<1>2. /\ connections' \in Seq(Client) /\ Distinct'
      /\ \A i \in Places' : \E j \in Places : connections'[i] = connections[j]
  BY <1>1, EraseFacts DEF Inv
<1>3. TypeOK'
  <2>1. lost' \in Seq(Client)
    BY <1>1, AppendProperties DEF Inv, TypeOK
  <2>2. overlap' \in BOOLEAN
    BY <1>1
  <2> QED
    BY <1>1, <1>2, <2>1, <2>2 DEF Inv, TypeOK
<1>4. /\ Begun' /\ Addressed' /\ Apart' /\ MainWalk' /\ KaWalk' /\ Stopped'
      /\ CrashNeedsOverlap'
  BY <1>1 DEF Inv, Begun, Addressed, Apart, MainWalk, KaWalk, Stopped, CrashNeedsOverlap,
              MainWalks, Newest, KaWalks
<1>5. Taken' /\ NeverAstray'
  BY <1>1, NothingGot DEF Inv
<1>6. OnceInOrder'
  BY <1>1, NothingGot DEF Inv, OnceInOrder, Newest, TypeOK, MainWalks
<1> QED
  BY <1>2, <1>3, <1>4, <1>5, <1>6 DEF Inv

LEMMA BlockedInv ==
    ASSUME Inv, NEW c \in Client, Blocked(c)
    PROVE  Inv'
<1>1. /\ main.at = "idle" /\ main' = [at |-> "blocked", rc |-> NONE]
      /\ UNCHANGED <<server, connections, g_it, ka, mails, shown, log, overlap, lost, rounds>>
  BY DEF Blocked, client, At
<1>2. ~MainWalks /\ ~MainWalks'
  BY <1>1 DEF MainWalks
<1>3. TypeOK' /\ Distinct'
  BY <1>1 DEF Inv, TypeOK, Distinct, Places
<1>4. /\ Begun' /\ Addressed' /\ Apart' /\ MainWalk' /\ KaWalk' /\ Stopped'
      /\ CrashNeedsOverlap'
  BY <1>1, <1>2 DEF Inv, Begun, Addressed, Apart, MainWalk, KaWalk, Stopped,
              CrashNeedsOverlap, KaWalks, Newest, Places
<1>5. Taken' /\ NeverAstray'
  BY <1>1, NothingGot DEF Inv
<1>6. OnceInOrder'
  BY <1>1, <1>2, NothingGot DEF Inv, OnceInOrder, Newest, TypeOK
<1> QED
  BY <1>3, <1>4, <1>5, <1>6 DEF Inv

LEMMA StopInv ==
    ASSUME Inv, Stop
    PROVE  Inv'
<1>1. /\ server = "up" /\ server' = "stopping" /\ connections' = <<>>
      /\ overlap' = (overlap \/ KaWalks)
      /\ UNCHANGED <<g_it, main, ka, mails, shown, log, lost, rounds>>
  BY DEF Stop, client
<1>2. Distinct' /\ connections' \in Seq(Client)
  BY <1>1, EmptySeq DEF Distinct, Places
<1>3. TypeOK'
  <2>1. overlap' \in BOOLEAN
    BY <1>1
  <2> QED
    BY <1>1, <1>2, <2>1 DEF Inv, TypeOK
<1>4. /\ Begun' /\ Addressed' /\ Apart' /\ MainWalk' /\ KaWalk' /\ Stopped'
      /\ CrashNeedsOverlap'
  BY <1>1 DEF Inv, Begun, Addressed, Apart, MainWalk, KaWalk, Stopped, CrashNeedsOverlap,
              MainWalks, Newest, KaWalks
<1>5. Taken' /\ NeverAstray'
  BY <1>1, NothingGot DEF Inv
<1>6. OnceInOrder'
  BY <1>1, NothingGot DEF Inv, OnceInOrder, Newest, TypeOK, MainWalks
<1> QED
  BY <1>2, <1>3, <1>4, <1>5, <1>6 DEF Inv

LEMMA ExitInv ==
    ASSUME Inv, Exit
    PROVE  Inv'
<1>1. /\ server' = "exited"
      /\ UNCHANGED <<connections, g_it, main, ka, mails, shown, log, overlap, lost, rounds>>
  BY DEF Exit, client
<1>2. TypeOK' /\ Distinct'
  BY <1>1 DEF Inv, TypeOK, Distinct, Places
<1>3. /\ Begun' /\ Addressed' /\ Apart' /\ MainWalk' /\ KaWalk' /\ Stopped'
      /\ CrashNeedsOverlap'
  BY <1>1 DEF Inv, Begun, Addressed, Apart, MainWalk, KaWalk, Stopped, CrashNeedsOverlap,
              MainWalks, Newest, KaWalks
<1>4. Taken' /\ NeverAstray'
  BY <1>1, NothingGot DEF Inv
<1>5. OnceInOrder'
  BY <1>1, NothingGot DEF Inv, OnceInOrder, Newest, TypeOK, MainWalks
<1> QED
  BY <1>2, <1>3, <1>4, <1>5 DEF Inv

LEMMA KaWakeInv ==
    ASSUME Inv, KaWake
    PROVE  Inv'
<1>1. /\ ka' = [at |-> "send", rc |-> connections[1]] /\ g_it' = 1
      /\ overlap' = (overlap \/ MainWalks)
      /\ UNCHANGED <<server, connections, main, mails, shown, log, lost>>
  BY DEF KaWake, client
<1>2. 1 \in Places /\ connections[1] \in Client
  BY NotEmpty DEF Inv, KaWake
<1>3. rounds' \in 0 .. MaxRound
  <2>1. CASE ~MainWalks
    BY <2>1 DEF Inv, TypeOK, KaWake
  <2>2. CASE MainWalks
    BY <2>2, BroadcastAssumption DEF Inv, TypeOK, KaWake
  <2> QED
    BY <2>1, <2>2
<1>4. TypeOK' /\ Distinct'
  <2>1. overlap' \in BOOLEAN
    BY <1>1
  <2> QED
    BY <1>1, <1>2, <1>3, <2>1 DEF Inv, TypeOK, Distinct, Places
<1>5. /\ Begun' /\ Addressed' /\ Apart' /\ MainWalk' /\ KaWalk' /\ Stopped'
      /\ CrashNeedsOverlap'
  <2>1. Begun' /\ Addressed'
    BY <1>1 DEF Inv, Begun, Addressed, MainWalks, Newest, Places, KaWalks
  <2>2. ~overlap' => ~MainWalks /\ ~MainWalks' /\ ~overlap
    BY <1>1 DEF MainWalks
  <2>3. Apart' /\ MainWalk'
    BY <1>1, <2>2 DEF Apart, MainWalk, MainWalks, KaWalks
  <2>4. KaWalk'
    BY <1>1, <1>2 DEF KaWalk, Places
  <2>5. Stopped' /\ CrashNeedsOverlap'
    BY <1>1 DEF Inv, Stopped, CrashNeedsOverlap
  <2> QED
    BY <2>1, <2>3, <2>4, <2>5
<1>6. Taken' /\ NeverAstray'
  BY <1>1, NothingGot DEF Inv
<1>7. OnceInOrder'
  BY <1>1, NothingGot DEF Inv, OnceInOrder, Newest, TypeOK, MainWalks
<1> QED
  BY <1>4, <1>5, <1>6, <1>7 DEF Inv

LEMMA StopInKeepAliveInv ==
    ASSUME Inv, StopInKeepAlive
    PROVE  Inv'
<1>1. /\ \/ ka' = [at |-> "locking", rc |-> NONE]
         \/ ka' = [at |-> "ended", rc |-> NONE]
      /\ UNCHANGED <<server, connections, g_it, main, mails, shown, log, overlap, lost, rounds>>
  BY DEF StopInKeepAlive, client, At
<1>2. ~KaWalks'
  BY <1>1 DEF KaWalks
<1>3. TypeOK' /\ Distinct'
  BY <1>1 DEF Inv, TypeOK, Distinct, Places
<1>4. /\ Begun' /\ Addressed' /\ Apart' /\ Stopped' /\ CrashNeedsOverlap'
  BY <1>1, <1>2 DEF Inv, Begun, Addressed, Apart, Stopped, CrashNeedsOverlap,
              MainWalks, Newest, Places
<1>5. KaWalk'
  BY <1>1 DEF KaWalk
<1>6. MainWalk'
  <2>1. /\ \A d \in Client : Got(d)' = Got(d) /\ (Passed(d)' <=> Passed(d))
        /\ Newest' = Newest /\ MainWalks' = MainWalks /\ Places' = Places
        /\ \A d, n : For(d, n)' = For(d, n)
    BY <1>1 DEF Got, Passed, Places, Newest, MainWalks, For
  <2> QED
    BY <1>1, <2>1 DEF Inv, MainWalk
<1>7. Taken' /\ NeverAstray'
  BY <1>1, NothingGot DEF Inv
<1>8. OnceInOrder'
  BY <1>1, NothingGot DEF Inv, OnceInOrder, MainWalks, Newest, TypeOK
<1> QED
  BY <1>3, <1>4, <1>5, <1>6, <1>7, <1>8 DEF Inv

LEMMA KaSendInv ==
    ASSUME Inv, KaSend
    PROVE  Inv'
<1>1. /\ ka.at = "send" /\ ka' = [at |-> "look", rc |-> NONE] /\ g_it' = g_it + 1
      /\ server \in {"up", "stopping"}
      /\ UNCHANGED <<main, mails, shown, log, overlap, rounds>>
  BY DEF KaSend, client, At
<1>2. \/ /\ Listed(ka.rc) /\ UNCHANGED <<server, connections, lost>>
      \/ Listed(ka.rc) /\ server' = server /\ Erase(ka.rc) /\ lost' = Append(lost, ka.rc)
      \/ ~Listed(ka.rc) /\ server' \in {server, "crashed"} /\ UNCHANGED <<connections, lost>>
  BY DEF KaSend
<1>3. /\ connections' \in Seq(Client) /\ Distinct'
      /\ \A i \in Places' : \E j \in Places : connections'[i] = connections[j]
  <2>1. CASE UNCHANGED connections
    BY <2>1 DEF Inv, TypeOK, Distinct, Places
  <2>2. CASE Erase(ka.rc)
    BY <2>2, EraseFacts DEF Inv
  <2> QED
    BY <1>2, <2>1, <2>2
<1>4. \/ lost' \in Seq(Client) /\ UNCHANGED <<lost, connections>>
      \/ lost' \in Seq(Client) /\ lost' # <<>> /\ connections # <<>>
  <2>1. CASE lost' = Append(lost, ka.rc) /\ Listed(ka.rc)
    <3>1. lost' \in Seq(Client) /\ lost' # <<>>
      <4>1. lost \in Seq(Client) /\ ka.rc \in Client
        BY <1>1 DEF Inv, TypeOK
      <4> QED
        BY <2>1, <4>1, Appended
    <3>2. connections # <<>>
      BY <2>1, ListedAt, EmptySeq DEF Places
    <3> QED
      BY <3>1, <3>2
  <2>2. CASE UNCHANGED <<lost, connections>>
    BY <2>2 DEF Inv, TypeOK
  <2> QED
    BY <1>2, <2>1, <2>2
<1>5. server = "stopping" => connections' = <<>>
  BY <1>2, <1>3, ListedAt, EmptySeq DEF Inv, Stopped, Places
<1>6. g_it \in Nat /\ g_it' \in Nat
  BY <1>1 DEF Inv, TypeOK
<1>7. TypeOK'
  BY <1>1, <1>2, <1>3, <1>4, <1>6 DEF Inv, TypeOK
<1>8. ~overlap => ~MainWalks
  BY <1>1 DEF Inv, Apart, KaWalks, MainWalks
<1>9. ~overlap /\ lost = <<>> => g_it \in Places /\ Listed(ka.rc)
  BY <1>1, ListedAt DEF Inv, KaWalk, MainWalks, KaWalks
<1>10. Begun' /\ Apart' /\ MainWalk' /\ Stopped'
  BY <1>1, <1>2, <1>5, <1>6, <1>8 DEF Inv, Begun, Apart, MainWalk, Stopped, MainWalks, Newest, KaWalks
<1>11. Addressed'
  BY <1>1, <1>2, <1>3 DEF Inv, Addressed, MainWalks, Newest
<1>12. CrashNeedsOverlap'
  BY <1>1, <1>2, <1>4, <1>9
     DEF Inv, CrashNeedsOverlap
<1>13. KaWalk'
  <2> SUFFICES ASSUME ~overlap, lost' = <<>>
               PROVE  g_it' <= Len(connections') + 1
    BY <1>1 DEF KaWalk
  <2>1. lost = <<>> /\ connections' = connections
    BY <1>4
  <2> QED
    BY <1>1, <1>9, <2>1 DEF Places
<1>14. Taken' /\ NeverAstray'
  BY <1>1, NothingGot DEF Inv
<1>15. OnceInOrder'
  BY <1>1, NothingGot DEF Inv, OnceInOrder, Newest, TypeOK, MainWalks
<1> QED
  BY <1>3, <1>7, <1>10, <1>11, <1>12, <1>13, <1>14, <1>15 DEF Inv

(* Where a walk that has not run past the end goes on. *)
LEMMA NextFacts ==
    ASSUME Inv, ~PastTheEnd, g_it >= 1, NEW rest
    PROVE  \/ g_it = Len(connections) + 1 /\ NextConnection(rest) = At(rest)
           \/ /\ g_it \in Places /\ connections[g_it] \in Client
              /\ NextConnection(rest) = [at |-> "send", rc |-> connections[g_it]]
<1>1. Len(connections) \in Nat /\ g_it \in Nat /\ \A i \in Places : connections[i] \in Client
  BY DEF Inv, TypeOK, Places
<1> QED
  BY <1>1 DEF NextConnection, PastTheEnd, Places

LEMMA KaLookInv ==
    ASSUME Inv, KaLook
    PROVE  Inv'
<1>1. /\ ka.at = "look" /\ server \in {"up", "stopping"}
      /\ IF PastTheEnd THEN server' = "crashed" /\ UNCHANGED ka
         ELSE ka' = NextConnection("sleep") /\ UNCHANGED server
      /\ UNCHANGED <<connections, g_it, main, mails, shown, log, overlap, lost, rounds>>
  BY DEF KaLook, client
<1>2. g_it >= 1
  BY <1>1 DEF Inv, Begun, MainWalks, KaWalks
<1>3. \/ server' = "crashed" /\ ka' = ka /\ PastTheEnd
      \/ server' = server /\ ka' = [at |-> "sleep", rc |-> NONE]
      \/ /\ g_it \in Places /\ connections[g_it] \in Client
         /\ server' = server /\ ka' = [at |-> "send", rc |-> connections[g_it]]
  BY <1>1, <1>2, NextFacts DEF At
<1>4. TypeOK' /\ Distinct'
  <2>1. ka' \in [at : {"sleep", "send", "look", "ended", "locking"}, rc : Client \cup {NONE}]
    BY <1>3 DEF Inv, TypeOK
  <2>2. server' \in {"up", "stopping", "exited", "crashed"}
    BY <1>1, <1>3 DEF Inv, TypeOK
  <2>3. ka'.at = "send" => ka'.rc \in Client
    BY <1>3 DEF Inv, TypeOK
  <2>4. TypeOK'
    BY <1>1, <2>1, <2>2, <2>3 DEF Inv, TypeOK
  <2>5. Distinct'
    BY <1>1 DEF Inv, Distinct, Places
  <2> QED
    BY <2>4, <2>5
<1>5. ~overlap /\ lost = <<>> => ~PastTheEnd
  BY <1>1 DEF Inv, KaWalk, PastTheEnd, TypeOK, MainWalks, KaWalks
<1>6. ~overlap => ~MainWalks
  BY <1>1 DEF Inv, Apart, KaWalks, MainWalks
<1>7. /\ Begun' /\ Addressed' /\ Apart' /\ MainWalk' /\ KaWalk' /\ Stopped'
      /\ CrashNeedsOverlap'
  BY <1>1, <1>3, <1>5, <1>6 DEF Inv, Begun, Addressed, Apart, MainWalk, KaWalk, Stopped,
              CrashNeedsOverlap, MainWalks, Newest, Places, KaWalks
<1>8. Taken' /\ NeverAstray'
  BY <1>1, NothingGot DEF Inv
<1>9. OnceInOrder'
  BY <1>1, NothingGot DEF Inv, OnceInOrder, Newest, TypeOK, MainWalks
<1> QED
  BY <1>4, <1>7, <1>8, <1>9 DEF Inv

(* What is shown was got before. *)
LEMMA ShowInv ==
    ASSUME Inv, NEW c \in Client, NEW count \in 1 .. MaxSay, Show(c, count)
    PROVE  Inv'
<1>1. UNCHANGED <<server, connections, g_it, main, ka, log, overlap, lost, rounds>>
  BY DEF Show
<1>2. /\ mails' \in [Client -> Seq(Message)] /\ shown' \in [Client -> Seq(Message)]
      /\ \A d \in Client : Got(d)' = Got(d)
  BY ShowGot DEF Inv
<1>3. /\ TypeOK' /\ Distinct' /\ Begun' /\ Addressed' /\ Apart' /\ KaWalk' /\ Stopped'
      /\ CrashNeedsOverlap'
  <2>1. TypeOK'
    BY <1>1, <1>2 DEF Inv, TypeOK
  <2>2. Distinct' /\ Begun' /\ Addressed' /\ Apart' /\ KaWalk' /\ Stopped' /\ CrashNeedsOverlap'
    BY <1>1 DEF Inv, Distinct, Begun, Addressed, Apart, KaWalk, Stopped,
                CrashNeedsOverlap, MainWalks, Newest, Places, KaWalks
  <2> QED
    BY <2>1, <2>2
<1>4. Taken' /\ NeverAstray'
  BY <1>1, <1>2 DEF Inv, Taken, NeverAstray, Newest
<1>5. OnceInOrder'
  BY <1>1, <1>2 DEF Inv, OnceInOrder, For, MainWalks
<1>6. MainWalk'
  <2>1. \A d, n : For(d, n)' = For(d, n)
    BY <1>1 DEF For
  <2>2. \A d : Passed(d)' = Passed(d)
    BY <1>1 DEF Passed, Places
  <2>3. Newest' = Newest /\ MainWalks' = MainWalks /\ Places' = Places
    BY <1>1 DEF Newest, MainWalks, Places
  <2> QED
    BY <1>1, <1>2, <2>1, <2>2, <2>3 DEF Inv, MainWalk, MainWalks
<1> QED
  BY <1>3, <1>4, <1>5, <1>6 DEF Inv

(* A new message, which nobody has yet. *)
LEMMA SayInv ==
    ASSUME Inv, NEW c \in Client, Say(c)
    PROVE  Inv'
<1>0. PICK n \in Nat : n = Newest
  BY DEF Inv, TypeOK, Newest
<1> DEFINE to == {d \in Client : Listed(d)} \ {c}
           message == [from |-> c, to |-> to]
<1>1. /\ server = "up" /\ main.at = "idle" /\ Listed(c) /\ n < MaxSay
      /\ log' = Append(log, message)
      /\ g_it' = 1 /\ main' = [at |-> "send", rc |-> connections[1]]
      /\ overlap' = (overlap \/ KaWalks) /\ rounds' = 0
      /\ UNCHANGED <<server, connections, ka, mails, shown, lost>>
  BY <1>0 DEF Say, client, Newest
<1>2. /\ log \in Seq([from : Client, to : SUBSET Client])
      /\ message \in [from : Client, to : SUBSET Client]
  BY DEF Inv, TypeOK, Newest
<1>3. /\ log' \in Seq([from : Client, to : SUBSET Client]) /\ Newest' = n + 1
      /\ log'[n + 1].from = c /\ log'[n + 1].to = to
      /\ \A i \in 1 .. n : log'[i] = log[i]
  <2>1. message.from = c /\ message.to = to
    OBVIOUS
  <2> HIDE DEF message
  <2> QED
    BY <1>0, <1>1, <1>2, <2>1, AppendProperties DEF Newest
<1>4. 1 \in Places /\ connections[1] \in Client
  BY <1>1, ListedAt, NotEmpty DEF Inv
<1>5. TypeOK' /\ Distinct'
  <2>1. overlap' \in BOOLEAN /\ rounds' \in 0 .. MaxRound
    BY <1>1, BroadcastAssumption
  <2>2. /\ main' \in [at : {"idle", "send", "look", "blocked"}, rc : Client \cup {NONE}]
        /\ main'.rc \in Client /\ g_it' \in Nat
    BY <1>1, <1>4
  <2>3. TypeOK'
    BY <1>1, <1>3, <2>1, <2>2 DEF Inv, TypeOK
  <2> QED
    BY <1>1, <2>3 DEF Inv, Distinct, Places
<1>6. Begun' /\ KaWalk' /\ Stopped' /\ Apart' /\ CrashNeedsOverlap'
  <2>1. Begun'
    BY <1>1, <1>3, BroadcastAssumption DEF Begun
  <2>2. ~overlap' => ~KaWalks'
    BY <1>1 DEF KaWalks
  <2>3. KaWalk' /\ Apart'
    BY <2>2 DEF KaWalk, Apart, MainWalks, KaWalks
  <2>4. Stopped' /\ CrashNeedsOverlap'
    BY <1>1 DEF Stopped, CrashNeedsOverlap
  <2> QED
    BY <2>1, <2>3, <2>4
<1>7. to = ToSet(connections) \ {c}
  <2>0. connections \in Seq(Client)
    BY DEF Inv, TypeOK
  <2>1. ToSet(connections) = {connections[i] : i \in Places} /\ \A i \in Places : connections[i] \in Client
    BY <2>0, ToSetFacts DEF Places
  <2> QED
    BY <2>1, ListedAt
<1>8. Addressed'
  <2>1. \A i \in Places : connections[i] = c \/ connections[i] \in to
    <3>1. \A i \in Places : connections[i] \in Client
      BY ToSetFacts DEF Inv, TypeOK, Places
    <3>2. \A i \in Places : Listed(connections[i])
      BY ListedAt
    <3> QED
      BY <3>1, <3>2
  <2> HIDE DEF to
  <2> QED
    BY <1>1, <1>3, <2>1 DEF Addressed, Places
<1>9. \A d \in Client : Got(d)' = Got(d)
  BY <1>1 DEF Got
<1>10. \A d \in Client : {i \in 1 .. n : d \in log'[i].to} = For(d, n)
  BY <1>3 DEF For
<1>11. Taken' /\ NeverAstray'
  <2>1. ASSUME NEW d \in Client, NEW i \in DOMAIN Got(d)
        PROVE  Got(d)[i] \in 1 .. n /\ log'[Got(d)[i]] = log[Got(d)[i]]
    <3>1. Got(d)[i] \in 1 .. n
      BY <1>0, GotType DEF Inv, Taken
    <3> QED
      BY <1>3, <3>1
  <2>2. Taken'
    <3>1. \A d \in Client : \A i \in 1 .. Len(Got(d)) : Got(d)[i] \in 1 .. n + 1
      BY <1>0 DEF Inv, Taken
    <3> QED
      BY <1>3, <1>9, <3>1 DEF Taken
  <2>3. NeverAstray'
    BY <1>9, <2>1 DEF Inv, NeverAstray
  <2> QED
    BY <2>2, <2>3
<1>12. ~overlap => \A d \in Client : IsOnceInOrder(Got(d), For(d, n))
  BY <1>0, <1>1 DEF Inv, OnceInOrder, Newest, MainWalks
<1>13. OnceInOrder'
  <2>1. MainWalks' /\ Len(log') - 1 = n
    BY <1>1, <1>3 DEF Newest, MainWalks
  <2>2. ~overlap' => \A d \in Client :
            IsOnceInOrder(Got(d)', {i \in 1 .. Len(log') - 1 : d \in log'[i].to})
    BY <1>1, <1>9, <1>10, <1>12, <2>1
  <2> QED
    BY <2>1, <2>2 DEF OnceInOrder, For, MainWalks
<1>14. MainWalk'
  <2> SUFFICES ASSUME ~overlap'
               PROVE  /\ log'[n + 1].to = ToSet(connections) \ {log'[n + 1].from}
                      /\ g_it' \in Places /\ main'.rc = connections[g_it']
                      /\ \A d \in Client :
                            IsOnceInOrder(Got(d), For(d, n) \cup
                               (IF Passed(d)' /\ d # log'[n + 1].from THEN {n + 1} ELSE {}))
    <3>1. Newest' - 1 = n /\ main'.at = "send"
      BY <1>1, <1>3
    <3>2. \A d \in Client : For(d, Newest - 1)' = For(d, n)
      BY <1>10, <3>1 DEF For
    <3> QED
      BY <1>1, <1>3, <1>9, <3>1, <3>2 DEF MainWalk, Places, MainWalks
  <2>1. \A d \in Client : ~Passed(d)'
    BY <1>1 DEF Passed, Places, Inv, TypeOK
  <2>2. \A d \in Client : For(d, n) \cup {} = For(d, n)
    OBVIOUS
  <2>3. g_it' \in Places /\ main'.rc = connections[g_it']
    BY <1>1, <1>4
  <2> QED
    BY <1>1, <1>3, <1>7, <1>12, <2>1, <2>2, <2>3
<1> QED
  BY <1>5, <1>6, <1>8, <1>11, <1>13, <1>14 DEF Inv

(* The message is sent to the next connection. *)
LEMMA SendOnInv ==
    ASSUME Inv, SendOn
    PROVE  Inv'
<1>0. PICK r \in Client, n \in Nat : r = main.rc /\ n = Newest
  BY DEF Inv, TypeOK, Newest, SendOn
<1> DEFINE from == log[n].from
<1>1. /\ server = "up" /\ main.at = "send"
      /\ g_it' = g_it + 1 /\ main' = [at |-> "look", rc |-> NONE]
      /\ UNCHANGED <<connections, ka, shown, log, overlap, lost, rounds>>
  BY DEF SendOn, At
<1>2. \/ Listed(r) /\ r = from /\ UNCHANGED <<mails, server>>
      \/ Listed(r) /\ r # from /\ AppendMail(r, n) /\ server' = server
      \/ ~Listed(r) /\ server' \in {"up", "crashed"} /\ UNCHANGED mails
  BY <1>0 DEF SendOn, Newest
<1>3. n \in 1 .. MaxSay /\ n \in Message /\ g_it \in Nat /\ g_it >= 1
  BY <1>0, <1>1, BroadcastAssumption DEF Inv, TypeOK, Begun, MainWalks, Newest, Message, KaWalks
<1>4. Newest' = n /\ \A d \in Client, k \in Int : For(d, k)' = For(d, k)
  BY <1>0, <1>1 DEF Newest, For
<1>5. \/ /\ Listed(r) /\ r # from /\ server' = server
         /\ mails' \in [Client -> Seq(Message)]
         /\ Got(r)' = Append(Got(r), n) /\ \A d \in Client \ {r} : Got(d)' = Got(d)
      \/ /\ r = from \/ ~Listed(r)
         /\ mails' = mails /\ \A d \in Client : Got(d)' = Got(d)
  <2>1. CASE Listed(r) /\ r # from /\ AppendMail(r, n) /\ server' = server
    BY <1>0, <1>1, <1>3, <2>1, MailGot DEF Inv
  <2>2. CASE (r = from \/ ~Listed(r)) /\ mails' = mails
    BY <1>1, <2>2 DEF Got
  <2> QED
    BY <1>2, <2>1, <2>2
<1>6. TypeOK' /\ Distinct'
  BY <1>1, <1>2, <1>3, <1>5 DEF Inv, TypeOK, Distinct, Places
<1>7. Begun' /\ Addressed' /\ KaWalk' /\ Stopped' /\ Apart'
  <2>1. Begun' /\ Apart' /\ Stopped'
    BY <1>0, <1>1, <1>2, <1>3, <1>4 DEF Inv, Begun, Apart, Stopped, MainWalks, KaWalks
  <2>2. Addressed'
    BY <1>0, <1>1, <1>2, <1>4 DEF Inv, Addressed, MainWalks, Places
  <2>3. ~overlap => ~KaWalks
    BY <1>1 DEF Inv, Apart, MainWalks, KaWalks
  <2>4. KaWalk'
    BY <1>1, <2>3 DEF KaWalk, KaWalks
  <2> QED
    BY <2>1, <2>2, <2>4
<1>8. ~overlap =>
         /\ log[n].to = ToSet(connections) \ {from}
         /\ g_it \in Places /\ r = connections[g_it] /\ Listed(r)
         /\ \A d \in Client :
               IsOnceInOrder(Got(d), For(d, n - 1) \cup
                  (IF Passed(d) /\ d # from THEN {n} ELSE {}))
  BY <1>0, <1>1, ListedAt DEF Inv, MainWalk, MainWalks
<1>9. CrashNeedsOverlap'
  BY <1>1, <1>2, <1>8 DEF Inv, CrashNeedsOverlap
(* r has no younger message, and is an addressee of this one. *)
<1>10. Listed(r) /\ r # from => r \in log[n].to
  BY <1>0, <1>1, ListedAt DEF Inv, Addressed, MainWalks
<1>11. Taken' /\ NeverAstray'
  <2>1. ASSUME NEW d \in Client, Got(d)' = Got(d)
        PROVE  /\ \A i \in 1 .. Len(Got(d)') : Got(d)'[i] \in 1 .. n
               /\ \A i \in DOMAIN Got(d)' :
                     /\ d \in log[Got(d)'[i]].to
                     /\ i > 1 => Got(d)'[i - 1] <= Got(d)'[i]
    BY <1>0, <2>1 DEF Inv, Taken, NeverAstray
  <2>2. ASSUME Listed(r), r # from, Got(r)' = Append(Got(r), n)
        PROVE  /\ \A i \in 1 .. Len(Got(r)') : Got(r)'[i] \in 1 .. n
               /\ \A i \in DOMAIN Got(r)' :
                     /\ r \in log[Got(r)'[i]].to
                     /\ i > 1 => Got(r)'[i - 1] <= Got(r)'[i]
    <3> DEFINE s == Got(r)
               t == Append(s, n)
    <3>1. s \in Seq(Nat) /\ Len(s) \in Nat /\ DOMAIN s = 1 .. Len(s)
      BY <1>3, GotType DEF Inv
    <3>2. /\ \A i \in 1 .. Len(s) : s[i] \in 1 .. n /\ r \in log[s[i]].to
          /\ \A i \in 1 .. Len(s) : i > 1 => s[i - 1] <= s[i]
      BY <1>0, <1>3, <3>1 DEF Inv, Taken, NeverAstray
    <3> HIDE DEF s
    <3>3. /\ Len(t) = Len(s) + 1 /\ DOMAIN t = 1 .. Len(s) + 1
          /\ t[Len(s) + 1] = n /\ \A i \in 1 .. Len(s) : t[i] = s[i]
      BY <1>3, <3>1, AppendProperties, LenProperties
    <3> HIDE DEF t
    <3>4. ASSUME NEW i \in 1 .. Len(s) + 1
          PROVE  t[i] \in 1 .. n /\ r \in log[t[i]].to /\ (i > 1 => t[i - 1] <= t[i])
      <4>1. CASE i \in 1 .. Len(s)
        <5>1. i > 1 => i - 1 \in 1 .. Len(s)
          BY <3>1, <4>1
        <5> QED
          BY <3>2, <3>3, <4>1, <5>1
      <4>2. CASE i = Len(s) + 1
        <5>1. i > 1 => i - 1 \in 1 .. Len(s)
          BY <3>1, <4>2
        <5>2. t[i] = n /\ (i > 1 => t[i - 1] \in 1 .. n)
          BY <3>2, <3>3, <4>2, <5>1
        <5> QED
          BY <1>3, <1>10, <2>2, <5>2
      <4> QED
        BY <3>1, <3>4, <4>1, <4>2
    <3> QED
      BY <2>2, <3>3, <3>4 DEF s, t
  <2>3. \A d \in Client : \/ Got(d)' = Got(d)
                          \/ d = r /\ Listed(r) /\ r # from /\ Got(r)' = Append(Got(r), n)
    BY <1>3, <1>5
  <2> QED
    BY <1>1, <1>4, <2>1, <2>2, <2>3 DEF Taken, NeverAstray
(* Without an overlap r had not been passed, and is now. *)
<1>12. ASSUME ~overlap, NEW d \in Client
       PROVE  IsOnceInOrder(Got(d)', For(d, n - 1) \cup
                 (IF Passed(d)' /\ d # from THEN {n} ELSE {}))
  <2>1. Passed(d)' <=> Passed(d) \/ d = r
    BY <1>1, <1>3, <1>8, <1>12 DEF Passed, Places, Inv, TypeOK
  <2>2. ~Passed(r)
    BY <1>3, <1>8, <1>12 DEF Passed, Inv, Distinct
  <2>3. CASE d = r /\ r # from
    <3>1. Got(d)' = Append(Got(d), n) /\ IsOnceInOrder(Got(d), For(d, n - 1))
      <4>1. Got(d)' = Append(Got(d), n)
        BY <1>5, <1>8, <1>12, <2>3
      <4>2. For(d, n - 1) \cup {} = For(d, n - 1)
        OBVIOUS
      <4> QED
        BY <1>8, <1>12, <2>2, <2>3, <4>1, <4>2
    <3>2. \A i \in For(d, n - 1) : i < n
      BY <1>3 DEF For
    <3>3. IsOnceInOrder(Append(Got(d), n), For(d, n - 1) \cup {n})
      BY <1>3, <3>1, <3>2, Newer, GotType DEF Inv
    <3> QED
      BY <2>1, <2>3, <3>1, <3>3
  <2>4. CASE ~(d = r /\ r # from)
    <3>1. Got(d)' = Got(d)
      BY <1>5, <1>8, <1>12, <2>4
    <3> QED
      BY <1>8, <1>12, <2>1, <2>4, <3>1
  <2> QED
    BY <2>3, <2>4
<1>13. MainWalk'
  <2>1. n - 1 \in Int
    BY <1>3
  <2> SUFFICES ASSUME ~overlap
               PROVE  /\ log[n].to = ToSet(connections) \ {from}
                      /\ g_it' <= Len(connections) + 1
                      /\ \A d \in Client :
                            IsOnceInOrder(Got(d)', For(d, n - 1) \cup
                               (IF Passed(d)' /\ d # from THEN {n} ELSE {}))
    BY <1>1, <1>4, <2>1 DEF MainWalk, MainWalks
  <2> QED
    <3>1. Len(connections) \in Nat
      BY DEF Inv, TypeOK
    <3>2. g_it' <= Len(connections) + 1
      BY <1>1, <1>3, <1>8, <3>1 DEF Places
    <3> QED
      BY <1>8, <1>12, <3>2
<1>14. OnceInOrder'
  <2> SUFFICES ASSUME ~overlap, NEW d \in Client
               PROVE  \/ IsOnceInOrder(Got(d)', For(d, n))
                      \/ IsOnceInOrder(Got(d)', For(d, n - 1))
    <3>1. n - 1 \in Int /\ n \in Int
      BY <1>3
    <3> QED
      BY <1>0, <1>1, <1>4, <3>1 DEF OnceInOrder, Newest, For, MainWalks
  <2>1. Passed(d)' /\ d # from => d \in log[n].to
    <3>1. ToSet(connections) = {connections[i] : i \in Places}
      BY ToSetFacts DEF Places, Inv, TypeOK
    <3>2. Passed(d)' => \E i \in Places : connections[i] = d
      BY <1>1 DEF Passed, Places
    <3> QED
      BY <1>8, <3>1, <3>2
  <2>2. d \in log[n].to => For(d, n) = For(d, n - 1) \cup {n}
    BY <1>3 DEF For
  <2>3. For(d, n - 1) \cup {} = For(d, n - 1)
    OBVIOUS
  <2> QED
    BY <1>12, <2>1, <2>2, <2>3
<1> QED
  BY <1>6, <1>7, <1>9, <1>11, <1>13, <1>14 DEF Inv

LEMMA MainLookInv ==
    ASSUME Inv, MainLook
    PROVE  Inv'
<1>0. PICK n \in Nat : n = Newest
  BY DEF Inv, TypeOK, Newest
<1> DEFINE from == log[n].from
<1>1. /\ server = "up" /\ main.at = "look"
      /\ IF PastTheEnd THEN server' = "crashed" /\ UNCHANGED main
         ELSE main' = NextConnection("idle") /\ UNCHANGED server
      /\ UNCHANGED <<connections, g_it, ka, mails, shown, log, overlap, lost, rounds>>
  BY DEF MainLook, client
<1>2. n >= 1 /\ g_it >= 1
  BY <1>0, <1>1 DEF Inv, TypeOK, Begun, MainWalks, Newest, KaWalks
<1>3. \/ server' = "crashed" /\ main' = main /\ PastTheEnd
      \/ /\ g_it = Len(connections) + 1
         /\ server' = server /\ main' = [at |-> "idle", rc |-> NONE]
      \/ /\ g_it \in Places /\ connections[g_it] \in Client
         /\ server' = server /\ main' = [at |-> "send", rc |-> connections[g_it]]
  BY <1>1, <1>2, NextFacts DEF At
<1>4. TypeOK' /\ Distinct'
  <2>1. main' \in [at : {"idle", "send", "look", "blocked"}, rc : Client \cup {NONE}]
    BY <1>3 DEF Inv, TypeOK
  <2>2. server' \in {"up", "stopping", "exited", "crashed"}
    BY <1>1, <1>3
  <2>3. main'.at = "send" => main'.rc \in Client
    BY <1>3 DEF Inv, TypeOK
  <2>4. TypeOK'
    BY <1>1, <2>1, <2>2, <2>3 DEF Inv, TypeOK
  <2>5. Distinct'
    BY <1>1 DEF Inv, Distinct, Places
  <2> QED
    BY <2>4, <2>5
<1>5. ~overlap =>
         /\ log[n].to = ToSet(connections) \ {from} /\ ~PastTheEnd /\ ~KaWalks
         /\ \A d \in Client :
               IsOnceInOrder(Got(d), For(d, n - 1) \cup
                  (IF Passed(d) /\ d # from THEN {n} ELSE {}))
  <2> SUFFICES ASSUME ~overlap PROVE ~PastTheEnd
    BY <1>0, <1>1 DEF Inv, MainWalk, Apart, MainWalks, KaWalks
  <2>1. g_it <= Len(connections) + 1 /\ Len(connections) \in Nat /\ g_it \in Nat
    BY <1>1 DEF Inv, MainWalk, MainWalks, TypeOK
  <2> QED
    BY <2>1 DEF PastTheEnd
<1>6. Begun' /\ Addressed' /\ Apart' /\ KaWalk' /\ Stopped' /\ CrashNeedsOverlap'
  BY <1>1, <1>3, <1>5 DEF Inv, Begun, Addressed, Apart, KaWalk, Stopped,
              CrashNeedsOverlap, MainWalks, Newest, Places, KaWalks
<1>7. Newest' = n /\ (\A d \in Client : Got(d)' = Got(d)) /\ \A d \in Client, k \in Int : For(d, k)' = For(d, k)
  BY <1>0, <1>1, NothingGot
<1>8. MainWalk'
  <2>1. \A d \in Client : Passed(d)' <=> Passed(d)
    BY <1>1 DEF Passed, Places
  <2>2. n - 1 \in Int
    BY <1>2
  <2>3. CASE main'.at = "send"
    <3>1. g_it \in Places /\ main'.rc = connections[g_it]
      BY <1>1, <1>3, <2>3
    <3> QED
      BY <1>1, <1>5, <1>7, <2>1, <2>2, <2>3, <3>1 DEF MainWalk, Places, MainWalks
  <2>4. CASE main'.at # "send"
    BY <1>1, <1>3, <2>4 DEF MainWalk, MainWalks
  <2> QED
    BY <2>3, <2>4
<1>9. Taken' /\ NeverAstray'
  BY <1>1, NothingGot DEF Inv
(* Who has been passed by a walk at its end is who is on the list. *)
<1>10. OnceInOrder'
  <2> SUFFICES ASSUME ~overlap, NEW d \in Client
               PROVE  \/ IsOnceInOrder(Got(d), For(d, n))
                      \/ MainWalks' /\ IsOnceInOrder(Got(d), For(d, n - 1))
    <3>1. n - 1 \in Int /\ n \in Int
      BY <1>2
    <3> QED
      BY <1>0, <1>1, <1>7, <3>1 DEF OnceInOrder, Newest, For, MainWalks
  <2>1. CASE MainWalks'
    BY <1>0, <1>1, <2>1 DEF Inv, OnceInOrder, Newest, MainWalks
  <2>2. CASE ~MainWalks'
    <3>1. g_it = Len(connections) + 1
      BY <1>1, <1>3, <1>5, <2>2 DEF MainWalks
    <3>2. Passed(d) <=> d \in ToSet(connections)
      <4>1. ToSet(connections) = {connections[i] : i \in Places} /\ Len(connections) \in Nat
        <5>1. connections \in Seq(Client)
          BY DEF Inv, TypeOK
        <5> QED
          BY <5>1, ToSetFacts DEF Places
      <4>2. \A i \in Places : i < g_it
        BY <3>1, <4>1 DEF Places
      <4> QED
        BY <4>1, <4>2 DEF Passed
    <3>3. For(d, n) = For(d, n - 1) \cup (IF d \in log[n].to THEN {n} ELSE {})
      BY <1>2 DEF For
    <3> QED
      BY <1>5, <3>2, <3>3
  <2> QED
    BY <2>1, <2>2
<1> QED
  BY <1>4, <1>6, <1>8, <1>9, <1>10 DEF Inv

-----------------------------------------------------------------------------
(* The invariant, and what follows from it. *)

LEMMA InitInv == Init => Inv
<1> SUFFICES ASSUME Init PROVE Inv
  OBVIOUS
<1>1. TypeOK
  <2>1. <<>> \in Seq(Client) /\ <<>> \in Seq(Message) /\ <<>> \in Seq([from : Client, to : SUBSET Client])
    BY EmptySeq
  <2>2. /\ main = [at |-> "idle", rc |-> NONE] /\ ka = [at |-> "sleep", rc |-> NONE]
        /\ 0 \in 0 .. MaxRound
    BY BroadcastAssumption DEF Init, At
  <2>3. /\ main \in [at : {"idle", "send", "look", "blocked"}, rc : Client \cup {NONE}]
        /\ ka \in [at : {"sleep", "send", "look", "ended", "locking"}, rc : Client \cup {NONE}]
        /\ main.at # "send" /\ ka.at # "send"
    BY <2>2
  <2>4. /\ mails \in [Client -> Seq(Message)] /\ shown \in [Client -> Seq(Message)]
        /\ log \in Seq([from : Client, to : SUBSET Client])
        /\ connections \in Seq(Client) /\ lost \in Seq(Client)
    BY <2>1 DEF Init
  <2>5. server = "up" /\ g_it = 0 /\ overlap = FALSE /\ rounds \in 0 .. MaxRound
    BY <2>2 DEF Init
  <2> QED
    BY <2>3, <2>4, <2>5 DEF TypeOK
<1>2. Distinct /\ Begun /\ Addressed /\ Apart /\ MainWalk /\ KaWalk /\ Stopped /\ CrashNeedsOverlap
  BY BroadcastAssumption DEF Init, Distinct, Places, Begun, Addressed, Apart, MainWalk, KaWalk,
                             Stopped, CrashNeedsOverlap, MainWalks, Newest, At, KaWalks
<1>3. \A c \in Client : Got(c) = <<>> /\ For(c, Len(log)) = {}
  BY DEF Init, Got, For
<1>4. Taken /\ NeverAstray
  BY <1>3 DEF Taken, NeverAstray
<1>5. OnceInOrder
  <2>1. ToSet(<<>>) = {} /\ Len(<<>>) = 0
    BY DEF ToSet
  <2> QED
    BY <1>3, <2>1 DEF OnceInOrder, IsOnceInOrder, MainWalks
<1> QED
  BY <1>1, <1>2, <1>4, <1>5 DEF Inv

LEMMA StepInv == Inv /\ [Next]_vars => Inv'
<1> SUFFICES ASSUME Inv, [Next]_vars PROVE Inv'
  OBVIOUS
<1>1. ASSUME NEW c \in Client, Connect(c) \/ Blocked(c) \/ Say(c) \/ Disconnect(c)
      PROVE  Inv'
  BY <1>1, ConnectInv, BlockedInv, SayInv, DisconnectInv
<1>2. ASSUME NEW c \in Client, NEW count \in 1 .. MaxSay, Show(c, count)
      PROVE  Inv'
  BY <1>2, ShowInv
<1>3. CASE SendOn \/ MainLook \/ Stop \/ Exit \/ KaWake \/ KaSend \/ KaLook
           \/ StopInKeepAlive
  BY <1>3, SendOnInv, MainLookInv, StopInv, ExitInv, KaWakeInv, KaSendInv, KaLookInv,
     StopInKeepAliveInv
<1>4. CASE UNCHANGED vars
  <2>1. UNCHANGED <<server, connections, g_it, main, ka, mails, shown, log, overlap, lost, rounds>>
    BY <1>4 DEF vars, client
  <2>2. Taken' /\ NeverAstray' /\ OnceInOrder'
    BY <2>1, NothingGot DEF Inv, OnceInOrder, Newest, TypeOK, MainWalks
  <2>3. /\ TypeOK' /\ Distinct' /\ Begun' /\ Addressed' /\ Apart' /\ KaWalk' /\ Stopped'
        /\ CrashNeedsOverlap'
    <3>1. TypeOK'
      BY <2>1 DEF Inv, TypeOK
    <3>2. Distinct' /\ Begun' /\ Addressed'
      BY <2>1 DEF Inv, Distinct, Places, Begun, Addressed, MainWalks, Newest, KaWalks
    <3>3. Apart' /\ KaWalk' /\ Stopped' /\ CrashNeedsOverlap'
      BY <2>1 DEF Inv, Places, Apart, KaWalk, Stopped, CrashNeedsOverlap, MainWalks, KaWalks
    <3> QED
      BY <3>1, <3>2, <3>3
  <2>4. MainWalk'
    BY <2>1 DEF Inv, MainWalk, MainWalks, Newest, For, Got, Passed, Places
  <2> QED
    BY <2>2, <2>3, <2>4 DEF Inv
<1> QED
  BY <1>1, <1>2, <1>3, <1>4 DEF Next

LEMMA InvAlways == Spec => []Inv
  BY InitInv, StepInv, PTL DEF Spec

(* Every variable has its type. *)
THEOREM TypeCorrect == Spec => []TypeOK
<1>1. Inv => TypeOK
  BY DEF Inv
<1> QED
  BY <1>1, InvAlways, PTL

(* As long as walks have not overlapped every user gets every message of   *)
(* the others once, in the server's order.                                 *)
THEOREM OnceInOrderAlways == Spec => []OnceInOrder
<1>1. Inv => OnceInOrder
  BY DEF Inv
<1> QED
  BY <1>1, InvAlways, PTL

(* However the walks overlap, and whatever connections are lost, nobody    *)
(* gets what is not for him, or an older message after a newer one.        *)
THEOREM NeverAstrayAlways == Spec => []NeverAstray
<1>1. Inv => NeverAstray
  BY DEF Inv
<1> QED
  BY <1>1, InvAlways, PTL

(* Without an overlap and without a lost connection no walk leaves the     *)
(* list or finds a deleted connection.                                     *)
THEOREM CrashNeedsOverlapAlways == Spec => []CrashNeedsOverlap
<1>1. Inv => CrashNeedsOverlap
  BY DEF Inv
<1> QED
  BY <1>1, InvAlways, PTL

=============================================================================
