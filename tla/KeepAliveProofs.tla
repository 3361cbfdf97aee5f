--------------------------- MODULE KeepAliveProofs ---------------------------
(***************************************************************************)
(* Proofs about KeepAlive.  A connection's silence is bounded by its place *)
(* in the list: a round that misses it has moved it one place towards the  *)
(* front, or has been disturbed by a walk of SAY; so what it may still     *)
(* miss, what was disturbed and the time since it was last visited make up *)
(* its slack.                                                              *)
(***************************************************************************)
EXTENDS KeepAlive, TLAPS

-----------------------------------------------------------------------------
(* The inductive invariant. *)

Times(n) == ROUND * n

(* The round has still to come by place i. *)
Coming(i) == IF ka.at = "send" THEN connections[i] = ka.rc \/ i > g_it ELSE i >= g_it

(* Seconds since the walk has last come by place i; ROUND when it has not  *)
(* been there in this round.  A round that is disturbed counts already.    *)
Pend(i) == IF ~KaWalks THEN slept
           ELSE IF Coming(i) /\ ~overlap THEN ROUND ELSE 0

(* What the connection c in place i may still miss, and has waited. *)
Slack(c, i) == Times(MaxConnections - i + disturbed[c]) + Pend(i)

(* Visits up to the next KEEPALIVE. *)
Left(c) == IF count[c] = 0 THEN 1 ELSE count[c]

(* Rounds up to the second KEEPALIVE. *)
Rounds(c) == ALIVE_TIME + MaxConnections - 1 + disturbed[c]

ListOK ==
    /\ Len(connections) <= MaxConnections
    /\ \A i, j \in Places : connections[i] = connections[j] => i = j
    /\ \A i \in Places : life[connections[i]] # "off"

(* Rounds take no time, and walks that overlap are known to. *)
WalksOK ==
    /\ KaWalks => slept = 0
    /\ KaWalks /\ SayWalks => overlap

Timely(c, i) ==
    /\ silence[c] <= DEAD_TIME + Slack(c, i)
    /\ asked[c] = NotAsked => silence[c] <= Times(ALIVE_TIME - Left(c)) + Slack(c, i)
    /\ asked[c] # NotAsked /\ life[c] = "up" =>
          /\ asked[c] <= DELAY
          /\ silence[c] <= Times(Rounds(c)) + asked[c]

AllTimely == \A i \in Places : Timely(connections[i], i)

(* A walk is at a connection that is listed, or has just gone on from one. *)
OnList(walk) ==
    /\ walk.at = "send" => g_it \in Places /\ connections[g_it] = walk.rc
    /\ walk.at = "look" => g_it <= Len(connections) + 1

(* As long as nobody is lost, the threads' pointers are good. *)
Aligned ==
    server = "up" /\ ~Lost =>
        /\ main # NONE => Registered(main[1])
        /\ ~overlap => OnList(ka) /\ OnList(say)

Inv == /\ TypeOK
       /\ ListOK
       /\ WalksOK
       /\ AllTimely
       /\ Aligned
       /\ CrashNeedsLoss

-----------------------------------------------------------------------------
(* Rounds.  Products with a constant that is not known are kept out of the *)
(* steps below, which use these facts only.                                *)

LEMMA TimesType == \A n \in Int : Times(n) \in Int
  BY KeepAliveAssumption DEF Times

LEMMA TimesNext == \A n \in Int : Times(n + 1) = Times(n) + ROUND
  BY KeepAliveAssumption DEF Times

LEMMA TimesNat == \A n \in Nat : Times(n) >= 0
  BY KeepAliveAssumption DEF Times

LEMMA TimesSum == \A m, n \in Int : Times(m + n) = Times(m) + Times(n)
  BY KeepAliveAssumption DEF Times

LEMMA TimesMonotone == \A m, n \in Int : m <= n => Times(m) <= Times(n)
<1> SUFFICES ASSUME NEW m \in Int, NEW n \in Int, m <= n
             PROVE  Times(m) <= Times(n)
  OBVIOUS
<1>1. n - m \in Nat /\ n = m + (n - m)
  OBVIOUS
<1>2. Times(n) = Times(m) + Times(n - m)
  BY <1>1, TimesSum
<1> QED
  BY <1>1, <1>2, TimesNat, TimesType

-----------------------------------------------------------------------------
(* The list. *)

LEMMA RegisteredAt ==
    ASSUME connections \in Seq(Client), NEW c
    PROVE  Registered(c) <=> \E i \in Places : connections[i] = c
  BY DEF Registered, Places, ToSet

LEMMA AppendFacts ==
    ASSUME connections \in Seq(Client), NEW c \in Client,
           connections' = Append(connections, c)
    PROVE  /\ \A i \in Places : i \in Places' /\ connections'[i] = connections[i]
           /\ \A i \in Places' : \/ i \in Places
                                 \/ i = Len(connections) + 1 /\ connections'[i] = c
<1>1. Len(connections') = Len(connections) + 1 /\ Len(connections) \in Nat
  OBVIOUS
<1>2. Places = 1 .. Len(connections) /\ Places' = 1 .. Len(connections) + 1
  BY <1>1 DEF Places
<1>3. ASSUME NEW i \in 1 .. Len(connections) PROVE connections'[i] = connections[i]
  OBVIOUS
<1>4. connections'[Len(connections) + 1] = c
  OBVIOUS
<1> QED
  BY <1>1, <1>2, <1>3, <1>4

LEMMA RemoveFacts ==
    ASSUME NEW s \in Seq(Client), NEW i \in 1 .. Len(s)
    PROVE  /\ RemoveAt(s, i) \in Seq(Client)
           /\ Len(RemoveAt(s, i)) = Len(s) - 1
           /\ \A j \in 1 .. Len(s) - 1 :
                 RemoveAt(s, i)[j] = IF j < i THEN s[j] ELSE s[j + 1]
<1> DEFINE front == SubSeq(s, 1, i - 1)
           back == SubSeq(s, i + 1, Len(s))
<1>1. /\ front \in Seq(Client) /\ Len(front) = i - 1
      /\ \A j \in 1 .. i - 1 : front[j] = s[j]
  OBVIOUS
<1>2. /\ back \in Seq(Client) /\ Len(back) = Len(s) - i
      /\ \A j \in 1 .. Len(s) - i : back[j] = s[j + i]
  OBVIOUS
<1>3. RemoveAt(s, i) = front \o back
  BY DEF RemoveAt
<1> HIDE DEF front, back
<1>4. RemoveAt(s, i) \in Seq(Client) /\ Len(RemoveAt(s, i)) = Len(s) - 1
  BY <1>1, <1>2, <1>3
<1>5. ASSUME NEW j \in 1 .. Len(s) - 1, j < i
      PROVE  RemoveAt(s, i)[j] = s[j]
  BY <1>1, <1>2, <1>3, <1>5
<1>6. ASSUME NEW j \in 1 .. Len(s) - 1, ~(j < i)
      PROVE  RemoveAt(s, i)[j] = s[j + 1]
  <2>1. j - (i - 1) \in 1 .. Len(s) - i /\ j - (i - 1) + i = j + 1
    BY <1>6
  <2>2. back[j - (i - 1)] = s[j + 1]
    BY <2>1, <1>2
  <2>3. (front \o back)[j] = back[j - (i - 1)]
    BY <1>1, <1>2, <1>6
  <2> QED
    BY <2>2, <2>3, <1>3
<1> QED
  BY <1>4, <1>5, <1>6

(* What close_connection does to the list. *)
LEMMA CloseFacts ==
    ASSUME connections \in Seq(Client), NEW c \in Client, Close(c)
    PROVE  \E i \in Places :
              /\ connections[i] = c
              /\ connections' \in Seq(Client)
              /\ Len(connections') = Len(connections) - 1
              /\ \A j \in Places' :
                    connections'[j] = IF j < i THEN connections[j] ELSE connections[j + 1]
<1>1. PICK i \in Places : connections[i] = c /\ connections' = RemoveAt(connections, i)
  BY DEF Close, Places
<1>2. /\ RemoveAt(connections, i) \in Seq(Client)
      /\ Len(RemoveAt(connections, i)) = Len(connections) - 1
      /\ \A j \in 1 .. Len(connections) - 1 :
            RemoveAt(connections, i)[j] = IF j < i THEN connections[j] ELSE connections[j + 1]
  BY RemoveFacts DEF Places
<1> QED
  BY <1>1, <1>2 DEF Places

-----------------------------------------------------------------------------
(* Types. *)

(* The actions are large; what TypeOK says of each variable is named. *)
Clocks == /\ silence \in [Client -> Nat]
          /\ count \in [Client -> 0 .. ALIVE_TIME]
          /\ asked \in [Client -> Nat \cup {NotAsked}]
          /\ disturbed \in [Client -> Nat]
Walks == /\ g_it \in Nat
         /\ ka \in [at : {"sleep", "send", "look"}, rc : Client \cup {NONE}]
         /\ say \in [at : {"no", "send", "look"}, rc : Client \cup {NONE}]
         /\ main \in (Client \X Packet) \cup {NONE}
         /\ KaWalks \/ SayWalks => g_it >= 1
         /\ ka.at = "send" => ka.rc \in Client
         /\ say.at = "send" => say.rc \in Client
         /\ SayWalks => main # NONE /\ main \in Client \X {"SAY"}
Rest == /\ server \in {"up", "crashed"}
        /\ connections \in Seq(Client)
        /\ slept \in 0 .. ROUND
        /\ life \in [Client -> {"off", "up", "slow", "gone", "cut"}]
        /\ overlap \in BOOLEAN
        /\ meetings \in 0 .. MaxMeet

LEMMA TypeParts == TypeOK <=> Clocks /\ Walks /\ Rest
  BY DEF TypeOK, Clocks, Walks, Rest

LEMMA TypeInit == Init => TypeOK
<1> SUFFICES ASSUME Init PROVE TypeOK
  OBVIOUS
<1>1. /\ ~KaWalks /\ ~SayWalks
      /\ ka \in [at : {"sleep", "send", "look"}, rc : Client \cup {NONE}]
      /\ say \in [at : {"no", "send", "look"}, rc : Client \cup {NONE}]
      /\ ka.at # "send" /\ say.at # "send"
  BY DEF Init, Walking, KaWalks, SayWalks
<1>2. /\ silence \in [Client -> Nat] /\ count \in [Client -> 0 .. ALIVE_TIME]
      /\ asked \in [Client -> Nat \cup {NotAsked}] /\ disturbed \in [Client -> Nat]
      /\ life \in [Client -> {"off", "up", "slow", "gone", "cut"}]
      /\ slept \in 0 .. ROUND /\ meetings \in 0 .. MaxMeet
  BY KeepAliveAssumption DEF Init
<1>3. Clocks
  BY <1>2 DEF Clocks
<1>4. Walks
  BY <1>1 DEF Init, Walks
<1>5. Rest
  <2>1. connections = <<>> /\ connections \in Seq(Client)
    BY DEF Init
  <2> QED
    BY <1>2, <2>1 DEF Init, Rest
<1> QED
  BY <1>3, <1>4, <1>5, TypeParts

LEMMA FreshType ==
    ASSUME TypeOK, NEW c \in Client, Fresh(c)
    PROVE  /\ silence' \in [Client -> Nat]
           /\ count' \in [Client -> 0 .. ALIVE_TIME]
           /\ asked' \in [Client -> Nat \cup {NotAsked}]
           /\ disturbed' \in [Client -> Nat]
  BY KeepAliveAssumption DEF TypeOK, Fresh

LEMMA WalkType ==
    ASSUME TypeOK, g_it >= 1, ~PastTheEnd, NEW done \in {"no", "sleep"}
    PROVE  \/ NextConnection(done) = Walking(done, NONE) /\ g_it = Len(connections) + 1
           \/ /\ g_it \in Places /\ connections[g_it] \in Client
              /\ NextConnection(done) = Walking("send", connections[g_it])
<1>1. Len(connections) \in Nat /\ g_it \in Nat
  BY DEF TypeOK
<1>2. CASE g_it = Len(connections) + 1
  BY <1>2 DEF NextConnection
<1>3. CASE g_it # Len(connections) + 1
  <2>1. g_it \in 1 .. Len(connections)
    BY <1>1, <1>3 DEF PastTheEnd
  <2>2. connections[g_it] \in Client
    BY <2>1 DEF TypeOK
  <2> QED
    BY <1>3, <2>1, <2>2 DEF NextConnection, Places
<1> QED
  BY <1>2, <1>3

LEMMA WalksSame ==
    ASSUME Walks, UNCHANGED threads
    PROVE  Walks'
  BY DEF Walks, threads, KaWalks, SayWalks

LEMMA FirstType ==
    ASSUME TypeOK, NEW during \in BOOLEAN, NEW round \in BOOLEAN, First(during, round)
    PROVE  /\ g_it' = 1 /\ overlap' = during
           /\ disturbed' \in [Client -> Nat]
           /\ meetings' \in 0 .. MaxMeet
           /\ \A c \in Client :
                 Registered(c) => /\ disturbed'[c] >= disturbed[c]
                                  /\ (during /\ round) => (disturbed'[c] = disturbed[c] + 1)
<1>1. /\ disturbed \in [Client -> Nat] /\ meetings \in 0 .. MaxMeet /\ MaxMeet \in Nat
      /\ during => meetings < MaxMeet
      /\ meetings' = IF during THEN meetings + 1 ELSE meetings
      /\ g_it' = 1 /\ overlap' = during
  BY KeepAliveAssumption DEF TypeOK, First
<1>2. CASE during /\ round
  <2>1. disturbed' = [c \in Client |-> IF Registered(c) THEN disturbed[c] + 1 ELSE 0]
    BY <1>2 DEF First
  <2> QED
    BY <1>1, <2>1
<1>3. CASE ~(during /\ round)
  <2>1. disturbed' = disturbed
    BY <1>3 DEF First
  <2> QED
    BY <1>1, <1>3, <2>1
<1> QED
  BY <1>2, <1>3

LEMMA SendToType ==
    ASSUME NEW c, SendTo(c)
    PROVE  /\ server' \in {"up", "crashed"}
           /\ server' = "crashed" => ~Registered(c) \/ life[c] = "gone"
  BY DEF SendTo

LEMMA TypeNext == TypeOK /\ [Next]_vars => TypeOK'
<1> SUFFICES ASSUME TypeOK, [Next]_vars PROVE Clocks' /\ Walks' /\ Rest'
  BY DEF TypeOK, Clocks, Walks, Rest
<1>0. /\ ROUND \in Nat /\ ALIVE_TIME \in 0 .. ALIVE_TIME /\ ALIVE_TIME \in Nat
      /\ Clocks /\ Walks /\ Rest
  BY KeepAliveAssumption, TypeParts
<1>1. ASSUME NEW c \in Client, Connect(c) PROVE Clocks' /\ Walks' /\ Rest'
  <2>1. connections' \in Seq(Client)
    BY <1>1 DEF TypeOK, Connect
  <2>2. Clocks'
    BY <1>1, FreshType DEF Connect, Clocks
  <2>3. Walks'
    BY <1>0, <1>1, WalksSame DEF Connect
  <2> QED
    BY <1>0, <1>1, <2>1, <2>2, <2>3 DEF Rest, Connect, threads
<1>2. ASSUME NEW c \in Client, SlowDown(c) \/ Leave(c) PROVE Clocks' /\ Walks' /\ Rest'
  <2>1. Walks'
    BY <1>0, <1>2, WalksSame DEF SlowDown, Leave
  <2> QED
    BY <1>0, <1>2, <2>1 DEF SlowDown, Leave, Clocks, Rest, threads, history
<1>3. ASSUME NEW c \in Client, NEW type \in Packet, MainRead(c, type)
      PROVE  Clocks' /\ Walks' /\ Rest'
  <2>1. /\ ~SayWalks /\ main' = <<c, type>>
        /\ UNCHANGED <<server, connections, g_it, ka, slept, say, life, silence, count, asked, history>>
    BY <1>0, <1>3 DEF MainRead, Walks
  <2>2. Walks'
    BY <1>0, <2>1 DEF Walks, KaWalks, SayWalks
  <2> QED
    BY <1>0, <2>1, <2>2 DEF Clocks, Rest, history
<1>4. ASSUME NEW c \in Client, MainDisconnect(c) PROVE Clocks' /\ Walks' /\ Rest'
  <2>1. Close(c)
    BY <1>4 DEF MainDisconnect
  <2>2. connections' \in Seq(Client)
    BY <2>1, CloseFacts DEF TypeOK
  <2>3. Clocks'
    BY <2>1, FreshType DEF Close, Clocks
  <2>4. Walks'
    BY <1>0, <1>4, WalksSame DEF MainDisconnect
  <2> QED
    BY <1>0, <1>4, <2>2, <2>3, <2>4 DEF Rest, MainDisconnect, threads
<1>5. CASE MainDeal
  <2>1. /\ main \in Client \X Packet /\ main[1] \in Client
        /\ main' = NONE /\ ~SayWalks
        /\ UNCHANGED <<g_it, ka, say, slept, connections, life, count, overlap, meetings>>
    <3>1. main # NONE /\ main[2] # "SAY"
      BY <1>5 DEF MainDeal
    <3>2. main \in Client \X Packet /\ main[1] \in Client
      BY <3>1 DEF TypeOK
    <3>3. ~SayWalks
      <4>1. main \notin Client \X {"SAY"}
        BY <3>1
      <4> QED
        BY <4>1, <1>0 DEF Walks
    <3> QED
      BY <1>5, <3>2, <3>3 DEF MainDeal
  <2>2. Walks'
    BY <1>0, <2>1 DEF Walks, KaWalks, SayWalks
  <2>3. Clocks'
    <3>1. \/ UNCHANGED <<silence, asked, disturbed>>
          \/ /\ silence' = [silence EXCEPT ![main[1]] = 0]
             /\ asked' = [asked EXCEPT ![main[1]] = NotAsked]
             /\ disturbed' = [disturbed EXCEPT ![main[1]] = 0]
      BY <1>5 DEF MainDeal
    <3> QED
      BY <1>0, <2>1, <3>1 DEF Clocks
  <2>4. server' \in {"up", "crashed"}
    BY <1>0, <1>5, SendToType DEF MainDeal, Rest
  <2> QED
    BY <1>0, <2>1, <2>2, <2>3, <2>4 DEF Rest
<1>6. CASE Second
  <2>1. slept' \in 0 .. ROUND
    BY <1>0, <1>6 DEF TypeOK, Second
  <2>2. silence' \in [Client -> Nat]
    BY <1>0, <1>6 DEF Clocks, Second
  <2>3. asked' \in [Client -> Nat \cup {NotAsked}]
    BY <1>0, <1>6 DEF Clocks, Second, NotAsked
  <2>4. Walks'
    BY <1>0, <1>6 DEF Second, Walks, KaWalks, SayWalks
  <2> QED
    BY <1>0, <1>6, <2>1, <2>2, <2>3, <2>4 DEF Second, Clocks, Rest, history
<1>7. CASE Wake
  <2>1. CASE connections = <<>>
    BY <1>0, <1>7, <2>1 DEF Wake, Clocks, Walks, Rest, history, KaWalks, SayWalks
  <2>2. CASE connections # <<>>
    <3>1. connections[1] \in Client
      BY <2>2 DEF TypeOK
    <3>2. First(SayWalks, TRUE) /\ ka' = Walking("send", connections[1])
          /\ slept' = 0 /\ UNCHANGED <<server, connections, main, say, life, silence, count, asked>>
      BY <1>7, <2>2 DEF Wake
    <3>3. /\ g_it' = 1 /\ overlap' = SayWalks /\ disturbed' \in [Client -> Nat]
          /\ meetings' \in 0 .. MaxMeet
      BY <3>2, FirstType DEF SayWalks
    <3>4. overlap' \in BOOLEAN
      BY <3>3 DEF SayWalks
    <3>5. Walks'
      BY <1>0, <3>1, <3>2, <3>3 DEF Walks, Walking, KaWalks, SayWalks
    <3>6. Clocks'
      BY <1>0, <3>2, <3>3 DEF Clocks
    <3>7. Rest'
      BY <1>0, <3>2, <3>3, <3>4 DEF Rest
    <3> QED
      BY <3>5, <3>6, <3>7
  <2> QED
    BY <2>1, <2>2
<1>8. CASE KaSend
  <2>1. ka.rc \in Client /\ UNCHANGED <<slept, main, say, overlap, meetings>>
    BY <1>8 DEF TypeOK, KaSend
  <2>2. /\ connections' \in Seq(Client) /\ Clocks' /\ server' \in {"up", "crashed"}
        /\ life' \in [Client -> {"off", "up", "slow", "gone", "cut"}]
    <3>1. CASE CloseExpired
      <4>1. Close(ka.rc) /\ server' = server
        BY <3>1 DEF CloseExpired
      <4>2. life' \in [Client -> {"off", "up", "slow", "gone", "cut"}]
        BY <1>0, <2>1, <3>1 DEF CloseExpired, Rest
      <4>3. connections' \in Seq(Client)
        BY <2>1, <4>1, CloseFacts DEF TypeOK
      <4>4. Clocks'
        BY <2>1, <4>1, FreshType DEF Close, Clocks
      <4> QED
        BY <1>0, <4>1, <4>2, <4>3, <4>4 DEF Rest
    <3>2. CASE CountDown
      <4>1. CASE Due(ka.rc)
        <5>1. count' = [count EXCEPT ![ka.rc] = ALIVE_TIME]
          BY <3>2, <4>1 DEF CountDown
        <5>2. asked' = [asked EXCEPT ![ka.rc] = IF asked[ka.rc] = NotAsked THEN 0 ELSE asked[ka.rc]]
          BY <3>2, <4>1 DEF CountDown
        <5>3. (IF asked[ka.rc] = NotAsked THEN 0 ELSE asked[ka.rc]) \in Nat \cup {NotAsked}
          BY <2>1 DEF TypeOK
        <5>4. asked' \in [Client -> Nat \cup {NotAsked}]
          BY <5>2, <5>3 DEF TypeOK
        <5>5. count' \in [Client -> 0 .. ALIVE_TIME]
          BY <5>1, <1>0 DEF TypeOK
        <5>6. server' \in {"up", "crashed"}
          BY <3>2, <4>1, SendToType DEF CountDown
        <5> QED
          BY <1>0, <5>4, <5>5, <5>6, <3>2 DEF Clocks, Rest, CountDown
      <4>2. CASE ~Due(ka.rc)
        <5>1. count[ka.rc] - 1 \in 0 .. ALIVE_TIME
          BY <1>0, <2>1, <4>2 DEF TypeOK, Due
        <5>2. count' = [count EXCEPT ![ka.rc] = count[ka.rc] - 1]
          BY <3>2, <4>2 DEF CountDown
        <5>3. count' \in [Client -> 0 .. ALIVE_TIME]
          BY <5>1, <5>2 DEF TypeOK
        <5> QED
          BY <1>0, <3>2, <4>2, <5>3 DEF Clocks, Rest, CountDown
      <4> QED
        BY <4>1, <4>2
    <3>3. CASE TouchFreed
      BY <1>0, <3>3, SendToType DEF Clocks, Rest, TouchFreed
    <3> QED
      BY <3>1, <3>2, <3>3, <1>8 DEF KaSend
  <2>3. Walks'
    BY <1>0, <1>8 DEF KaSend, Walks, Walking, KaWalks, SayWalks
  <2> QED
    BY <1>0, <2>1, <2>2, <2>3 DEF Rest
<1>9. CASE KaLook
  <2>1. g_it >= 1 /\ UNCHANGED <<connections, g_it, slept, main, say, life, silence, count, asked, disturbed, meetings>>
    BY <1>0, <1>9 DEF KaLook, Walks, KaWalks
  <2>2. CASE PastTheEnd
    BY <1>0, <1>9, <2>1, <2>2 DEF KaLook, Clocks, Walks, Rest, KaWalks, SayWalks
  <2>3. CASE ~PastTheEnd
    <3>1. server' = server /\ ka' = NextConnection("sleep") /\ overlap' \in BOOLEAN
      BY <1>9, <2>3 DEF KaLook
    <3>2. \/ ka' = Walking("sleep", NONE)
          \/ \E c \in Client : ka' = Walking("send", c)
      BY <2>1, <2>3, <3>1, WalkType
    <3>3. Walks'
      BY <1>0, <2>1, <3>2 DEF Walks, Walking, KaWalks, SayWalks
    <3> QED
      BY <1>0, <2>1, <3>1, <3>3 DEF Clocks, Rest
  <2> QED
    BY <2>2, <2>3
<1>10. CASE Say
  <2>1. /\ main # NONE /\ main[2] = "SAY" /\ main \in Client \X Packet
        /\ UNCHANGED <<server, connections, ka, slept, life, silence, count, asked>>
    BY <1>0, <1>10 DEF Say, Walks
  <2>0. main \in Client \X {"SAY"}
    BY <2>1
  <2>2. CASE connections = <<>>
    BY <1>0, <1>10, <2>1, <2>2 DEF Say, Clocks, Walks, Rest, history, KaWalks, SayWalks
  <2>3. CASE connections # <<>>
    <3>1. connections[1] \in Client
      BY <2>3 DEF TypeOK
    <3>2. First(KaWalks, ~overlap) /\ say' = Walking("send", connections[1]) /\ main' = main
      BY <1>10, <2>3 DEF Say
    <3>3. /\ g_it' = 1 /\ overlap' = KaWalks /\ disturbed' \in [Client -> Nat]
          /\ meetings' \in 0 .. MaxMeet
      BY <3>2, FirstType DEF KaWalks
    <3>4. overlap' \in BOOLEAN
      BY <3>3 DEF KaWalks
    <3>5. Walks'
      BY <1>0, <2>0, <2>1, <3>1, <3>2, <3>3 DEF Walks, Walking, KaWalks, SayWalks
    <3>6. Clocks'
      BY <1>0, <2>1, <3>3 DEF Clocks
    <3>7. Rest'
      BY <1>0, <2>1, <3>3, <3>4 DEF Rest
    <3> QED
      BY <3>5, <3>6, <3>7
  <2> QED
    BY <2>2, <2>3
<1>11. CASE SaySend
  <2>1. server' \in {"up", "crashed"}
    BY <1>0, <1>11, SendToType DEF SaySend, Rest
  <2>2. Walks'
    BY <1>0, <1>11 DEF SaySend, Walks, Walking, KaWalks, SayWalks
  <2> QED
    BY <1>0, <1>11, <2>1, <2>2 DEF SaySend, Clocks, Rest, history
<1>12. CASE SayLook
  <2>1. /\ g_it >= 1 /\ main # NONE /\ main \in Client \X {"SAY"} /\ main \in Client \X Packet
        /\ UNCHANGED <<connections, g_it, ka, slept, life, silence, count, asked, disturbed, meetings>>
    BY <1>0, <1>12 DEF SayLook, Walks, SayWalks
  <2>2. CASE PastTheEnd
    BY <1>0, <1>12, <2>1, <2>2 DEF SayLook, Clocks, Walks, Rest, KaWalks, SayWalks
  <2>3. CASE ~PastTheEnd
    <3>1. /\ server' = server /\ say' = NextConnection("no") /\ overlap' \in BOOLEAN
          /\ main' = IF say'.at = "no" THEN NONE ELSE main
      BY <1>12, <2>3 DEF SayLook
    <3>2. \/ say' = Walking("no", NONE)
          \/ \E c \in Client : say' = Walking("send", c)
      BY <2>1, <2>3, <3>1, WalkType
    <3>3. Walks'
      BY <1>0, <2>1, <3>1, <3>2 DEF Walks, Walking, KaWalks, SayWalks
    <3> QED
      BY <1>0, <2>1, <3>1, <3>3 DEF Clocks, Rest
  <2> QED
    BY <2>2, <2>3
<1>13. CASE UNCHANGED vars
  <2>1. Walks'
    BY <1>0, <1>13, WalksSame DEF vars
  <2> QED
    BY <1>0, <1>13, <2>1 DEF vars, threads, history, Clocks, Rest
<1> QED
  BY <1>1, <1>2, <1>3, <1>4, <1>5, <1>6, <1>7, <1>8, <1>9, <1>10, <1>11, <1>12, <1>13 DEF Next

(* The fields of the connections and the threads' variables keep their     *)
(* types (connection_info.cpp, keepalive.cpp).                             *)
THEOREM TypeCorrect == Spec => []TypeOK
  BY TypeInit, TypeNext, PTL DEF Spec

-----------------------------------------------------------------------------
(* Slack. *)

LEMMA Constants ==
    /\ ROUND \in Nat /\ ALIVE_TIME \in Nat /\ ALIVE_TIME >= 1
    /\ DEAD_TIME \in Nat /\ DELAY \in Nat /\ MaxConnections \in Nat /\ MaxConnections >= 1
  BY KeepAliveAssumption

LEMMA PendType ==
    ASSUME TypeOK, NEW i \in Nat
    PROVE  Pend(i) \in 0 .. ROUND
  BY Constants DEF TypeOK, Pend

LEMMA SlackType ==
    ASSUME TypeOK, NEW c \in Client, NEW i \in Nat, i <= MaxConnections
    PROVE  Slack(c, i) \in Nat
<1>0. disturbed[c] \in Nat
  BY DEF TypeOK
<1>1. MaxConnections - i + disturbed[c] \in Nat
  BY <1>0, Constants
<1>2. Times(MaxConnections - i + disturbed[c]) \in Nat
  BY <1>1, TimesType, TimesNat
<1> QED
  BY <1>2, PendType, Constants DEF Slack

LEMMA LeftType ==
    ASSUME TypeOK, NEW c \in Client
    PROVE  Left(c) \in 1 .. ALIVE_TIME
<1>1. count[c] \in 0 .. ALIVE_TIME
  BY DEF TypeOK
<1> QED
  BY <1>1, Constants DEF Left

(* The same of the state after a step. *)
LEMMA SlackTypeNext ==
    ASSUME TypeOK', NEW c \in Client, NEW i \in Nat, i <= MaxConnections
    PROVE  Slack(c, i)' \in Nat
<1>0. disturbed'[c] \in Nat
  BY DEF TypeOK
<1>1. MaxConnections - i + disturbed'[c] \in Nat
  BY <1>0, Constants
<1>2. Times(MaxConnections - i + disturbed'[c]) \in Nat
  BY <1>1, TimesType, TimesNat
<1>3. Pend(i)' \in 0 .. ROUND
  BY Constants DEF TypeOK, Pend
<1>4. Slack(c, i)' = Times(MaxConnections - i + disturbed'[c]) + Pend(i)'
  BY DEF Slack, Times
<1> QED
  BY <1>2, <1>3, <1>4, Constants

LEMMA LeftTypeNext ==
    ASSUME TypeOK', NEW c \in Client
    PROVE  Left(c)' \in 1 .. ALIVE_TIME
<1>1. count'[c] \in 0 .. ALIVE_TIME
  BY DEF TypeOK
<1> QED
  BY <1>1, Constants DEF Left

(* A connection that has not been asked has not waited longer than it      *)
(* takes to be asked.                                                      *)
LEMMA NotAskedInTime ==
    ASSUME TypeOK, NEW c \in Client, NEW i \in Nat, 1 <= i, i <= MaxConnections,
           Timely(c, i), asked[c] = NotAsked
    PROVE  silence[c] <= Times(Rounds(c))
<1> DEFINE missed == MaxConnections - i + disturbed[c]
           most == MaxConnections - 1 + disturbed[c]
<1>9. disturbed[c] \in Nat
  BY DEF TypeOK
<1>0. missed \in Nat /\ most \in Nat /\ missed <= most
  BY <1>9, Constants
<1>1. silence[c] \in Nat /\ silence[c] <= Times(ALIVE_TIME - Left(c)) + Slack(c, i)
  BY DEF Timely, TypeOK
<1>2. Times(ALIVE_TIME - Left(c)) <= Times(ALIVE_TIME - 1)
  BY TimesMonotone, LeftType, Constants
<1>3. Slack(c, i) = Times(missed) + Pend(i)
  BY DEF Slack
<1>4. Rounds(c) = ALIVE_TIME + most
  BY <1>9, Constants DEF Rounds
<1> HIDE DEF missed, most
<1>5. Times(missed) <= Times(most)
  BY <1>0, TimesMonotone
<1>6. Times(Rounds(c)) = Times(ALIVE_TIME) + Times(most)
  BY <1>0, <1>4, TimesSum, Constants
<1>7. Times(ALIVE_TIME) = Times(ALIVE_TIME - 1) + ROUND
  <2>1. ALIVE_TIME = (ALIVE_TIME - 1) + 1 /\ ALIVE_TIME - 1 \in Int
    BY Constants
  <2> QED
    BY <2>1, TimesNext
<1>8. /\ Times(ALIVE_TIME - Left(c)) \in Int /\ Times(ALIVE_TIME - 1) \in Int
      /\ Times(missed) \in Int /\ Times(most) \in Int /\ Times(ALIVE_TIME) \in Int
  BY <1>0, TimesType, LeftType, Constants
<1> QED
  BY <1>1, <1>2, <1>3, <1>5, <1>6, <1>7, <1>8, PendType, Constants

(* A prompt client is not taken for dead in less than it may need. *)
LEMMA PromptInTime ==
    ASSUME TypeOK, NEW c \in Client, NEW i \in Nat, 1 <= i, i <= MaxConnections,
           Timely(c, i), life[c] = "up", Expired(c)
    PROVE  Answered(c) > DEAD_TIME
<1>1. Rounds(c) \in Int /\ Answered(c) = Times(Rounds(c)) + DELAY
  BY Constants DEF TypeOK, Rounds, Answered, Times
<1>2. Times(Rounds(c)) \in Int
  BY <1>1, TimesType
<1>3. silence[c] \in Nat /\ asked[c] \in Nat \cup {NotAsked} /\ silence[c] > DEAD_TIME
  BY DEF TypeOK, Expired
<1>4. CASE asked[c] = NotAsked
  BY <1>1, <1>2, <1>3, <1>4, NotAskedInTime, Constants
<1>5. CASE asked[c] # NotAsked
  BY <1>1, <1>2, <1>3, <1>5, Constants DEF Timely
<1> QED
  BY <1>4, <1>5

(* What is needed of a step for one connection: it is left alone and its   *)
(* slack does not shrink, or it starts afresh.                             *)
LEMMA Kept ==
    ASSUME TypeOK, TypeOK', NEW c \in Client,
           NEW i \in Nat, i <= MaxConnections, NEW j \in Nat, j <= MaxConnections,
           Timely(c, i), Slack(c, j)' >= Slack(c, i), disturbed'[c] >= disturbed[c],
           silence'[c] = silence[c], count'[c] = count[c], asked'[c] = asked[c],
           life'[c] = "up" => life[c] = "up"
    PROVE  Timely(c, j)'
<1>1. Slack(c, i) \in Nat /\ Slack(c, j)' \in Nat
  <2>1. Slack(c, i) \in Nat
    BY SlackType
  <2>2. Slack(c, j)' \in Nat
    BY SlackTypeNext
  <2> QED
    BY <2>1, <2>2
<1>2. Left(c)' = Left(c)
  BY DEF Left
<1>3. Times(ALIVE_TIME - Left(c)) \in Int
  BY TimesType, LeftType, Constants
<1>4. silence[c] \in Nat /\ disturbed[c] \in Nat /\ disturbed'[c] \in Nat
  BY DEF TypeOK
<1>5. Rounds(c) \in Int /\ Rounds(c)' \in Int /\ Rounds(c) <= Rounds(c)'
  BY <1>4, Constants DEF Rounds
<1>6. /\ Times(Rounds(c)) <= Times(Rounds(c)') /\ Times(Rounds(c)) \in Int
      /\ Times(Rounds(c)') \in Int
  BY <1>5, TimesMonotone, TimesType
<1>7. /\ silence'[c] <= DEAD_TIME + Slack(c, j)'
      /\ asked'[c] = NotAsked => silence'[c] <= Times(ALIVE_TIME - Left(c)) + Slack(c, j)'
  BY <1>1, <1>3, <1>4, Constants DEF Timely
<1>8. asked'[c] # NotAsked /\ life'[c] = "up" =>
          asked'[c] <= DELAY /\ silence'[c] <= Times(Rounds(c)') + asked'[c]
  <2>1. asked[c] \in Nat \cup {NotAsked}
    BY DEF TypeOK
  <2> QED
    BY <1>4, <1>6, <2>1 DEF Timely, NotAsked
<1>9. Times(Rounds(c))' = Times(Rounds(c)') /\ Times(ALIVE_TIME - Left(c))' = Times(ALIVE_TIME - Left(c)')
  BY DEF Times
<1> QED
  BY <1>2, <1>7, <1>8, <1>9 DEF Timely

LEMMA Afresh ==
    ASSUME TypeOK', NEW c \in Client, NEW j \in Nat, j <= MaxConnections,
           silence'[c] = 0, asked'[c] = NotAsked
    PROVE  Timely(c, j)'
<1>1. Slack(c, j)' \in Nat
  BY SlackTypeNext
<1>2. Left(c)' \in 1 .. ALIVE_TIME
  BY LeftTypeNext
<1>3. Times(ALIVE_TIME - Left(c)') >= 0 /\ Times(ALIVE_TIME - Left(c)') \in Int
  BY <1>2, TimesNat, TimesType, Constants
<1> QED
  BY <1>1, <1>2, <1>3, Constants DEF Timely, Times

(* Being missed by a round because of a move to the front costs nothing. *)
LEMMA MissedOne ==
    ASSUME TypeOK, TypeOK', NEW c \in Client, disturbed'[c] = disturbed[c],
           NEW j \in Nat, j + 1 <= MaxConnections
    PROVE  Slack(c, j)' >= Slack(c, j + 1)
<1> DEFINE missed == MaxConnections - (j + 1) + disturbed[c]
<1>5. disturbed[c] \in Nat
  BY DEF TypeOK
<1>0. missed \in Int /\ MaxConnections - j + disturbed'[c] = missed + 1
  BY <1>5, Constants
<1>1. Slack(c, j)' = Times(missed + 1) + Pend(j)' /\ Slack(c, j + 1) = Times(missed) + Pend(j + 1)
  BY <1>0 DEF Slack, Times
<1>2. Pend(j)' \in 0 .. ROUND
  BY Constants DEF TypeOK, Pend
<1>3. Pend(j + 1) \in 0 .. ROUND
  BY PendType
<1> HIDE DEF missed
<1>4. Times(missed) \in Int /\ Times(missed + 1) = Times(missed) + ROUND
  BY <1>0, TimesType, TimesNext
<1> QED
  BY <1>1, <1>2, <1>3, <1>4, Constants

(* Nor does being disturbed, a walk not having come by, or time that has   *)
(* been counted as a round's.                                              *)
LEMMA DisturbedOne ==
    ASSUME TypeOK, TypeOK', NEW c \in Client, disturbed'[c] = disturbed[c] + 1,
           NEW j \in Nat, j <= MaxConnections
    PROVE  Slack(c, j)' >= Slack(c, j)
<1> DEFINE missed == MaxConnections - j + disturbed[c]
<1>5. disturbed[c] \in Nat
  BY DEF TypeOK
<1>0. missed \in Int /\ MaxConnections - j + disturbed'[c] = missed + 1
  BY <1>5, Constants
<1>1. Slack(c, j)' = Times(missed + 1) + Pend(j)' /\ Slack(c, j) = Times(missed) + Pend(j)
  BY <1>0 DEF Slack, Times
<1>2. Pend(j)' \in 0 .. ROUND
  BY Constants DEF TypeOK, Pend
<1>3. Pend(j) \in 0 .. ROUND
  BY PendType
<1> HIDE DEF missed
<1>4. Times(missed) \in Int /\ Times(missed + 1) = Times(missed) + ROUND
  BY <1>0, TimesType, TimesNext
<1> QED
  BY <1>1, <1>2, <1>3, <1>4, Constants

LEMMA PendSlack ==
    ASSUME TypeOK, TypeOK', NEW c \in Client, disturbed'[c] = disturbed[c],
           NEW j \in Nat, j <= MaxConnections, Pend(j)' >= Pend(j)
    PROVE  Slack(c, j)' >= Slack(c, j)
<1> DEFINE missed == MaxConnections - j + disturbed[c]
<1>5. disturbed[c] \in Nat
  BY DEF TypeOK
<1>0. missed \in Int
  BY <1>5, Constants
<1>1. Slack(c, j)' = Times(missed) + Pend(j)' /\ Slack(c, j) = Times(missed) + Pend(j)
  BY DEF Slack, Times
<1>2. Pend(j)' \in 0 .. ROUND
  BY Constants DEF TypeOK, Pend
<1>3. Pend(j) \in 0 .. ROUND
  BY PendType
<1> HIDE DEF missed
<1>4. Times(missed) \in Int
  BY <1>0, TimesType
<1> QED
  BY <1>1, <1>2, <1>3, <1>4, Constants

(* A turn of the walk takes slack only from the connection it visits. *)
LEMMA PendSend ==
    ASSUME TypeOK, TypeOK', KaSend, NEW j \in Places', connections[j] # ka.rc
    PROVE  Pend(j)' >= Pend(j)
<1>1. /\ g_it \in Nat /\ g_it' = g_it + 1 /\ j \in Nat /\ overlap' = overlap
      /\ ka.at = "send" /\ ka'.at = "look" /\ KaWalks /\ KaWalks'
  BY DEF TypeOK, Places, KaSend, Walking, KaWalks
<1>2. Coming(j)' <=> Coming(j)
  <2>1. Coming(j) <=> j > g_it
    BY <1>1 DEF Coming
  <2>2. Coming(j)' <=> j >= g_it + 1
    BY <1>1 DEF Coming
  <2> QED
    BY <1>1, <2>1, <2>2
<1>3. Pend(j)' = Pend(j)
  BY <1>1, <1>2 DEF Pend
<1> QED
  BY <1>1, <1>3, PendType, Constants

LEMMA PendLook ==
    ASSUME TypeOK, TypeOK', KaLook, NEW j \in Places
    PROVE  Pend(j)' >= Pend(j)
<1>1. /\ ka.at = "look" /\ KaWalks /\ UNCHANGED <<connections, g_it, slept>>
      /\ g_it \in Nat /\ g_it >= 1 /\ j \in Nat /\ j <= Len(connections)
  BY DEF TypeOK, Places, KaLook, KaWalks
<1>2. CASE PastTheEnd
  <2>1. UNCHANGED <<ka, overlap>>
    BY <1>2 DEF KaLook
  <2>2. Pend(j)' = Pend(j)
    BY <1>1, <2>1 DEF Pend, KaWalks, Coming
  <2> QED
    BY <1>1, <2>2, PendType, Constants
<1>3. CASE ~PastTheEnd
  <2>1. ka' = NextConnection("sleep")
    BY <1>3 DEF KaLook
  <2>2. CASE ka' = Walking("sleep", NONE) /\ g_it = Len(connections) + 1
    <3>1. ~Coming(j)
      BY <1>1, <2>2 DEF Coming
    <3>2. Pend(j) = 0
      BY <1>1, <3>1 DEF Pend
    <3>3. Pend(j)' = slept
      BY <1>1, <2>2 DEF Pend, KaWalks, Walking
    <3> QED
      BY <3>2, <3>3 DEF TypeOK
  <2>3. CASE /\ g_it \in Places /\ connections[g_it] \in Client
             /\ ka' = Walking("send", connections[g_it])
    <3>1. ka'.at = "send" /\ ka'.rc = connections[g_it] /\ KaWalks'
      BY <2>3 DEF Walking, KaWalks
    <3>2. overlap' = overlap
      <4>1. overlap' = (overlap /\ (SayWalks \/ ka'.at # "sleep"))
        BY <1>3 DEF KaLook
      <4>2. ka'.at # "sleep" /\ overlap \in BOOLEAN
        BY <3>1 DEF TypeOK
      <4> QED
        BY <4>1, <4>2
    <3>3. Coming(j) => Coming(j)'
      <4>1. Coming(j) => j = g_it \/ j > g_it
        BY <1>1 DEF Coming
      <4>2. connections[j] = connections[g_it] \/ j > g_it => Coming(j)'
        BY <1>1, <3>1 DEF Coming
      <4> QED
        BY <4>1, <4>2
    <3> QED
      BY <1>1, <3>1, <3>2, <3>3, Constants DEF Pend
  <2> QED
    BY <1>1, <1>3, <2>1, <2>2, <2>3, WalkType
<1> QED
  BY <1>2, <1>3

(* The connection it visits is a visit closer to its KEEPALIVE. *)
LEMMA Visited ==
    ASSUME TypeOK, TypeOK', CountDown, NEW c \in Client, c = ka.rc, life' = life,
           NEW j \in Nat, 1 <= j, j <= MaxConnections, Timely(c, j)
    PROVE  Timely(c, j)'
<1>0. c \in Client /\ Timely(c, j) /\ c = ka.rc
  OBVIOUS
<1>1. /\ silence[c] \in Nat /\ count[c] \in 0 .. ALIVE_TIME /\ disturbed[c] \in Nat
      /\ asked[c] \in Nat \cup {NotAsked} /\ silence' = silence /\ disturbed' = disturbed
  BY <1>0 DEF TypeOK, CountDown
<1>2. silence[c] <= DEAD_TIME
  BY <1>0, <1>1, Constants DEF CountDown, Expired
<1>3. Slack(c, j)' \in Nat
  BY SlackTypeNext
<1>4. Rounds(c)' = Rounds(c) /\ Times(Rounds(c)) \in Int
  <2>1. Rounds(c) \in Int
    BY <1>1, Constants DEF Rounds
  <2> QED
    BY <1>1, <2>1, TimesType DEF Rounds
<1>5. CASE Due(ka.rc)
  <2>1. asked'[c] = IF asked[c] = NotAsked THEN 0 ELSE asked[c]
    BY <1>0, <1>5 DEF CountDown, TypeOK
  <2>2. asked'[c] # NotAsked
    BY <2>1 DEF NotAsked
  <2>3. CASE asked[c] = NotAsked
    <3>1. silence[c] <= Times(Rounds(c))
      BY <1>0, <2>3, NotAskedInTime
    <3> QED
      BY <1>0, <1>1, <1>2, <1>3, <1>4, <2>1, <2>2, <2>3, <3>1, Constants DEF Timely, Times
  <2>4. CASE asked[c] # NotAsked
    BY <1>0, <1>1, <1>2, <1>3, <1>4, <2>1, <2>2, <2>4, Constants DEF Timely, Times
  <2> QED
    BY <2>3, <2>4
<1>6. CASE ~Due(ka.rc)
  <2>1. count'[c] = count[c] - 1 /\ asked'[c] = asked[c]
    BY <1>0, <1>6 DEF CountDown, TypeOK
  <2>2. count[c] >= 2
    BY <1>0, <1>1, <1>6 DEF Due
  <2>3. Left(c) = count[c] /\ Left(c)' = count[c] - 1
    BY <1>1, <2>1, <2>2 DEF Left
  <2>4. Times(ALIVE_TIME - Left(c)') = Times(ALIVE_TIME - Left(c)) + ROUND
    <3>1. ALIVE_TIME - Left(c)' = (ALIVE_TIME - Left(c)) + 1 /\ ALIVE_TIME - Left(c) \in Int
      BY <1>1, <2>3, Constants
    <3> QED
      BY <3>1, TimesNext
  <2>5. /\ Times(ALIVE_TIME - Left(c)) \in Int
        /\ Times(MaxConnections - j + disturbed[c]) \in Nat
    <3>1. MaxConnections - j + disturbed[c] \in Nat
      BY <1>1, Constants
    <3> QED
      BY <1>1, <2>3, <3>1, TimesType, TimesNat, Constants
  <2>6. Slack(c, j)' >= Times(MaxConnections - j + disturbed[c])
    <3>1. Pend(j)' \in 0 .. ROUND
      BY Constants DEF TypeOK, Pend
    <3>2. Slack(c, j)' = Times(MaxConnections - j + disturbed[c]) + Pend(j)'
      BY <1>1 DEF Slack, Times
    <3> QED
      BY <2>5, <3>1, <3>2, Constants
  <2>7. /\ Pend(j) \in 0 .. ROUND
        /\ Slack(c, j) = Times(MaxConnections - j + disturbed[c]) + Pend(j)
    BY PendType DEF Slack
  <2>8. asked[c] = NotAsked => silence[c] <= Times(ALIVE_TIME - Left(c)') + Slack(c, j)'
    BY <1>0, <1>1, <1>3, <2>4, <2>5, <2>6, <2>7, Constants DEF Timely
  <2>9. /\ silence'[c] <= DEAD_TIME + Slack(c, j)'
        /\ asked'[c] # NotAsked /\ life'[c] = "up" =>
              /\ asked'[c] <= DELAY
              /\ silence'[c] <= Times(Rounds(c)) + asked'[c]
    BY <1>0, <1>1, <1>2, <1>3, <2>1, Constants DEF Timely
  <2> QED
    BY <1>1, <1>4, <2>1, <2>8, <2>9 DEF Timely, Times
<1> QED
  BY <1>5, <1>6

-----------------------------------------------------------------------------
(* The list stays in order. *)

LEMMA ListClosed ==
    ASSUME TypeOK, ListOK, NEW c \in Client, Close(c),
           \A d \in Client : life[d] # "off" => life'[d] # "off"
    PROVE  ListOK'
<1>1. PICK k \in Places :
        /\ connections[k] = c
        /\ connections' \in Seq(Client)
        /\ Len(connections') = Len(connections) - 1
        /\ \A j \in Places' :
              connections'[j] = IF j < k THEN connections[j] ELSE connections[j + 1]
  BY CloseFacts DEF TypeOK
<1>2. Len(connections) \in Nat /\ k \in 1 .. Len(connections) /\ Places' = 1 .. Len(connections) - 1
  BY <1>1 DEF TypeOK, Places
<1>3. Len(connections') <= MaxConnections
  BY <1>1, <1>2, Constants DEF ListOK
<1>4. ASSUME NEW j \in Places'
      PROVE  j \in Places /\ j + 1 \in Places
  BY <1>2 DEF Places
<1>5. ASSUME NEW i \in Places', NEW j \in Places', connections'[i] = connections'[j]
      PROVE  i = j
  <2> DEFINE before(n) == IF n < k THEN n ELSE n + 1
  <2>1. before(i) \in Places /\ before(j) \in Places
    BY <1>4
  <2>2. connections[before(i)] = connections[before(j)]
    BY <1>1, <1>5
  <2>3. before(i) = before(j)
    BY <2>1, <2>2 DEF ListOK
  <2> QED
    BY <2>3, <1>2
<1>6. ASSUME NEW i \in Places' PROVE life'[connections'[i]] # "off"
  <2>1. PICK h \in Places : connections'[i] = connections[h]
    BY <1>1, <1>4
  <2>2. connections[h] \in Client
    BY DEF TypeOK, Places
  <2>3. life[connections[h]] # "off"
    BY DEF ListOK
  <2> QED
    BY <2>1, <2>2, <2>3
<1> QED
  BY <1>3, <1>5, <1>6 DEF ListOK

LEMMA ListSame ==
    ASSUME TypeOK, ListOK, connections' = connections,
           \A d \in Client : life[d] # "off" => life'[d] # "off"
    PROVE  ListOK'
<1>1. Places' = Places /\ \A i \in Places : connections[i] \in Client
  BY DEF TypeOK, Places
<1> QED
  BY <1>1 DEF ListOK

LEMMA ListNext == TypeOK /\ TypeOK' /\ ListOK /\ [Next]_vars => ListOK'
<1> SUFFICES ASSUME TypeOK, TypeOK', ListOK, [Next]_vars PROVE ListOK'
  OBVIOUS
<1>1. ASSUME NEW c \in Client, Connect(c) PROVE ListOK'
  <2>1. /\ connections' = Append(connections, c)
        /\ Len(connections) < MaxConnections /\ Len(connections) \in Nat
        /\ life' = [life EXCEPT ![c] = "up"]
        /\ ~Registered(c)
    BY <1>1 DEF Connect, TypeOK
  <2>2. Len(connections') = Len(connections) + 1
    BY <2>1 DEF TypeOK
  <2>3. \A i \in Places : i \in Places' /\ connections'[i] = connections[i] /\ connections[i] # c
    <3>1. \A i \in Places : connections[i] # c
      BY <2>1, RegisteredAt DEF TypeOK
    <3> QED
      BY <2>1, <3>1, AppendFacts DEF TypeOK
  <2>4. \A i \in Places' : i \in Places \/ (i = Len(connections) + 1 /\ connections'[i] = c)
    BY <2>1, AppendFacts DEF TypeOK
  <2>5. \A i, j \in Places' : connections'[i] = connections'[j] => i = j
    BY <2>3, <2>4 DEF ListOK
  <2>6. \A i \in Places' : life'[connections'[i]] # "off"
    <3>1. life'[c] = "up" /\ \A d \in Client : d # c => life'[d] = life[d]
      BY <2>1 DEF TypeOK
    <3>2. \A i \in Places : connections[i] \in Client
      BY DEF TypeOK, Places
    <3> QED
      BY <2>3, <2>4, <3>1, <3>2 DEF ListOK
  <2>7. Len(connections') <= MaxConnections
    BY <2>1, <2>2, Constants
  <2> QED
    BY <2>5, <2>6, <2>7 DEF ListOK
<1>2. ASSUME NEW c \in Client, SlowDown(c) \/ Leave(c) PROVE ListOK'
  <2>1. /\ connections' = connections
        /\ \A d \in Client : life'[d] = life[d] \/ life'[d] \in {"slow", "gone"}
    BY <1>2 DEF SlowDown, Leave, TypeOK
  <2> QED
    BY <2>1, ListSame
<1>3. ASSUME NEW c \in Client, NEW type \in Packet, MainRead(c, type) PROVE ListOK'
  BY <1>3, ListSame DEF MainRead
<1>4. ASSUME NEW c \in Client, MainDisconnect(c) PROVE ListOK'
  <2>1. Close(c) /\ life' = life
    BY <1>4 DEF MainDisconnect
  <2> QED
    BY <2>1, ListClosed
<1>5. CASE MainDeal \/ Say \/ SaySend \/ SayLook \/ Second \/ Wake \/ KaLook \/ UNCHANGED vars
  <2>1. connections' = connections /\ life' = life
    BY <1>5 DEF MainDeal, Say, SaySend, SayLook, Second, Wake, KaLook, vars
  <2> QED
    BY <2>1, ListSame
<1>6. CASE KaSend
  <2>1. ka.rc \in Client
    BY <1>6 DEF KaSend, TypeOK
  <2>2. CASE CloseExpired
    <3>1. Close(ka.rc) /\ life' = [life EXCEPT ![ka.rc] = IF life[ka.rc] = "up" THEN "cut" ELSE life[ka.rc]]
      BY <2>2 DEF CloseExpired
    <3>2. \A d \in Client : life[d] # "off" => life'[d] # "off"
      BY <2>1, <3>1 DEF TypeOK
    <3> QED
      BY <2>1, <3>1, <3>2, ListClosed
  <2>3. CASE CountDown \/ TouchFreed
    BY <2>3, ListSame DEF CountDown, TouchFreed
  <2> QED
    BY <1>6, <2>2, <2>3 DEF KaSend
<1> QED
  BY <1>1, <1>2, <1>3, <1>4, <1>5, <1>6 DEF Next

(* Where a walk begins the rounds take no time, and it is known whether    *)
(* the other walks.                                                        *)
LEMMA WalksOKNext == TypeOK /\ TypeOK' /\ WalksOK /\ [Next]_vars => WalksOK'
<1> SUFFICES ASSUME TypeOK, TypeOK', WalksOK, [Next]_vars PROVE WalksOK'
  OBVIOUS
<1>1. CASE UNCHANGED <<ka, slept, say, overlap>>
  BY <1>1 DEF WalksOK, KaWalks, SayWalks
<1>2. CASE Say
  <2>1. CASE connections = <<>>
    BY <1>1, <1>2, <2>1 DEF Say, history
  <2>2. CASE connections # <<>>
    <3>1. UNCHANGED <<ka, slept>> /\ overlap' = KaWalks
      BY <1>2, <2>2 DEF Say, First
    <3> QED
      BY <3>1 DEF WalksOK, KaWalks
  <2> QED
    BY <2>1, <2>2
<1>3. CASE SaySend
  <2>1. SayWalks /\ UNCHANGED <<ka, slept, overlap>>
    BY <1>3 DEF SaySend, SayWalks, history
  <2> QED
    BY <2>1 DEF WalksOK, KaWalks
<1>4. CASE SayLook
  <2>1. CASE PastTheEnd
    BY <1>1, <1>4, <2>1 DEF SayLook
  <2>2. CASE ~PastTheEnd
    <3>1. SayWalks /\ UNCHANGED <<ka, slept>> /\ overlap' = (overlap /\ (KaWalks \/ say'.at # "no"))
      BY <1>4, <2>2 DEF SayLook, SayWalks
    <3> QED
      BY <3>1 DEF WalksOK, KaWalks
  <2> QED
    BY <2>1, <2>2
<1>5. CASE Second
  <2>1. ~KaWalks /\ ka' = ka
    BY <1>5 DEF Second
  <2> QED
    BY <2>1 DEF WalksOK, KaWalks
<1>6. CASE Wake
  <2>1. slept' = 0 /\ say' = say
    BY <1>6 DEF Wake
  <2>2. CASE connections = <<>>
    BY <1>6, <2>1, <2>2 DEF Wake, WalksOK, KaWalks, SayWalks
  <2>3. CASE connections # <<>>
    <3>1. overlap' = SayWalks
      BY <1>6, <2>3 DEF Wake, First
    <3> QED
      BY <2>1, <3>1 DEF WalksOK, SayWalks
  <2> QED
    BY <2>2, <2>3
<1>7. CASE KaSend
  <2>1. KaWalks /\ UNCHANGED <<slept, say, overlap>>
    BY <1>7 DEF KaSend, KaWalks
  <2> QED
    BY <2>1 DEF WalksOK, SayWalks
<1>8. CASE KaLook
  <2>1. CASE PastTheEnd
    BY <1>1, <1>8, <2>1 DEF KaLook
  <2>2. CASE ~PastTheEnd
    <3>1. /\ KaWalks /\ UNCHANGED <<slept, say>>
          /\ overlap' = (overlap /\ (SayWalks \/ ka'.at # "sleep"))
      BY <1>8, <2>2 DEF KaLook, KaWalks
    <3> QED
      BY <3>1 DEF WalksOK, SayWalks
  <2> QED
    BY <2>1, <2>2
<1>9. ASSUME NEW c \in Client,
             \/ Connect(c) \/ SlowDown(c) \/ Leave(c) \/ MainDisconnect(c)
             \/ \E type \in Packet : MainRead(c, type)
      PROVE  UNCHANGED <<ka, slept, say, overlap>>
  BY <1>9 DEF Connect, SlowDown, Leave, MainDisconnect, MainRead, threads, history
<1>10. ASSUME MainDeal \/ UNCHANGED vars
       PROVE  UNCHANGED <<ka, slept, say, overlap>>
  BY <1>10 DEF MainDeal, vars, threads, history
<1> QED
  BY <1>1, <1>2, <1>3, <1>4, <1>5, <1>6, <1>7, <1>8, <1>9, <1>10 DEF Next

-----------------------------------------------------------------------------
(* The times stay within their bounds. *)

LEMMA PlaceType ==
    ASSUME TypeOK, ListOK, NEW i \in Places
    PROVE  i \in Nat /\ 1 <= i /\ i <= MaxConnections /\ connections[i] \in Client
<1>1. Len(connections) \in Nat /\ i \in 1 .. Len(connections)
  BY DEF TypeOK, Places
<1>2. connections[i] \in Client
  BY <1>1 DEF TypeOK
<1> QED
  BY <1>1, <1>2, Constants DEF ListOK

LEMMA PlaceTypeNext ==
    ASSUME TypeOK', ListOK', NEW i \in Places'
    PROVE  i \in Nat /\ 1 <= i /\ i <= MaxConnections /\ connections'[i] \in Client
<1>1. Len(connections') \in Nat /\ i \in 1 .. Len(connections')
  BY DEF TypeOK, Places
<1>2. connections'[i] \in Client
  BY <1>1 DEF TypeOK
<1> QED
  BY <1>1, <1>2, Constants DEF ListOK

(* A step that leaves the list alone, and takes no slack. *)
LEMMA TimelySame ==
    ASSUME TypeOK, TypeOK', ListOK, connections' = connections,
           NEW j \in Places, NEW d \in Client, d = connections[j],
           Timely(d, j), Slack(d, j)' >= Slack(d, j), disturbed'[d] >= disturbed[d],
           silence'[d] = silence[d], count'[d] = count[d], asked'[d] = asked[d],
           life'[d] = "up" => life[d] = "up"
    PROVE  Timely(d, j)'
  BY Kept, PlaceType

LEMMA SlackSame ==
    ASSUME TypeOK, TypeOK', ListOK,
           NEW j \in Places, NEW d \in Client, disturbed'[d] = disturbed[d],
           connections'[j] = connections[j], UNCHANGED <<ka, g_it, slept, overlap>>
    PROVE  Slack(d, j)' >= Slack(d, j)
<1>1. Pend(j)' = Pend(j)
  BY DEF Pend, Coming, KaWalks
<1> QED
  BY <1>1, PendSlack, PendType, PlaceType, Constants

LEMMA TimelyConnect ==
    ASSUME TypeOK, TypeOK', ListOK, ListOK', \A i \in Places : Timely(connections[i], i),
           NEW c \in Client, Connect(c), NEW j \in Places', NEW d \in Client,
           d = connections'[j]
    PROVE  Timely(d, j)'
<1>1. /\ connections' = Append(connections, c) /\ ~Registered(c)
      /\ Fresh(c) /\ UNCHANGED <<g_it, ka, slept, overlap>>
      /\ life' = [life EXCEPT ![c] = "up"]
  BY DEF Connect, threads
<1>2. /\ silence'[c] = 0 /\ asked'[c] = NotAsked
      /\ \A e \in Client : e # c => /\ silence'[e] = silence[e] /\ count'[e] = count[e]
                                    /\ asked'[e] = asked[e] /\ life'[e] = life[e]
                                    /\ disturbed'[e] = disturbed[e]
  BY <1>1 DEF Fresh, TypeOK
<1>3. CASE j \in Places
  <2>1. connections'[j] = connections[j] /\ connections[j] # c
    BY <1>1, <1>3, AppendFacts, RegisteredAt DEF TypeOK
  <2>2. /\ silence'[d] = silence[d] /\ count'[d] = count[d] /\ disturbed'[d] = disturbed[d]
        /\ asked'[d] = asked[d] /\ life'[d] = life[d]
    BY <1>2, <2>1
  <2>3. Slack(d, j)' >= Slack(d, j)
    BY <1>1, <1>3, <2>1, <2>2, SlackSame
  <2>4. Timely(d, j)
    BY <1>3, <2>1
  <2>5. disturbed'[d] >= disturbed[d]
    <3>1. disturbed[d] \in Nat
      BY DEF TypeOK
    <3> QED
      BY <2>2, <3>1
  <2> QED
    BY <1>3, <2>2, <2>3, <2>4, <2>5, Kept, PlaceType
<1>4. CASE j \notin Places
  <2>1. d = c
    BY <1>1, <1>4, AppendFacts DEF TypeOK
  <2> QED
    BY <1>2, <2>1, Afresh, PlaceTypeNext
<1> QED
  BY <1>3, <1>4

(* What closing c leaves: moved or not, the others have their slack, if    *)
(* those that did not move keep what they have waited.                     *)
LEMMA TimelyClosed ==
    ASSUME TypeOK, TypeOK', ListOK, ListOK', \A i \in Places : Timely(connections[i], i),
           NEW c \in Client, Close(c),
           \A e \in Client : life'[e] = "up" => life[e] = "up",
           \A i \in Places' : /\ i \in Places
                               /\ connections[i] # c /\ connections'[i] = connections[i]
                               => Pend(i)' >= Pend(i),
           NEW j \in Places', NEW d \in Client, d = connections'[j]
    PROVE  Timely(d, j)'
<1>1. PICK k \in Places :
        /\ connections[k] = c
        /\ connections' \in Seq(Client)
        /\ Len(connections') = Len(connections) - 1
        /\ \A i \in Places' :
              connections'[i] = IF i < k THEN connections[i] ELSE connections[i + 1]
  BY CloseFacts DEF TypeOK
<1>2. j \in Places /\ j + 1 \in Places /\ k \in Nat /\ j \in Nat
  BY <1>1 DEF TypeOK, Places
<1>3. ASSUME NEW i \in Places, i # k
      PROVE  /\ silence'[connections[i]] = silence[connections[i]]
             /\ count'[connections[i]] = count[connections[i]]
             /\ asked'[connections[i]] = asked[connections[i]]
             /\ disturbed'[connections[i]] = disturbed[connections[i]]
             /\ disturbed'[connections[i]] >= disturbed[connections[i]]
  <2>1. connections[i] # c /\ connections[i] \in Client
    BY <1>1, <1>3, PlaceType DEF ListOK
  <2> QED
    BY <2>1 DEF Close, Fresh, TypeOK
<1>4. CASE j < k
  <2>1. d = connections[j] /\ connections[j] # c /\ connections'[j] = connections[j]
    BY <1>1, <1>2, <1>4 DEF ListOK
  <2>2. Slack(d, j)' >= Slack(d, j)
    BY <1>2, <1>3, <1>4, <2>1, PendSlack, PlaceType
  <2> QED
    BY <1>2, <1>3, <1>4, <2>1, <2>2, Kept, PlaceType
<1>5. CASE ~(j < k)
  <2>1. d = connections[j + 1] /\ j + 1 # k
    BY <1>1, <1>2, <1>5
  <2>2. j + 1 \in Nat /\ j + 1 <= MaxConnections /\ j <= MaxConnections
    BY <1>2, PlaceType
  <2>3. /\ silence'[d] = silence[d] /\ count'[d] = count[d] /\ asked'[d] = asked[d]
        /\ disturbed'[d] = disturbed[d] /\ disturbed'[d] >= disturbed[d]
    BY <1>2, <1>3, <2>1
  <2>4. Slack(d, j)' >= Slack(d, j + 1)
    BY <1>2, <2>2, <2>3, MissedOne
  <2>5. Timely(d, j + 1)
    BY <1>2, <2>1
  <2> QED
    BY <1>2, <2>2, <2>3, <2>4, <2>5, Kept
<1> QED
  BY <1>4, <1>5

(* A second passes while the thread sleeps: slack grows as silence does. *)
LEMMA TimelySecond ==
    ASSUME TypeOK, TypeOK', ListOK, Second, NEW j \in Places, NEW c \in Client,
           c = connections[j], Timely(c, j)
    PROVE  Timely(c, j)'
<1>1. /\ ~KaWalks /\ ka' = ka /\ slept' = slept + 1 /\ disturbed' = disturbed
      /\ connections' = connections /\ life' = life /\ count' = count
  BY DEF Second, history
<1>2. Registered(c)
  BY RegisteredAt DEF TypeOK
<1>3. /\ silence'[c] = silence[c] + 1
      /\ asked'[c] = IF life[c] = "up" /\ asked[c] # NotAsked THEN asked[c] + 1 ELSE asked[c]
      /\ life[c] = "up" => asked[c] < DELAY
  BY <1>2 DEF Second
<1>4. Slack(c, j)' = Slack(c, j) + 1
  <2>1. Pend(j)' = slept + 1 /\ Pend(j) = slept
    BY <1>1 DEF Pend, KaWalks
  <2>2. Slack(c, j)' = Times(MaxConnections - j + disturbed[c]) + Pend(j)'
    BY <1>1 DEF Slack, Times
  <2>3. Times(MaxConnections - j + disturbed[c]) \in Int
    <3>1. disturbed[c] \in Nat /\ j \in Nat
      BY PlaceType DEF TypeOK
    <3>2. MaxConnections - j + disturbed[c] \in Int
      BY <3>1, Constants
    <3> QED
      BY <3>2, TimesType
  <2>4. slept \in Int
    BY Constants DEF TypeOK
  <2> QED
    BY <2>1, <2>2, <2>3, <2>4 DEF Slack
<1>5. Slack(c, j) \in Nat
  BY SlackType, PlaceType
<1>6. Left(c)' = Left(c) /\ Rounds(c)' = Rounds(c)
  BY <1>1 DEF Left, Rounds
<1>7. Times(ALIVE_TIME - Left(c)) \in Int /\ Times(Rounds(c)) \in Int
  <2>1. disturbed[c] \in Nat
    BY DEF TypeOK
  <2>2. Rounds(c) \in Int
    BY <2>1, Constants DEF Rounds
  <2> QED
    BY <2>2, TimesType, LeftType, Constants
<1>8. silence[c] \in Nat /\ asked[c] \in Nat \cup {NotAsked}
  BY DEF TypeOK
<1>9. asked'[c] = NotAsked => asked[c] = NotAsked
  BY <1>3, <1>8 DEF NotAsked
<1>10. silence'[c] <= DEAD_TIME + Slack(c, j)'
  BY <1>3, <1>4, <1>5, <1>8, Constants DEF Timely
<1>11. asked'[c] = NotAsked => silence'[c] <= Times(ALIVE_TIME - Left(c)) + Slack(c, j)'
  BY <1>3, <1>4, <1>5, <1>7, <1>8, <1>9, Constants DEF Timely
<1>12. asked'[c] # NotAsked /\ life'[c] = "up" =>
         /\ asked'[c] <= DELAY
         /\ silence'[c] <= Times(Rounds(c)) + asked'[c]
  BY <1>1, <1>3, <1>7, <1>8, Constants DEF Timely
<1>13. Times(Rounds(c))' = Times(Rounds(c)') /\ Times(ALIVE_TIME - Left(c))' = Times(ALIVE_TIME - Left(c)')
  BY DEF Times
<1> QED
  BY <1>6, <1>10, <1>11, <1>12, <1>13 DEF Timely

LEMMA TimelySend ==
    ASSUME TypeOK, TypeOK', ListOK, ListOK', \A i \in Places : Timely(connections[i], i),
           KaSend, NEW j \in Places', NEW d \in Client, d = connections'[j]
    PROVE  Timely(d, j)'
<1>1. ka.rc \in Client
  BY DEF KaSend, TypeOK
<1>2. CASE CloseExpired
  <2>1. Close(ka.rc) /\ \A e \in Client : life'[e] = "up" => life[e] = "up"
    BY <1>1, <1>2 DEF CloseExpired, TypeOK
  <2>2. \A i \in Places' : i \in Places /\ connections[i] # ka.rc => Pend(i)' >= Pend(i)
    BY PendSend
  <2> QED
    BY <1>1, <2>1, <2>2, TimelyClosed
<1>3. CASE CountDown \/ TouchFreed
  <2>1. /\ connections' = connections /\ silence' = silence /\ j \in Places /\ life' = life
        /\ disturbed' = disturbed
    BY <1>3 DEF CountDown, TouchFreed, Places
  <2>0. disturbed'[d] = disturbed[d] /\ disturbed'[d] >= disturbed[d]
    BY <2>1 DEF TypeOK
  <2>2. Timely(d, j) /\ d = connections[j]
    BY <2>1
  <2>3. CASE d = ka.rc
    <3>1. Registered(ka.rc)
      BY <2>1, <2>2, <2>3, RegisteredAt DEF TypeOK
    <3>2. CountDown
      BY <1>3, <3>1 DEF TouchFreed
    <3> QED
      BY <2>1, <2>2, <2>3, <3>2, Visited, PlaceType
  <2>4. CASE d # ka.rc
    <3>1. Slack(d, j)' >= Slack(d, j)
      BY <2>0, <2>1, <2>2, <2>4, PendSend, PendSlack, PlaceType
    <3>2. count'[d] = count[d] /\ asked'[d] = asked[d]
      BY <1>1, <1>3, <2>4 DEF CountDown, TouchFreed, TypeOK
    <3> QED
      BY <2>0, <2>1, <2>2, <3>1, <3>2, TimelySame
  <2> QED
    BY <2>3, <2>4
<1> QED
  BY <1>2, <1>3 DEF KaSend

(* A walk of SAY takes slack from nobody: what it may make a round miss is *)
(* counted when the walks meet.                                            *)
LEMMA TimelySay ==
    ASSUME TypeOK, TypeOK', ListOK, WalksOK, Say \/ SaySend \/ SayLook,
           NEW j \in Places, NEW d \in Client, d = connections[j]
    PROVE  Slack(d, j)' >= Slack(d, j) /\ disturbed'[d] >= disturbed[d]
<1>0. /\ UNCHANGED <<connections, ka, slept>> /\ disturbed[d] \in Nat /\ Registered(d)
      /\ overlap \in BOOLEAN /\ overlap' \in BOOLEAN
  <2>1. Registered(d)
    BY RegisteredAt DEF TypeOK
  <2> QED
    BY <2>1 DEF Say, SaySend, SayLook, TypeOK
<1>1. ASSUME disturbed' = disturbed,
             ~KaWalks \/ (overlap /\ overlap') \/ UNCHANGED <<g_it, overlap>>
      PROVE  Slack(d, j)' >= Slack(d, j) /\ disturbed'[d] >= disturbed[d]
  <2>1. Pend(j)' = Pend(j)
    BY <1>0, <1>1 DEF Pend, Coming, KaWalks
  <2> QED
    BY <1>0, <1>1, <2>1, PendSlack, PendType, PlaceType, Constants
<1>2. CASE Say
  <2>1. CASE connections = <<>>
    BY <1>1, <1>2, <2>1 DEF Say, history
  <2>2. CASE connections # <<>>
    <3>1. First(KaWalks, ~overlap) /\ KaWalks \in BOOLEAN /\ (~overlap) \in BOOLEAN
      BY <1>2, <2>2 DEF Say, KaWalks
    <3>2. overlap' <=> KaWalks
      BY <3>1 DEF First
    <3>3. CASE KaWalks /\ ~overlap
      <4>1. disturbed' = [e \in Client |-> IF Registered(e) THEN disturbed[e] + 1 ELSE 0]
        BY <3>1, <3>3 DEF First
      <4>2. disturbed'[d] = disturbed[d] + 1
        BY <1>0, <4>1
      <4> QED
        BY <1>0, <4>2, DisturbedOne, PlaceType
    <3>4. CASE ~(KaWalks /\ ~overlap)
      <4>1. disturbed' = disturbed
        BY <3>1, <3>4 DEF First
      <4>2. ~KaWalks \/ (overlap /\ overlap')
        BY <3>2, <3>4
      <4> QED
        BY <1>1, <4>1, <4>2
    <3> QED
      BY <3>3, <3>4
  <2> QED
    BY <2>1, <2>2
<1>3. CASE SaySend
  <2>1. disturbed' = disturbed /\ overlap' = overlap /\ SayWalks
    BY <1>3 DEF SaySend, history, SayWalks
  <2>2. ~KaWalks \/ (overlap /\ overlap')
    BY <2>1 DEF WalksOK
  <2> QED
    BY <1>1, <2>1, <2>2
<1>4. CASE SayLook
  <2>1. disturbed' = disturbed /\ SayWalks /\ g_it' = g_it
    BY <1>4 DEF SayLook, SayWalks
  <2>2. KaWalks => overlap' = overlap
    <3>1. CASE PastTheEnd
      BY <1>4, <3>1 DEF SayLook
    <3>2. CASE ~PastTheEnd
      <4>1. overlap' = (overlap /\ (KaWalks \/ say'.at # "no"))
        BY <1>4, <3>2 DEF SayLook
      <4> QED
        BY <1>0, <4>1
    <3> QED
      BY <3>1, <3>2
  <2>3. ~KaWalks \/ (overlap /\ overlap')
    BY <2>1, <2>2 DEF WalksOK
  <2> QED
    BY <1>1, <2>1, <2>3
<1> QED
  BY <1>2, <1>3, <1>4

(* A round begins: it has still to come by every place. *)
LEMMA TimelyWake ==
    ASSUME TypeOK, TypeOK', ListOK, WalksOK, Wake,
           NEW j \in Places, NEW d \in Client, d = connections[j]
    PROVE  Slack(d, j)' >= Slack(d, j) /\ disturbed'[d] >= disturbed[d]
<1>1. connections # <<>>
  BY DEF Places, TypeOK
<1>2. /\ First(SayWalks, TRUE) /\ ka' = Walking("send", connections[1])
      /\ connections' = connections /\ SayWalks \in BOOLEAN /\ TRUE \in BOOLEAN
  BY <1>1 DEF Wake, SayWalks
<1>3. /\ g_it' = 1 /\ overlap' = SayWalks /\ Registered(d) /\ disturbed[d] \in Nat
      /\ SayWalks => disturbed'[d] = disturbed[d] + 1
  <2>1. Registered(d) /\ disturbed[d] \in Nat
    BY RegisteredAt DEF TypeOK
  <2>2. /\ g_it' = 1 /\ overlap' = SayWalks
        /\ SayWalks => disturbed' = [e \in Client |-> IF Registered(e) THEN disturbed[e] + 1 ELSE 0]
    BY <1>2 DEF First
  <2> QED
    BY <2>1, <2>2
<1>4. CASE SayWalks
  BY <1>3, <1>4, DisturbedOne, PlaceType
<1>5. CASE ~SayWalks
  <2>1. disturbed' = disturbed
    BY <1>2, <1>5 DEF First
  <2>2. KaWalks' /\ Coming(j)'
    <3>1. j = 1 \/ j > 1
      BY PlaceType
    <3> QED
      BY <1>2, <1>3, <3>1 DEF Coming, KaWalks, Walking
  <2>3. Pend(j)' = ROUND
    BY <1>3, <1>5, <2>2 DEF Pend
  <2> QED
    BY <1>3, <2>1, <2>3, PendType, PendSlack, PlaceType, Constants
<1> QED
  BY <1>4, <1>5

LEMMA TimelyNext ==
    ASSUME TypeOK, TypeOK', ListOK, ListOK', WalksOK, AllTimely, [Next]_vars
    PROVE  AllTimely'
<1>1. \A i \in Places : Timely(connections[i], i)
  BY DEF AllTimely
<1> SUFFICES ASSUME NEW j \in Places', NEW d \in Client, d = connections'[j]
             PROVE  Timely(d, j)'
  BY PlaceTypeNext DEF AllTimely, Timely
<1>2. ASSUME UNCHANGED <<connections, ka, g_it, slept, overlap>>, disturbed'[d] = disturbed[d],
             silence'[d] = silence[d], count'[d] = count[d], asked'[d] = asked[d],
             life'[d] = "up" => life[d] = "up"
      PROVE  Timely(d, j)'
  <2>1. j \in Places /\ d = connections[j]
    BY <1>2 DEF Places
  <2>2. Slack(d, j)' >= Slack(d, j)
    BY <1>2, <2>1, SlackSame
  <2>3. disturbed'[d] >= disturbed[d]
    BY <1>2 DEF TypeOK
  <2> QED
    BY <1>1, <1>2, <2>1, <2>2, <2>3, TimelySame
<1>3. ASSUME NEW c \in Client, Connect(c) PROVE Timely(d, j)'
  BY <1>1, <1>3, TimelyConnect
<1>4. ASSUME NEW c \in Client, SlowDown(c) \/ Leave(c) PROVE Timely(d, j)'
  <2>1. life'[d] = "up" => life[d] = "up"
    BY <1>4 DEF SlowDown, Leave, TypeOK
  <2> QED
    BY <1>2, <1>4, <2>1 DEF SlowDown, Leave, threads, history
<1>5. ASSUME NEW c \in Client, NEW type \in Packet, MainRead(c, type) PROVE Timely(d, j)'
  BY <1>2, <1>5 DEF MainRead, history
<1>6. ASSUME NEW c \in Client, MainDisconnect(c) PROVE Timely(d, j)'
  <2>1. Close(c) /\ UNCHANGED <<ka, g_it, slept, life, overlap>>
    BY <1>6 DEF MainDisconnect, threads
  <2>2. ASSUME NEW i \in Places', i \in Places, connections'[i] = connections[i]
        PROVE  Pend(i)' >= Pend(i)
    <3>1. Pend(i)' = Pend(i)
      BY <2>1, <2>2 DEF Pend, Coming, KaWalks
    <3> QED
      BY <2>2, <3>1, PendType, PlaceType, Constants
  <2> QED
    BY <1>1, <2>1, <2>2, TimelyClosed
<1>7. CASE MainDeal
  <2>0. UNCHANGED <<connections, ka, g_it, slept, overlap, life, count>>
    BY <1>7 DEF MainDeal
  <2>1. CASE silence' = silence /\ asked' = asked /\ disturbed' = disturbed
    BY <1>2, <2>0, <2>1
  <2>2. CASE ~(silence' = silence /\ asked' = asked /\ disturbed' = disturbed)
    <3>1. /\ silence' = [silence EXCEPT ![main[1]] = 0]
          /\ asked' = [asked EXCEPT ![main[1]] = NotAsked]
          /\ disturbed' = [disturbed EXCEPT ![main[1]] = 0]
      BY <1>7, <2>2 DEF MainDeal
    <3>2. CASE d = main[1]
      <4>1. silence'[d] = 0 /\ asked'[d] = NotAsked
        BY <3>1, <3>2 DEF TypeOK
      <4> QED
        BY <4>1, Afresh, PlaceTypeNext
    <3>3. CASE d # main[1]
      <4>1. silence'[d] = silence[d] /\ asked'[d] = asked[d] /\ disturbed'[d] = disturbed[d]
        BY <3>1, <3>3 DEF TypeOK
      <4> QED
        BY <1>2, <2>0, <4>1
    <3> QED
      BY <3>2, <3>3
  <2> QED
    BY <2>1, <2>2
<1>8. CASE Second
  <2>1. j \in Places /\ d = connections[j]
    BY <1>8 DEF Second, Places
  <2> QED
    BY <1>1, <1>8, <2>1, TimelySecond
<1>9. CASE Say \/ SaySend \/ SayLook \/ Wake
  <2>1. /\ UNCHANGED <<connections, silence, count, asked, life>>
        /\ j \in Places /\ d = connections[j]
    BY <1>9 DEF Say, SaySend, SayLook, Wake, Places
  <2>2. Slack(d, j)' >= Slack(d, j) /\ disturbed'[d] >= disturbed[d]
    BY <1>9, <2>1, TimelySay, TimelyWake
  <2> QED
    BY <1>1, <2>1, <2>2, TimelySame
<1>10. CASE KaSend
  BY <1>1, <1>10, TimelySend
<1>11. CASE KaLook
  <2>1. /\ UNCHANGED <<connections, silence, count, asked, life, disturbed>>
        /\ j \in Places /\ d = connections[j]
    BY <1>11 DEF KaLook, Places
  <2>2. Slack(d, j)' >= Slack(d, j) /\ disturbed'[d] >= disturbed[d]
    <3>1. disturbed'[d] = disturbed[d] /\ disturbed'[d] >= disturbed[d]
      BY <2>1 DEF TypeOK
    <3>2. Pend(j)' >= Pend(j) /\ j \in Nat /\ j <= MaxConnections
      BY <1>11, <2>1, PendLook, PlaceType
    <3> QED
      BY <3>1, <3>2, PendSlack
  <2> QED
    BY <1>1, <2>1, <2>2, TimelySame
<1>12. CASE UNCHANGED vars
  BY <1>2, <1>12 DEF vars, threads, history
<1> QED
  BY <1>3, <1>4, <1>5, <1>6, <1>7, <1>8, <1>9, <1>10, <1>11, <1>12 DEF Next

-----------------------------------------------------------------------------
(* The threads' pointers. *)

LEMMA Begins ==
    ASSUME TypeOK, connections # <<>>, UNCHANGED connections, g_it' = 1
    PROVE  g_it' \in Places' /\ connections'[g_it'] = connections[1]
<1>1. Len(connections) \in Nat /\ Len(connections) >= 1
  BY DEF TypeOK
<1> QED
  BY <1>1 DEF Places

(* Behind ++g_it a walk whose iterator fits the list goes on to the next   *)
(* connection or ends.                                                     *)
LEMMA GoesOn ==
    ASSUME TypeOK, g_it >= 1, g_it <= Len(connections) + 1,
           UNCHANGED <<connections, g_it>>, NEW done \in {"no", "sleep"}, NEW walk,
           walk = NextConnection(done)
    PROVE  /\ ~PastTheEnd
           /\ walk.at # "look"
           /\ walk.at = "send" => g_it' \in Places' /\ connections'[g_it'] = walk.rc
<1>1. ~PastTheEnd
  BY DEF PastTheEnd, TypeOK
<1>2. \/ NextConnection(done) = Walking(done, NONE)
      \/ g_it \in Places /\ NextConnection(done) = Walking("send", connections[g_it])
  BY <1>1, WalkType
<1> QED
  BY <1>1, <1>2 DEF Walking, Places

(* A turn of a walk whose connection is in the list and open. *)
LEMMA GoodTurn ==
    ASSUME TypeOK, ListOK, ~Lost, g_it \in Places, connections' = connections, g_it' = g_it + 1
    PROVE  /\ g_it' <= Len(connections') + 1
           /\ Registered(connections[g_it])
           /\ life[connections[g_it]] = "up"
<1>1. g_it \in 1 .. Len(connections) /\ Len(connections) \in Nat
  BY DEF Places, TypeOK
<1>2. connections[g_it] \in Client
  BY <1>1 DEF TypeOK
<1>3. Registered(connections[g_it])
  BY RegisteredAt DEF TypeOK
<1>4. life[connections[g_it]] = "up"
  <2>1. life[connections[g_it]] \notin {"slow", "gone", "cut"}
    BY <1>2 DEF Lost
  <2>2. life[connections[g_it]] # "off"
    BY DEF ListOK
  <2>3. life[connections[g_it]] \in {"off", "up", "slow", "gone", "cut"}
    BY <1>2 DEF TypeOK
  <2> QED
    BY <2>1, <2>2, <2>3
<1> QED
  BY <1>1, <1>3, <1>4

(* A turn that closes nobody or has lost one. *)
LEMMA TurnKeeps ==
    ASSUME TypeOK, ListOK, KaSend, ~Lost'
    PROVE  connections' = connections /\ life' = life /\ (CountDown \/ TouchFreed)
<1>1. ka.rc \in Client
  BY DEF KaSend, TypeOK
<1>2. ASSUME CloseExpired PROVE FALSE
  <2>1. PICK i \in Places : connections[i] = ka.rc
    BY <1>2, RegisteredAt DEF CloseExpired, TypeOK
  <2>2. life[ka.rc] # "off" /\ life[ka.rc] \in {"off", "up", "slow", "gone", "cut"}
    BY <1>1, <2>1 DEF ListOK, TypeOK
  <2>3. life' = [life EXCEPT ![ka.rc] = IF life[ka.rc] = "up" THEN "cut" ELSE life[ka.rc]]
    BY <1>2 DEF CloseExpired
  <2>4. life'[ka.rc] = IF life[ka.rc] = "up" THEN "cut" ELSE life[ka.rc]
    BY <1>1, <2>3 DEF TypeOK
  <2>5. life'[ka.rc] \in {"slow", "gone", "cut"}
    BY <2>2, <2>4
  <2> QED
    BY <1>1, <2>5 DEF Lost
<1> QED
  BY <1>2 DEF KaSend, CountDown, TouchFreed

(* What a step may change while nobody is lost. *)
LEMMA LostSame == life' = life => (Lost <=> Lost')
  BY DEF Lost

LEMMA AlignedNext ==
    ASSUME TypeOK, TypeOK', ListOK, WalksOK, Aligned, [Next]_vars
    PROVE  Aligned'
<1> DEFINE Points == main' # NONE => Registered(main[1])'
           Fits == ~overlap' => OnList(ka)' /\ OnList(say)'
<1> SUFFICES ASSUME server' = "up", ~Lost'
             PROVE  Points /\ Fits
  BY DEF Aligned
<1>1. ASSUME server = "up", ~Lost
      PROVE  /\ main # NONE => Registered(main[1])
             /\ ~overlap => OnList(ka) /\ OnList(say)
  BY <1>1 DEF Aligned
<1>2. ASSUME UNCHANGED threads, overlap' = overlap, connections' = connections, life' = life, server = "up"
      PROVE  Points /\ Fits
  <2>1. ~Lost
    BY <1>2, LostSame
  <2> QED
    BY <1>1, <1>2, <2>1 DEF threads, OnList, Places, Registered
<1>3. ASSUME NEW c \in Client, Connect(c) PROVE Points /\ Fits
  <2>1. main' = NONE /\ ~KaWalks /\ ~SayWalks /\ ka' = ka /\ say' = say
    BY <1>3 DEF Connect, threads, TypeOK
  <2> QED
    BY <2>1 DEF OnList, KaWalks, SayWalks
<1>4. ASSUME NEW c \in Client, SlowDown(c) \/ Leave(c) PROVE FALSE
  <2>1. life'[c] \in {"slow", "gone"}
    BY <1>4 DEF SlowDown, Leave, TypeOK
  <2> QED
    BY <2>1 DEF Lost
<1>5. ASSUME NEW c \in Client, MainDisconnect(c) PROVE FALSE
  <2>1. life' = life /\ life[c] = "gone"
    BY <1>5 DEF MainDisconnect
  <2> QED
    BY <2>1 DEF Lost
<1>6. ASSUME NEW c \in Client, NEW type \in Packet, MainRead(c, type) PROVE Points /\ Fits
  <2>1. /\ main' = <<c, type>> /\ Registered(c) /\ server = "up"
        /\ UNCHANGED <<connections, ka, say, g_it, life, overlap>>
    BY <1>6 DEF MainRead, history
  <2>2. Points
    BY <2>1 DEF Registered
  <2>3. ~Lost
    BY <2>1, LostSame
  <2> QED
    BY <1>1, <2>1, <2>2, <2>3 DEF OnList, Places
<1>7. CASE MainDeal
  <2>1. /\ main' = NONE /\ server = "up"
        /\ UNCHANGED <<connections, ka, say, g_it, life, overlap>>
    BY <1>7 DEF MainDeal
  <2>2. ~Lost
    BY <2>1, LostSame
  <2> QED
    BY <1>1, <2>1, <2>2 DEF OnList, Places
<1>8. CASE Say
  <2>1. server = "up" /\ UNCHANGED <<connections, ka, life>>
    BY <1>8 DEF Say
  <2>2. ~Lost
    BY <2>1, LostSame
  <2>3. CASE connections = <<>>
    <3>1. main' = NONE /\ UNCHANGED <<g_it, say, overlap>>
      BY <1>8, <2>3 DEF Say, history
    <3> QED
      BY <1>1, <2>1, <2>2, <3>1 DEF OnList, Places
  <2>4. CASE connections # <<>>
    <3>1. /\ g_it' = 1 /\ overlap' = KaWalks /\ main' = main
          /\ say' = Walking("send", connections[1])
      BY <1>8, <2>4 DEF Say, First
    <3>2. Points
      BY <1>1, <2>1, <2>2, <3>1 DEF Registered
    <3>3. OnList(say)'
      BY <2>1, <2>4, <3>1, Begins DEF OnList, Walking
    <3>4. ~overlap' => OnList(ka)'
      BY <2>1, <3>1 DEF OnList, KaWalks
    <3> QED
      BY <3>2, <3>3, <3>4
  <2> QED
    BY <2>3, <2>4
<1>9. CASE SaySend
  <2>1. /\ server = "up" /\ UNCHANGED <<connections, ka, life, main, overlap>> /\ SayWalks
        /\ say.at = "send" /\ say' = Walking("look", NONE) /\ g_it' = g_it + 1
    BY <1>9 DEF SaySend, history, SayWalks
  <2>2. ~Lost
    BY <2>1, LostSame
  <2>3. Points
    BY <1>1, <2>1, <2>2 DEF Registered
  <2>4. ASSUME ~overlap PROVE OnList(ka)' /\ OnList(say)'
    <3>1. ~KaWalks /\ g_it \in Places
      BY <1>1, <2>1, <2>2, <2>4 DEF WalksOK, OnList
    <3>2. OnList(ka)'
      BY <2>1, <3>1 DEF OnList, KaWalks
    <3>3. OnList(say)'
      BY <2>1, <2>2, <3>1, GoodTurn DEF OnList, Walking
    <3> QED
      BY <3>2, <3>3
  <2> QED
    BY <2>1, <2>3, <2>4
<1>10. CASE SayLook
  <2>1. /\ server = "up" /\ UNCHANGED <<connections, g_it, ka, life>>
        /\ say.at = "look" /\ SayWalks /\ ~PastTheEnd /\ main # NONE
    BY <1>10 DEF SayLook, SayWalks, TypeOK
  <2>2. ~Lost
    BY <2>1, LostSame
  <2>3. /\ say' = NextConnection("no") /\ main' = IF say'.at = "no" THEN NONE ELSE main
        /\ overlap' = (overlap /\ (KaWalks \/ say'.at # "no"))
    BY <1>10, <2>1 DEF SayLook
  <2>4. Points
    BY <1>1, <2>1, <2>2, <2>3 DEF Registered
  <2>5. CASE ~overlap
    <3>1. ~KaWalks /\ g_it <= Len(connections) + 1 /\ g_it >= 1
      BY <1>1, <2>1, <2>2, <2>5 DEF WalksOK, OnList, TypeOK
    <3>2. OnList(ka)'
      BY <2>1, <3>1 DEF OnList, KaWalks
    <3>3. OnList(say)'
      BY <2>1, <2>3, <3>1, GoesOn DEF OnList
    <3> QED
      BY <2>4, <3>2, <3>3
  <2>6. CASE overlap /\ ~overlap'
    <3>1. ~KaWalks /\ say'.at = "no"
      BY <2>3, <2>6
    <3> QED
      BY <2>1, <2>4, <3>1 DEF OnList, KaWalks
  <2> QED
    BY <2>4, <2>5, <2>6
<1>11. CASE Second
  <2>1. server = "up" /\ UNCHANGED <<connections, g_it, ka, main, say, life, overlap>>
    BY <1>11 DEF Second, history
  <2>2. ~Lost
    BY <2>1, LostSame
  <2> QED
    BY <1>1, <2>1, <2>2 DEF OnList, Places, Registered
<1>12. CASE Wake
  <2>1. server = "up" /\ UNCHANGED <<connections, say, life, main>>
    BY <1>12 DEF Wake
  <2>2. ~Lost
    BY <2>1, LostSame
  <2>3. Points
    BY <1>1, <2>1, <2>2 DEF Registered
  <2>4. CASE connections = <<>>
    <3>1. UNCHANGED <<g_it, ka, overlap>>
      BY <1>12, <2>4 DEF Wake, history
    <3> QED
      BY <1>1, <2>1, <2>2, <2>3, <3>1 DEF OnList, Places
  <2>5. CASE connections # <<>>
    <3>1. /\ g_it' = 1 /\ overlap' = SayWalks
          /\ ka' = Walking("send", connections[1])
      BY <1>12, <2>5 DEF Wake, First
    <3>2. OnList(ka)'
      BY <2>1, <2>5, <3>1, Begins DEF OnList, Walking
    <3>3. ~overlap' => OnList(say)'
      BY <2>1, <3>1 DEF OnList, SayWalks
    <3> QED
      BY <2>3, <3>2, <3>3
  <2> QED
    BY <2>4, <2>5
<1>13. CASE KaSend
  <2>1. /\ server = "up" /\ UNCHANGED <<main, say, overlap>> /\ KaWalks
        /\ ka.at = "send" /\ ka' = Walking("look", NONE) /\ g_it' = g_it + 1
    BY <1>13 DEF KaSend, KaWalks
  <2>2. connections' = connections /\ life' = life /\ ~Lost
    BY <1>13, TurnKeeps, LostSame
  <2>3. Points
    BY <1>1, <2>1, <2>2 DEF Registered
  <2>4. ASSUME ~overlap PROVE OnList(ka)' /\ OnList(say)'
    <3>1. ~SayWalks /\ g_it \in Places
      BY <1>1, <2>1, <2>2, <2>4 DEF WalksOK, OnList
    <3>2. OnList(say)'
      BY <2>1, <3>1 DEF OnList, SayWalks
    <3>3. OnList(ka)'
      BY <2>1, <2>2, <3>1, GoodTurn DEF OnList, Walking
    <3> QED
      BY <3>2, <3>3
  <2> QED
    BY <2>1, <2>3, <2>4
<1>14. CASE KaLook
  <2>1. /\ server = "up" /\ UNCHANGED <<connections, g_it, say, life, main>>
        /\ ka.at = "look" /\ KaWalks /\ ~PastTheEnd
    BY <1>14 DEF KaLook, KaWalks
  <2>2. ~Lost
    BY <2>1, LostSame
  <2>3. /\ ka' = NextConnection("sleep")
        /\ overlap' = (overlap /\ (SayWalks \/ ka'.at # "sleep"))
    BY <1>14, <2>1 DEF KaLook
  <2>4. Points
    BY <1>1, <2>1, <2>2 DEF Registered
  <2>5. CASE ~overlap
    <3>1. ~SayWalks /\ g_it <= Len(connections) + 1 /\ g_it >= 1
      BY <1>1, <2>1, <2>2, <2>5 DEF WalksOK, OnList, TypeOK
    <3>2. OnList(say)'
      BY <2>1, <3>1 DEF OnList, SayWalks
    <3>3. OnList(ka)'
      BY <2>1, <2>3, <3>1, GoesOn DEF OnList
    <3> QED
      BY <2>4, <3>2, <3>3
  <2>6. CASE overlap /\ ~overlap'
    <3>1. ~SayWalks /\ ka'.at = "sleep"
      BY <2>3, <2>6
    <3> QED
      BY <2>1, <2>4, <3>1 DEF OnList, SayWalks
  <2> QED
    BY <2>4, <2>5, <2>6
<1>15. CASE UNCHANGED vars
  BY <1>2, <1>15 DEF vars, history
<1> QED
  BY <1>3, <1>4, <1>5, <1>6, <1>7, <1>8, <1>9, <1>10, <1>11, <1>12, <1>13, <1>14, <1>15 DEF Next

LEMMA CrashNext ==
    ASSUME TypeOK, TypeOK', ListOK, WalksOK, Aligned, CrashNeedsLoss, [Next]_vars
    PROVE  CrashNeedsLoss'
<1> SUFFICES ASSUME server' = "crashed", ~Lost', ~overlap' PROVE FALSE
  BY DEF CrashNeedsLoss
<1>1. ASSUME server = "up", ~Lost
      PROVE  /\ main # NONE => Registered(main[1])
             /\ ~overlap => OnList(ka) /\ OnList(say)
  BY <1>1 DEF Aligned
<1>2. CASE MainDeal
  <2>1. /\ server = "up" /\ main # NONE /\ life' = life /\ SendTo(main[1])
        /\ main[1] \in Client
    BY <1>2 DEF MainDeal, TypeOK
  <2>2. ~Lost
    BY <2>1, LostSame
  <2>3. life[main[1]] = "gone"
    BY <1>1, <2>1, <2>2, SendToType
  <2> QED
    BY <2>1, <2>2, <2>3 DEF Lost
<1>3. CASE SaySend
  <2>1. /\ server = "up" /\ UNCHANGED <<life, overlap>> /\ say.at = "send" /\ SendTo(say.rc)
        /\ say.rc \in Client /\ ~overlap
    BY <1>3 DEF SaySend, TypeOK, history
  <2>2. ~Lost
    BY <2>1, LostSame
  <2>3. connections[g_it] = say.rc /\ g_it \in Places
    BY <1>1, <2>1, <2>2 DEF OnList
  <2>4. Registered(say.rc)
    BY <2>3, RegisteredAt DEF TypeOK
  <2>5. life[say.rc] = "gone"
    BY <2>1, <2>4, SendToType
  <2> QED
    BY <2>1, <2>2, <2>5 DEF Lost
<1>4. CASE SayLook
  <2>1. /\ server = "up" /\ life' = life /\ say.at = "look" /\ PastTheEnd /\ overlap' = overlap
    BY <1>4 DEF SayLook
  <2>2. ~Lost
    BY <2>1, LostSame
  <2>3. g_it <= Len(connections) + 1
    BY <1>1, <2>1, <2>2 DEF OnList
  <2> QED
    BY <2>1, <2>3 DEF PastTheEnd, TypeOK
<1>5. CASE KaSend
  <2>1. server = "up" /\ ka.at = "send" /\ ~overlap /\ ka.rc \in Client
    BY <1>5 DEF KaSend, TypeOK
  <2>2. life' = life /\ (CountDown \/ TouchFreed) /\ ~Lost
    BY <1>5, TurnKeeps, LostSame
  <2>3. connections[g_it] = ka.rc /\ g_it \in Places
    BY <1>1, <2>1, <2>2 DEF OnList
  <2>4. Registered(ka.rc)
    BY <2>3, RegisteredAt DEF TypeOK
  <2>5. SendTo(ka.rc)
    BY <2>1, <2>2, <2>4 DEF CountDown, TouchFreed
  <2>6. life[ka.rc] = "gone"
    BY <2>4, <2>5, SendToType
  <2> QED
    BY <2>1, <2>2, <2>6 DEF Lost
<1>6. CASE KaLook
  <2>1. /\ server = "up" /\ life' = life /\ ka.at = "look" /\ PastTheEnd /\ overlap' = overlap
    BY <1>6 DEF KaLook
  <2>2. ~Lost
    BY <2>1, LostSame
  <2>3. g_it <= Len(connections) + 1
    BY <1>1, <2>1, <2>2 DEF OnList
  <2> QED
    BY <2>1, <2>3 DEF PastTheEnd, TypeOK
<1>7. CASE UNCHANGED vars
  <2>1. server = "crashed" /\ ~overlap /\ life' = life
    BY <1>7 DEF vars, history
  <2> QED
    BY <2>1, LostSame DEF CrashNeedsLoss
<1> QED
  BY <1>2, <1>3, <1>4, <1>5, <1>6, <1>7
     DEF Next, Connect, SlowDown, Leave, MainRead, MainDisconnect, Second, Wake, Say

-----------------------------------------------------------------------------
(* The theorems. *)

LEMMA BoundedSlack ==
    ASSUME TypeOK, NEW c \in Client, NEW i \in Nat, 1 <= i, i <= MaxConnections
    PROVE  Slack(c, i) <= Times(MaxConnections + disturbed[c])
<1> DEFINE missed == MaxConnections - i + disturbed[c]
           most == MaxConnections - 1 + disturbed[c]
<1>0. disturbed[c] \in Nat
  BY DEF TypeOK
<1>1. missed \in Int /\ most \in Int /\ missed <= most /\ MaxConnections + disturbed[c] = most + 1
  BY <1>0, Constants
<1>2. Slack(c, i) = Times(missed) + Pend(i)
  BY DEF Slack
<1> HIDE DEF missed, most
<1>3. Times(missed) <= Times(most) /\ Times(most + 1) = Times(most) + ROUND
  BY <1>1, TimesMonotone, TimesNext
<1>4. Times(missed) \in Int /\ Times(most) \in Int
  BY <1>1, TimesType
<1> QED
  BY <1>1, <1>2, <1>3, <1>4, PendType, Constants

LEMMA TimelyBounded ==
    ASSUME TypeOK, ListOK, \A i \in Places : Timely(connections[i], i)
    PROVE  SilenceBounded
<1> SUFFICES ASSUME NEW c \in Client, Registered(c)
             PROVE  silence[c] <= DEAD_TIME + ROUND * (MaxConnections + disturbed[c])
  BY DEF SilenceBounded
<1> DEFINE most == MaxConnections + disturbed[c]
<1>1. PICK i \in Places : connections[i] = c
  BY RegisteredAt DEF TypeOK
<1>2. silence[c] <= DEAD_TIME + Slack(c, i)
  BY <1>1 DEF Timely
<1>3. Slack(c, i) <= Times(most) /\ Slack(c, i) \in Nat
  BY BoundedSlack, SlackType, PlaceType
<1>4. most \in Int /\ silence[c] \in Nat
  BY Constants DEF TypeOK
<1> HIDE DEF most
<1>5. Times(most) \in Int
  BY <1>4, TimesType
<1>6. silence[c] <= DEAD_TIME + Times(most)
  BY <1>2, <1>3, <1>4, <1>5, Constants
<1> QED
  BY <1>6 DEF Times, most

LEMMA InvInit == Init => Inv
<1> SUFFICES ASSUME Init PROVE Inv
  OBVIOUS
<1>1. Places = {}
  BY DEF Init, Places
<1>2. ListOK
  BY <1>1, Constants DEF Init, ListOK
<1>3. AllTimely
  BY <1>1 DEF AllTimely
<1>4. Aligned /\ CrashNeedsLoss /\ WalksOK
  BY DEF Init, Aligned, OnList, CrashNeedsLoss, WalksOK, KaWalks, SayWalks, Walking
<1> QED
  BY TypeInit, <1>2, <1>3, <1>4 DEF Inv

LEMMA InvNext == Inv /\ [Next]_vars => Inv'
  BY TypeNext, ListNext, WalksOKNext, TimelyNext, AlignedNext, CrashNext DEF Inv

(* The list has no doubles, every connection's silence is bounded by its   *)
(* place and the rounds SAY has disturbed, and the threads' pointers and   *)
(* iterator fit the list while nobody has been lost and no walks overlap:  *)
(* together these hold in every state the server reaches.                  *)
THEOREM Invariant == Spec => []Inv
  BY InvInit, InvNext, PTL DEF Spec

(* A silent client is closed in bounded time (keepalive.cpp send_ka,       *)
(* next_connection), but for the rounds that a walk of SAY disturbs        *)
(* (server.cpp:134): for any number of connections, times and messages.    *)
THEOREM SilentClosed == Spec => []SilenceBounded
<1>1. Inv => SilenceBounded
  BY TimelyBounded DEF Inv, AllTimely
<1> QED
  BY <1>1, Invariant, PTL

(* The races of the main thread and the keepalive thread on the list       *)
(* (server.cpp process_packet, connection_info.cpp close_connection and    *)
(* next_connection) end the server only when a client has been lost or cut *)
(* off, or while a walk of SAY and one of the keepalive thread overlap.    *)
THEOREM CrashFree == Spec => []CrashNeedsLoss
<1>1. Inv => CrashNeedsLoss
  BY DEF Inv
<1> QED
  BY <1>1, Invariant, PTL

(* A step that drops the connection of a prompt client is one of send_ka's *)
(* (its test for DEAD_TIME, close_connection), and only when DEAD_TIME is  *)
(* less than two KEEPALIVEs and an answer may take, with all the erases    *)
(* that so many connections allow and the rounds SAY has disturbed.        *)
THEOREM NeverDropped == Spec => PromptKept
<1> DEFINE Dropped(c) == Registered(c) /\ ~Registered(c)'
<1>1. ASSUME Inv, [Next]_vars, NEW c \in Client, Dropped(c)
      PROVE  life[c] = "up" => Answered(c) > DEAD_TIME
  <2>1. TypeOK /\ ListOK /\ AllTimely
    BY <1>1 DEF Inv
  <2>2. connections' # connections
    BY <1>1 DEF Registered
  <2>3. ASSUME NEW d \in Client, Connect(d) PROVE FALSE
    <3>1. connections' = Append(connections, d)
      BY <2>3 DEF Connect
    <3>2. PICK i \in Places : connections[i] = c
      BY <1>1, <2>1, RegisteredAt DEF TypeOK
    <3>3. i \in Places' /\ connections'[i] = c
      BY <2>1, <3>1, <3>2, AppendFacts DEF TypeOK
    <3> QED
      BY <1>1, <3>3 DEF Registered, Places, ToSet
  <2>4. ASSUME NEW d \in Client, Close(d) PROVE c = d
    <3>1. PICK i \in Places : connections[i] = c
      BY <1>1, <2>1, RegisteredAt DEF TypeOK
    <3>2. PICK k \in Places :
            /\ connections[k] = d
            /\ connections' \in Seq(Client)
            /\ Len(connections') = Len(connections) - 1
            /\ \A j \in Places' :
                  connections'[j] = IF j < k THEN connections[j] ELSE connections[j + 1]
      BY <2>1, <2>4, CloseFacts DEF TypeOK
    <3>3. i \in 1 .. Len(connections) /\ k \in 1 .. Len(connections) /\ Len(connections) \in Nat
      BY <2>1 DEF Places, TypeOK
    <3>4. ASSUME NEW j \in Places', connections'[j] = c PROVE FALSE
      BY <1>1, <3>2, <3>4 DEF Registered, Places, ToSet
    <3>5. CASE i < k
      <4>1. i \in Places' /\ connections'[i] = c
        BY <3>1, <3>2, <3>3, <3>5 DEF Places
      <4> QED
        BY <3>4, <4>1
    <3>6. CASE i > k
      <4>1. i - 1 \in Places' /\ ~(i - 1 < k) /\ i - 1 + 1 = i
        BY <3>2, <3>3, <3>6 DEF Places
      <4>2. connections'[i - 1] = c
        BY <3>1, <3>2, <4>1
      <4> QED
        BY <3>4, <4>1, <4>2
    <3> QED
      BY <3>1, <3>2, <3>3, <3>5, <3>6
  <2>5. ASSUME NEW d \in Client, MainDisconnect(d) PROVE life[c] # "up"
    BY <2>4, <2>5 DEF MainDisconnect
  <2>6. CASE KaSend
    <3>1. CloseExpired /\ ka.rc \in Client
      BY <2>1, <2>2, <2>6 DEF KaSend, CountDown, TouchFreed, TypeOK
    <3>2. c = ka.rc /\ Expired(c)
      BY <2>4, <3>1 DEF CloseExpired
    <3>3. PICK i \in Places : connections[i] = c
      BY <1>1, <2>1, RegisteredAt DEF TypeOK
    <3>4. Timely(c, i)
      BY <2>1, <3>3 DEF AllTimely
    <3> QED
      BY <2>1, <3>2, <3>3, <3>4, PromptInTime, PlaceType
  <2> QED
    BY <1>1, <2>2, <2>3, <2>5, <2>6
       DEF Next, vars, SlowDown, Leave, MainRead, MainDeal, Second, Wake,
           Say, SaySend, SayLook, KaLook
<1>2. Inv /\ [Next]_vars =>
        [\A c \in Client : Registered(c) /\ ~Registered(c)' /\ life[c] = "up"
                               => Answered(c) > DEAD_TIME]_vars
  BY <1>1
<1> QED
  BY <1>2, Invariant, PTL DEF Spec, PromptKept

=============================================================================
