--------------------------- MODULE EventLoopProofs ---------------------------
(***************************************************************************)
(* Proofs about EventLoop, for any number of connections, descriptors and  *)
(* packets and any size of the buffer.                                     *)
(***************************************************************************)
EXTENDS EventLoop, SequenceTheorems, FiniteSetTheorems, WellFoundedInduction, TLAPS

-----------------------------------------------------------------------------
(* The inductive invariant. *)

Event == Descriptor \cup {LISTEN}
InReady == 1 .. Len(ready)
InBacklog == 1 .. Len(backlog)

(* The kernel's lists name everything once, and a connection has one       *)
(* descriptor, or waits for it, from the time its client has called.       *)
ReadyOnce == \A i, j \in InReady : ready[i] = ready[j] => i = j
BacklogOnce == \A i, j \in InBacklog : backlog[i] = backlog[j] => i = j
Called ==
    /\ \A i \in InBacklog : life[backlog[i]] # "new"
    /\ \A fd \in Descriptor : owner[fd] # NONE => life[owner[fd]] # "new"
OwnerOnce ==
    /\ \A fd, gd \in Descriptor : owner[fd] = owner[gd] /\ owner[fd] # NONE => fd = gd
    /\ \A i \in InBacklog : \A fd \in Descriptor : owner[fd] # backlog[i]

(* The server's list and the kernel agree, but for the descriptor that is  *)
(* closed and not yet erased: accept may return it, but until the erase    *)
(* the new connection waits for the lock.                                  *)
ListOK ==
    server = "up" =>
        /\ \A fd \in Descriptor :
              connections[fd] # NONE => ka = fd \/ owner[fd] = connections[fd]
        /\ \A fd \in watched : connections[fd] = owner[fd] /\ owner[fd] # NONE /\ ka # fd
        /\ main.at = "add" =>
              /\ main.fd \in Descriptor /\ owner[main.fd] # NONE
              /\ connections[main.fd] # NONE => ka = main.fd
        /\ main.at = "recv" => main.fd \in Descriptor

(* The events that are still to be used. *)
Unused == buff_now + 1 .. buff_size

(* As long as nobody is lost and no signal comes, each of them is for      *)
(* another descriptor, one that has a packet for its connection; so is     *)
(* what main is about to read.                                             *)
Calm ==
    ~Lost /\ signals = 0 /\ server = "up" =>
        /\ ka = NONE
        /\ \A i \in Unused : event_buff[i] # LISTEN =>
              event_buff[i] \in watched /\ packets[owner[event_buff[i]]] > 0
        /\ \A i, j \in Unused : event_buff[i] = event_buff[j] => i = j
        /\ main.at = "recv" =>
              /\ main.fd \in watched /\ main.socket = owner[main.fd]
              /\ main.ci = connections[main.fd] /\ packets[main.socket] > 0
              /\ \A i \in Unused : event_buff[i] # main.fd

(* The thread that is in recv finds out what has become of the list later. *)
Reading == main.at = "recv" => server = "up"

Inv == /\ TypeOK /\ InsideBuffer
       /\ ReadyOnce /\ BacklogOnce /\ Called /\ OwnerOnce
       /\ ListOK /\ NewIsNew /\ Reading /\ Calm

-----------------------------------------------------------------------------
(* Numbers and sequences. *)

(* accept has a lowest descriptor to return. *)
LEMMA LeastNumber ==
    ASSUME NEW T \in SUBSET Nat, T # {}
    PROVE  \E n \in T : \A m \in T : n <= m
<1> DEFINE R == OpToRel(<, Nat)
<1>1. IsWellFoundedOn(R, Nat)
  BY NatLessThanWellFounded
<1>2. PICK n \in T : \A m \in T : ~(<<m, n>> \in R)
  <2> HIDE DEF R
  <2> QED
    BY <1>1, WFMin
<1>3. \A m \in T : ~(m < n)
  BY <1>2 DEF OpToRel
<1> QED
  BY <1>3

LEMMA RemoveFacts ==
    ASSUME NEW S, NEW s \in Seq(S), NEW i \in 1 .. Len(s)
    PROVE  /\ RemoveAt(s, i) \in Seq(S)
           /\ Len(RemoveAt(s, i)) = Len(s) - 1
           /\ \A j \in 1 .. Len(s) - 1 :
                 RemoveAt(s, i)[j] = IF j < i THEN s[j] ELSE s[j + 1]
<1> DEFINE front == SubSeq(s, 1, i - 1)
           back == SubSeq(s, i + 1, Len(s))
<1>1. /\ front \in Seq(S) /\ Len(front) = i - 1
      /\ \A j \in 1 .. i - 1 : front[j] = s[j]
  OBVIOUS
<1>2. /\ back \in Seq(S) /\ Len(back) = Len(s) - i
      /\ \A j \in 1 .. Len(s) - i : back[j] = s[j + i]
  OBVIOUS
<1>3. RemoveAt(s, i) = front \o back
  BY DEF RemoveAt
<1> HIDE DEF front, back
<1>4. RemoveAt(s, i) \in Seq(S) /\ Len(RemoveAt(s, i)) = Len(s) - 1
  BY <1>1, <1>2, <1>3
<1>5. ASSUME NEW j \in 1 .. Len(s) - 1, j < i
      PROVE  RemoveAt(s, i)[j] = s[j]
  BY <1>1, <1>2, <1>3, <1>5
<1>6. ASSUME NEW j \in 1 .. Len(s) - 1, ~(j < i)
      PROVE  RemoveAt(s, i)[j] = s[j + 1]
  <2>1. j - (i - 1) \in 1 .. Len(s) - i /\ j - (i - 1) + i = j + 1
    BY <1>6
  <2>2. back[j - (i - 1)] = s[j + 1]
    BY <2>1, <1>2
  <2>3. (front \o back)[j] = back[j - (i - 1)]
    BY <1>1, <1>2, <1>6
  <2> QED
    BY <2>2, <2>3, <1>3
<1> QED
  BY <1>4, <1>5, <1>6

LEMMA AppendFacts ==
    ASSUME NEW S, NEW s \in Seq(S), NEW x \in S
    PROVE  /\ Append(s, x) \in Seq(S) /\ Len(s) \in Nat /\ Len(Append(s, x)) = Len(s) + 1
           /\ Append(s, x)[Len(s) + 1] = x
           /\ \A i \in 1 .. Len(s) : Append(s, x)[i] = s[i]
           /\ \A i \in 1 .. Len(s) + 1 : i \in 1 .. Len(s) \/ i = Len(s) + 1
  BY AppendProperties, LenProperties

-----------------------------------------------------------------------------
(* The ready list. *)

LEMMA SignalledFacts ==
    ASSUME TypeOK, ReadyOnce, NEW fd \in Event, ready' = Signalled(fd)
    PROVE  ready' \in Seq(Event) /\ ReadyOnce'
<1>1. ready \in Seq(Event)
  BY DEF TypeOK, Event
<1>2. CASE Contains(ready, fd)
  BY <1>1, <1>2 DEF Signalled, ReadyOnce, InReady
<1>3. CASE ~Contains(ready, fd)
  <2>1. ready' = Append(ready, fd) /\ \A i \in InReady : ready[i] # fd
    BY <1>3 DEF Signalled, Contains, InReady
  <2> QED
    BY <1>1, <2>1, AppendFacts DEF ReadyOnce, InReady
<1> QED
  BY <1>2, <1>3

LEMMA SignalSocketFacts ==
    ASSUME TypeOK, ReadyOnce, NEW c \in Connection, SignalSocket(c)
    PROVE  ready' \in Seq(Event) /\ ReadyOnce'
<1>1. CASE \E fd \in watched : owner[fd] = c
  <2>1. PICK fd \in Event : ready' = Signalled(fd)
    <3> DEFINE f == CHOOSE fd \in watched : owner[fd] = c
    <3>1. f \in watched
      BY <1>1
    <3>2. f \in Event
      BY <3>1 DEF TypeOK, Event
    <3>3. ready' = Signalled(f)
      BY <1>1 DEF SignalSocket
    <3> HIDE DEF f
    <3> QED
      BY <3>2, <3>3
  <2> QED
    BY <2>1, SignalledFacts
<1>2. CASE ~\E fd \in watched : owner[fd] = c
  <2>1. ready' = ready
    BY <1>2 DEF SignalSocket
  <2> QED
    BY <2>1 DEF TypeOK, Event, ReadyOnce, InReady
<1> QED
  BY <1>1, <1>2

LEMMA CloseFacts ==
    ASSUME TypeOK, ReadyOnce, NEW fd \in Descriptor, CloseDescriptor(fd)
    PROVE  ready' \in Seq(Event) /\ ReadyOnce'
<1>1. ready \in Seq(Event) /\ Len(ready) \in Nat
  BY DEF TypeOK, Event
<1>2. CASE ready' = ready
  BY <1>1, <1>2 DEF ReadyOnce, InReady
<1>3. CASE \E i \in InReady : ready' = RemoveAt(ready, i)
  <2>1. PICK i \in InReady : ready' = RemoveAt(ready, i)
    BY <1>3
  <2>2. /\ ready' \in Seq(Event) /\ InReady' = 1 .. Len(ready) - 1
        /\ \A j \in InReady' : ready'[j] = IF j < i THEN ready[j] ELSE ready[j + 1]
    BY <1>1, <2>1, RemoveFacts DEF InReady
  <2> DEFINE old(j) == IF j < i THEN j ELSE j + 1
  <2>3. \A j \in InReady' : old(j) \in InReady /\ ready'[j] = ready[old(j)]
    BY <1>1, <2>1, <2>2 DEF InReady
  <2>4. \A j, k \in InReady' : old(j) = old(k) => j = k
    BY <2>1, <2>2 DEF InReady
  <2> HIDE DEF old
  <2> QED
    BY <2>2, <2>3, <2>4 DEF ReadyOnce
<1> QED
  BY <1>2, <1>3 DEF CloseDescriptor, InReady

(* What epoll_wait returns: descriptors that are readable, each once.      *)
LEMMA BatchFacts ==
    ASSUME TypeOK, ReadyOnce, Batch
    PROVE  /\ buff_size' \in 1 .. EVENT_BUFF_SIZE
           /\ event_buff' \in [1 .. EVENT_BUFF_SIZE -> Event \cup {NONE}]
           /\ \A i \in 1 .. buff_size' : \E fd \in Event : event_buff'[i] = fd /\ Readable(fd)
           /\ \A i, j \in 1 .. buff_size' : event_buff'[i] = event_buff'[j] => i = j
           /\ ready' \in Seq(Event) /\ ReadyOnce'
<1> DEFINE m == Cardinality(ReadableAt)
           n == IF m < EVENT_BUFF_SIZE THEN m ELSE EVENT_BUFF_SIZE
           turn(i) == IF i <= m - n THEN n + i ELSE i - (m - n)
<1>1. /\ ready \in Seq(Event) /\ Len(ready) \in Nat
      /\ \A i \in InReady : ready[i] \in Event
  BY LenProperties, ElementOfSeq DEF TypeOK, Event, InReady
<1>2. m \in Nat
  <2>1. ReadableAt \in SUBSET InReady /\ IsFiniteSet(InReady)
    BY <1>1, FS_Interval DEF ReadableAt, InReady
  <2> QED
    BY <2>1, FS_Subset, FS_CardinalityType
<1>3. PICK found \in [1 .. m -> ReadableAt] :
         /\ \A i, j \in 1 .. m : i < j => found[i] < found[j]
         /\ n > 0
         /\ event_buff' = [i \in 1 .. EVENT_BUFF_SIZE |->
                              IF i <= n THEN ready[found[i]] ELSE event_buff[i]]
         /\ buff_size' = n
         /\ ready' = [i \in 1 .. m |-> ready[found[turn(i)]]]
  BY DEF Batch
<1> HIDE DEF m
<1>4. n \in 1 .. EVENT_BUFF_SIZE /\ n <= m /\ EVENT_BUFF_SIZE \in Nat
  BY <1>2, <1>3, EventLoopAssumption
<1> HIDE DEF n
<1>5. \A i \in 1 .. m : /\ found[i] \in InReady /\ ready[found[i]] \in Event
                        /\ Readable(ready[found[i]])
  BY <1>1, <1>3 DEF ReadableAt, InReady
<1>6. \A i, j \in 1 .. m : found[i] = found[j] => i = j
  <2>1. \A i \in 1 .. m : found[i] \in Int
    BY <1>5 DEF InReady
  <2>2. \A i, j \in 1 .. m : i < j \/ j < i \/ i = j
    BY <1>2
  <2>3. \A i, j \in 1 .. m : i < j => found[i] # found[j]
    BY <1>3, <2>1
  <2> QED
    BY <2>2, <2>3
<1>7. \A i, j \in 1 .. m : ready[found[i]] = ready[found[j]] => i = j
  BY <1>5, <1>6 DEF ReadyOnce
<1>8. /\ \A i \in 1 .. n : i \in 1 .. m /\ event_buff'[i] = ready[found[i]]
      /\ event_buff' \in [1 .. EVENT_BUFF_SIZE -> Event \cup {NONE}]
  BY <1>2, <1>3, <1>4, <1>5 DEF TypeOK, Event
<1>9. \A i \in 1 .. m : turn(i) \in 1 .. m
  BY <1>2, <1>4
<1>10. \A i, j \in 1 .. m : turn(i) = turn(j) => i = j
  BY <1>2, <1>4
<1> HIDE DEF turn
<1>11. ready' \in [1 .. m -> Event]
  BY <1>3, <1>5, <1>9
<1>12. ready' \in Seq(Event) /\ Len(ready') = m
  BY <1>2, <1>11, SeqDef, LenProperties
<1>13. ReadyOnce'
  <2>1. \A i \in 1 .. m : ready'[i] = ready[found[turn(i)]]
    BY <1>3
  <2>2. \A i, j \in 1 .. m : ready'[i] = ready'[j] => i = j
    BY <1>7, <1>9, <1>10, <2>1
  <2> QED
    BY <1>12, <2>2 DEF ReadyOnce, InReady
<1>14. \A i \in 1 .. n : event_buff'[i] \in Event /\ Readable(ready[found[i]])
  BY <1>5, <1>8
<1>15. \A i, j \in 1 .. n : event_buff'[i] = event_buff'[j] => i = j
  BY <1>7, <1>8
<1> QED
  BY <1>3, <1>4, <1>8, <1>12, <1>13, <1>14, <1>15

-----------------------------------------------------------------------------
(* The clients' steps. *)

(* Whoever is lost stays lost. *)
LEMMA StillLost ==
    ASSUME \A c \in Connection : life[c] \in {"lost", "gone"} => life'[c] \in {"lost", "gone"}
    PROVE  Lost => Lost'
  BY DEF Lost

LEMMA ArriveInv ==
    ASSUME Inv, NEW c \in Connection, Arrive(c)
    PROVE  Inv'
<1>1. /\ life[c] = "new" /\ life' = [life EXCEPT ![c] = "up"]
      /\ backlog' = Append(backlog, c) /\ ready' = Signalled(LISTEN)
      /\ UNCHANGED <<server, event_buff, buff_now, buff_size, main, ka, connections, owner,
                     watched, packets, signals>>
  BY DEF Arrive, buffer
<1>2. ready' \in Seq(Event) /\ ReadyOnce'
  BY <1>1, SignalledFacts DEF Inv, Event
<1>3. /\ backlog \in Seq(Connection)
      /\ backlog' \in Seq(Connection) /\ InBacklog' = 1 .. Len(backlog) + 1
      /\ backlog'[Len(backlog) + 1] = c
      /\ \A i \in InBacklog : backlog'[i] = backlog[i]
      /\ \A i \in InBacklog' : i \in InBacklog \/ i = Len(backlog) + 1
  BY <1>1, AppendFacts DEF Inv, TypeOK, InBacklog
<1>4. TypeOK'
  BY <1>1, <1>2, <1>3 DEF Inv, TypeOK, Event
<1>5. (\A i \in InBacklog : backlog[i] # c) /\ \A fd \in Descriptor : owner[fd] # c
  BY <1>1, EventLoopAssumption DEF Inv, Called
<1>6. BacklogOnce' /\ OwnerOnce'
  BY <1>1, <1>3, <1>5 DEF Inv, BacklogOnce, OwnerOnce
<1>7. Called'
  <2>1. \A d \in Connection : life[d] # "new" => life'[d] # "new"
    BY <1>1 DEF Inv, TypeOK
  <2>2. \A i \in InBacklog : backlog[i] \in Connection
    BY <1>3, ElementOfSeq DEF InBacklog
  <2>3. life'[c] # "new"
    BY <1>1 DEF Inv, TypeOK
  <2> QED
    BY <1>1, <1>3, <2>1, <2>2, <2>3 DEF Inv, TypeOK, Called
<1>8. InsideBuffer' /\ ListOK' /\ NewIsNew' /\ Reading'
  BY <1>1 DEF Inv, InsideBuffer, ListOK, NewIsNew, Reading
<1>9. Calm'
  <2>1. Lost => Lost'
    BY <1>1, StillLost DEF Inv, TypeOK
  <2> QED
    BY <1>1, <2>1 DEF Inv, Calm, Unused
<1> QED
  BY <1>2, <1>4, <1>6, <1>7, <1>8, <1>9 DEF Inv

LEMMA SendPacketInv ==
    ASSUME Inv, NEW c \in Connection, SendPacket(c)
    PROVE  Inv'
<1>1. /\ packets[c] < MaxPackets /\ packets' = [packets EXCEPT ![c] = packets[c] + 1]
      /\ SignalSocket(c)
      /\ UNCHANGED <<server, event_buff, buff_now, buff_size, main, ka, connections, owner,
                     watched, backlog, life, signals>>
  BY DEF SendPacket, buffer
<1>2. ready' \in Seq(Event) /\ ReadyOnce'
  BY <1>1, SignalSocketFacts DEF Inv
<1>3. TypeOK'
  <2>1. packets[c] + 1 \in 0 .. MaxPackets
    BY <1>1, EventLoopAssumption DEF Inv, TypeOK
  <2>2. packets' \in [Connection -> 0 .. MaxPackets]
    BY <1>1, <2>1 DEF Inv, TypeOK
  <2> QED
    BY <1>1, <1>2, <2>2 DEF Inv, TypeOK, Event
<1>4. \A d \in Connection : packets[d] > 0 => packets'[d] > 0
  BY <1>1, EventLoopAssumption DEF Inv, TypeOK
<1>5. /\ InsideBuffer' /\ ListOK' /\ NewIsNew' /\ Reading'
      /\ BacklogOnce' /\ OwnerOnce' /\ Called'
  BY <1>1 DEF Inv, InsideBuffer, ListOK, NewIsNew, Reading, BacklogOnce, OwnerOnce,
              Called, InBacklog
<1>6. Calm'
  <2>1. server = "up" => \A fd \in watched : owner[fd] \in Connection
    BY DEF Inv, ListOK, TypeOK
  <2>2. Lost' => Lost
    BY <1>1 DEF Lost
  <2>3. Lost => Lost'
    BY <1>1 DEF Lost
  <2> QED
    BY <1>1, <1>4, <2>1, <2>3 DEF Inv, Calm, Unused
<1> QED
  BY <1>2, <1>3, <1>5, <1>6 DEF Inv

(* A client that is lost, or leaves. *)
LEMMA LostInv ==
    ASSUME Inv, NEW c \in Connection, Lose(c) \/ Leave(c)
    PROVE  Inv'
<1>1. PICK l \in {"lost", "gone"} :
         /\ life' = [life EXCEPT ![c] = l]
         /\ ready' = ready \/ SignalSocket(c)
         /\ UNCHANGED <<server, event_buff, buff_now, buff_size, main, ka, connections, owner,
                        watched, backlog, packets, signals>>
  BY DEF Lose, Leave, kernel, buffer
<1>2. ready' \in Seq(Event) /\ ReadyOnce'
  BY <1>1, SignalSocketFacts DEF Inv, TypeOK, Event, ReadyOnce, InReady
<1>3. TypeOK'
  BY <1>1, <1>2 DEF Inv, TypeOK, Event
<1>4. Lost'
  BY <1>1 DEF Lost, Inv, TypeOK
<1>5. Called'
  <2>1. \A d \in Connection : life[d] # "new" => life'[d] # "new"
    BY <1>1 DEF Inv, TypeOK
  <2>2. \A i \in InBacklog : backlog[i] \in Connection
    BY ElementOfSeq DEF InBacklog, Inv, TypeOK
  <2> QED
    BY <1>1, <2>1, <2>2 DEF Inv, TypeOK, Called, InBacklog
<1>6. /\ InsideBuffer' /\ ListOK' /\ NewIsNew' /\ Reading'
      /\ BacklogOnce' /\ OwnerOnce'
  BY <1>1 DEF Inv, InsideBuffer, ListOK, NewIsNew, Reading, BacklogOnce, OwnerOnce,
              InBacklog
<1>7. Calm'
  BY <1>4 DEF Calm
<1> QED
  BY <1>2, <1>3, <1>5, <1>6, <1>7 DEF Inv

-----------------------------------------------------------------------------
(* The main thread's steps. *)

LEMMA EpollWaitInv ==
    ASSUME Inv, EpollWait
    PROVE  Inv'
<1>1. /\ server = "up" /\ main.at = "loop" /\ Batch /\ buff_now' = 0
      /\ UNCHANGED <<server, main, ka, connections, owner, watched, backlog, packets, life, signals>>
  BY DEF EpollWait, Idle
<1>2. /\ buff_size' \in 1 .. EVENT_BUFF_SIZE
      /\ event_buff' \in [1 .. EVENT_BUFF_SIZE -> Event \cup {NONE}]
      /\ \A i \in 1 .. buff_size' : \E fd \in Event : event_buff'[i] = fd /\ Readable(fd)
      /\ \A i, j \in 1 .. buff_size' : event_buff'[i] = event_buff'[j] => i = j
      /\ ready' \in Seq(Event) /\ ReadyOnce'
  BY <1>1, BatchFacts DEF Inv
<1>3. TypeOK'
  BY <1>1, <1>2, EventLoopAssumption DEF Inv, TypeOK, Event
<1>4. InsideBuffer'
  BY <1>1, <1>2, EventLoopAssumption DEF InsideBuffer
<1>5. ListOK' /\ NewIsNew' /\ Reading' /\ BacklogOnce' /\ OwnerOnce' /\ Called'
  BY <1>1 DEF Inv, ListOK, NewIsNew, Reading, BacklogOnce, OwnerOnce, Called, InBacklog
<1>6. Calm'
  <2> SUFFICES ASSUME ~Lost, signals = 0
               PROVE  /\ ka = NONE
                      /\ \A i \in 1 .. buff_size' : event_buff'[i] # LISTEN =>
                            event_buff'[i] \in watched /\ packets[owner[event_buff'[i]]] > 0
                      /\ \A i, j \in 1 .. buff_size' : event_buff'[i] = event_buff'[j] => i = j
    <3>1. Lost => Lost'
      BY <1>1 DEF Lost
    <3> QED
      BY <1>1, <3>1 DEF Calm, Unused
  <2>1. ka = NONE
    BY <1>1 DEF Inv, Calm
  <2>2. ASSUME NEW fd \in Event, Readable(fd), fd # LISTEN
        PROVE  fd \in watched /\ packets[owner[fd]] > 0
    <3>1. fd \in watched /\ (packets[owner[fd]] > 0 \/ life[owner[fd]] = "gone")
      BY <2>2 DEF Readable
    <3>2. owner[fd] \in Connection
      BY <1>1, <3>1 DEF Inv, ListOK, TypeOK
    <3> QED
      BY <3>1, <3>2 DEF Lost
  <2> QED
    BY <1>2, <2>1, <2>2
<1> QED
  BY <1>2, <1>3, <1>4, <1>5, <1>6 DEF Inv

LEMMA EpollInterruptedInv ==
    ASSUME Inv, EpollInterrupted
    PROVE  Inv'
<1>1. /\ server = "up" /\ signals < MaxSignals /\ signals' = signals + 1
      /\ buff_size' = -1 /\ buff_now' = 0
      /\ UNCHANGED <<server, event_buff, main, ka, connections, owner, watched, ready, backlog,
                     packets, life>>
  BY DEF EpollInterrupted, Idle, kernel
<1>2. signals' \in 0 .. MaxSignals /\ signals' # 0
  BY <1>1, EventLoopAssumption DEF Inv, TypeOK
<1>3. TypeOK'
  BY <1>1, <1>2, EventLoopAssumption DEF Inv, TypeOK
<1>4. InsideBuffer' /\ Calm'
  BY <1>1, <1>2, EventLoopAssumption DEF InsideBuffer, Calm
<1>5. /\ ListOK' /\ NewIsNew' /\ Reading' /\ BacklogOnce' /\ OwnerOnce' /\ Called'
      /\ ReadyOnce'
  BY <1>1 DEF Inv, ListOK, NewIsNew, Reading, BacklogOnce, OwnerOnce, Called, InBacklog,
              ReadyOnce, InReady
<1> QED
  BY <1>3, <1>4, <1>5 DEF Inv

(* recv returns a packet. *)
LEMMA ReceivePacketInv ==
    ASSUME Inv, ReceivePacket
    PROVE  Inv'
<1>0. PICK c \in Connection : main.socket = c
  BY DEF ReceivePacket, Inv, TypeOK
<1>1. /\ server = "up" /\ main.at = "recv"
      /\ packets[c] > 0 /\ packets' = [packets EXCEPT ![c] = packets[c] - 1]
      /\ server' \in {"up", "freed"} /\ main' = Loop
      /\ UNCHANGED <<event_buff, buff_now, buff_size, ka, connections, owner, watched, ready,
                     backlog, life, signals>>
  BY <1>0 DEF ReceivePacket, Touch, buffer
<1>2. main' = [at |-> "loop", fd |-> NONE, ci |-> NONE, socket |-> NONE]
  BY <1>1 DEF Loop
<1>3. TypeOK'
  <2>1. packets[c] - 1 \in 0 .. MaxPackets
    BY <1>1, EventLoopAssumption DEF Inv, TypeOK
  <2>2. packets' \in [Connection -> 0 .. MaxPackets]
    BY <1>1, <2>1 DEF Inv, TypeOK
  <2>3. main' \in [at : {"loop", "add", "recv"}, fd : Descriptor \cup {NONE},
                   ci : Connection \cup {NONE}, socket : Connection \cup {NONE}]
    BY <1>2
  <2> QED
    BY <1>1, <2>2, <2>3 DEF Inv, TypeOK
<1>4. /\ InsideBuffer' /\ NewIsNew' /\ Reading'
      /\ BacklogOnce' /\ OwnerOnce' /\ Called' /\ ReadyOnce'
  BY <1>1, <1>2 DEF Inv, InsideBuffer, NewIsNew, Reading, BacklogOnce, OwnerOnce,
              Called, InBacklog, ReadyOnce, InReady
<1>5. ListOK'
  BY <1>1, <1>2 DEF Inv, ListOK
<1>6. Calm'
  <2> SUFFICES ASSUME ~Lost, signals = 0
               PROVE  /\ ka = NONE
                      /\ \A i \in Unused : event_buff[i] # LISTEN =>
                            event_buff[i] \in watched /\ packets'[owner[event_buff[i]]] > 0
                      /\ \A i, j \in Unused : event_buff[i] = event_buff[j] => i = j
    <3>1. Lost => Lost'
      BY <1>1 DEF Lost
    <3> QED
      BY <1>1, <1>2, <3>1 DEF Calm, Unused
  <2>1. /\ ka = NONE
        /\ \A i \in Unused : event_buff[i] # LISTEN =>
              event_buff[i] \in watched /\ packets[owner[event_buff[i]]] > 0
        /\ \A i, j \in Unused : event_buff[i] = event_buff[j] => i = j
        /\ main.fd \in watched /\ c = owner[main.fd]
        /\ \A i \in Unused : event_buff[i] # main.fd
    BY <1>0, <1>1 DEF Inv, Calm
  <2>2. ASSUME NEW fd \in watched, fd # main.fd, packets[owner[fd]] > 0
        PROVE  packets'[owner[fd]] > 0
    <3>1. owner[fd] # c /\ owner[fd] \in Connection
      BY <1>1, <2>1, <2>2 DEF Inv, OwnerOnce, ListOK, TypeOK
    <3> QED
      BY <1>1, <2>2, <3>1 DEF Inv, TypeOK
  <2> QED
    BY <2>1, <2>2
<1> QED
  BY <1>3, <1>4, <1>5, <1>6 DEF Inv

(* new_connection has the lock.  What it accepted is not on the list. *)
LEMMA AddConnectionInv ==
    ASSUME Inv, AddConnection
    PROVE  Inv'
<1>0. PICK fd \in Descriptor : main.fd = fd
  BY DEF AddConnection, Inv, ListOK
<1>1. /\ server = "up" /\ main.at = "add" /\ ka = NONE
      /\ UNCHANGED <<event_buff, buff_now, buff_size, ka, owner, backlog, packets, life, signals>>
  BY DEF AddConnection, buffer
<1>2. owner[fd] \in Connection /\ connections[fd] = NONE /\ fd \notin watched
  BY <1>0, <1>1, EventLoopAssumption DEF Inv, ListOK, TypeOK
<1>3. /\ connections' = [connections EXCEPT ![fd] = owner[fd]]
      /\ watched' = watched \cup {fd} /\ ready' = Signalled(fd)
      /\ main' = Loop /\ server' = server
  BY <1>0, <1>2 DEF AddConnection
<1>4. main' = [at |-> "loop", fd |-> NONE, ci |-> NONE, socket |-> NONE]
  BY <1>3 DEF Loop
<1>5. ready' \in Seq(Event) /\ ReadyOnce'
  BY <1>3, SignalledFacts DEF Inv, Event
<1>6. TypeOK'
  <2>1. main' \in [at : {"loop", "add", "recv"}, fd : Descriptor \cup {NONE},
                   ci : Connection \cup {NONE}, socket : Connection \cup {NONE}]
    BY <1>4
  <2>2. connections' \in [Descriptor -> Connection \cup {NONE}] /\ watched' \subseteq Descriptor
    BY <1>2, <1>3 DEF Inv, TypeOK
  <2> QED
    BY <1>1, <1>3, <1>5, <2>1, <2>2 DEF Inv, TypeOK, Event
<1>7. /\ InsideBuffer' /\ NewIsNew' /\ Reading'
      /\ BacklogOnce' /\ OwnerOnce' /\ Called'
  BY <1>1, <1>3, <1>4 DEF Inv, InsideBuffer, NewIsNew, Reading, BacklogOnce,
              OwnerOnce, Called, InBacklog
<1>8. ListOK'
  <2>1. /\ \A gd \in Descriptor \ {fd} : connections'[gd] = connections[gd]
        /\ connections'[fd] = owner[fd] /\ owner[fd] # NONE /\ ka # fd
    BY <1>1, <1>2, <1>3, EventLoopAssumption DEF Inv, TypeOK
  <2>2. watched \subseteq Descriptor
    BY DEF Inv, TypeOK
  <2> QED
    BY <1>1, <1>3, <1>4, <2>1, <2>2 DEF Inv, ListOK
<1>9. Calm'
  <2>1. Lost => Lost'
    BY <1>1 DEF Lost
  <2> QED
    BY <1>1, <1>3, <1>4, <2>1 DEF Inv, Calm, Unused
<1> QED
  BY <1>5, <1>6, <1>7, <1>8, <1>9 DEF Inv

(* What is common to the ways run_once goes: an event is used up.          *)
LEMMA EventUsed ==
    ASSUME Inv, RunOnce, server' = server
    PROVE  /\ server = "up" /\ main.at = "loop"
           /\ buff_now' = buff_now + 1 /\ buff_now' \in Nat
           /\ UNCHANGED <<event_buff, buff_size, ka, connections, watched, ready, packets,
                          life, signals>>
           /\ signals = 0 => buff_now + 1 \in Unused
           /\ \A i \in Unused' : i \in Unused /\ i # buff_now + 1
           /\ signals = 0 => buff_now' <= buff_size /\ 0 <= buff_now'
           /\ \E event \in Event \cup {NONE} :
                 /\ signals = 0 => event = event_buff[buff_now + 1]
                 /\ IF event = LISTEN THEN Accept ELSE Listen(event)
<1>1. /\ server = "up" /\ main.at = "loop" /\ buff_now # buff_size
      /\ UNCHANGED <<event_buff, buff_size, ka, connections, watched, ready, packets,
                     life, signals>>
  BY DEF RunOnce, Idle
<1>2. /\ buff_now' = buff_now + 1
      /\ \E event \in NextEvent : IF event = LISTEN THEN Accept ELSE Listen(event)
  BY <1>1 DEF RunOnce
<1>3. buff_now \in Nat /\ buff_size \in -1 .. EVENT_BUFF_SIZE /\ EVENT_BUFF_SIZE \in Nat
  BY EventLoopAssumption DEF Inv, TypeOK
<1>4. signals = 0 => buff_now < buff_size
  BY <1>1, <1>3 DEF Inv, InsideBuffer
<1>5. Unused' = buff_now + 2 .. buff_size
  BY <1>1, <1>2, <1>3 DEF Unused
<1>6. ASSUME NEW event \in NextEvent
      PROVE  event \in Event \cup {NONE} /\ (signals = 0 => event = event_buff[buff_now + 1])
  <2>1. CASE buff_now < EVENT_BUFF_SIZE
    <3>1. event = event_buff[buff_now + 1] /\ buff_now + 1 \in 1 .. EVENT_BUFF_SIZE
      BY <1>3, <1>6, <2>1 DEF NextEvent
    <3> QED
      BY <3>1 DEF Inv, TypeOK, Event
  <2>2. CASE ~(buff_now < EVENT_BUFF_SIZE)
    BY <1>3, <1>4, <1>6, <2>2 DEF NextEvent, Event
  <2> QED
    BY <2>1, <2>2
<1> QED
  BY <1>1, <1>2, <1>3, <1>4, <1>5, <1>6 DEF Unused

(* The loop has come to the end of the memory, which needs a signal.       *)
LEMMA OverrunInv ==
    ASSUME Inv, RunOnce, server' # server
    PROVE  Inv'
<1>1. /\ server' = "overrun" /\ buff_now >= EVENT_BUFF_SIZE + Behind
      /\ main.at = "loop" /\ buff_now # buff_size
      /\ UNCHANGED <<event_buff, buff_now, buff_size, main, ka, connections, owner, watched,
                     ready, backlog, packets, life, signals>>
  BY DEF RunOnce, Idle
<1>2. signals # 0
  <2>1. /\ buff_now \in Nat /\ buff_size \in -1 .. EVENT_BUFF_SIZE
        /\ EVENT_BUFF_SIZE \in Nat /\ Behind \in Nat
    BY EventLoopAssumption DEF Inv, TypeOK
  <2> QED
    BY <1>1, <2>1 DEF Inv, InsideBuffer
<1>3. TypeOK'
  BY <1>1 DEF Inv, TypeOK
<1>4. InsideBuffer' /\ ListOK' /\ NewIsNew' /\ Reading' /\ Calm'
  BY <1>1, <1>2 DEF InsideBuffer, ListOK, NewIsNew, Reading, Calm
<1>5. BacklogOnce' /\ OwnerOnce' /\ Called' /\ ReadyOnce'
  BY <1>1 DEF Inv, BacklogOnce, OwnerOnce, Called, InBacklog, ReadyOnce, InReady
<1> QED
  BY <1>3, <1>4, <1>5 DEF Inv

(* What becomes of the buffer when an event is used, and of the events     *)
(* behind it as long as their descriptors stay what they are.              *)
LEMMA UsedInv ==
    ASSUME Inv, RunOnce, server' = server,
           \A fd \in watched : owner'[fd] = owner[fd],
           main'.at # "recv" \/ /\ main'.fd \in watched /\ main'.socket = owner[main'.fd]
                                /\ main'.ci = connections[main'.fd]
                                /\ event_buff[buff_now + 1] = main'.fd
                                /\ main'.fd # LISTEN
    PROVE  InsideBuffer' /\ Calm' /\ NewIsNew' /\ Reading' /\ ReadyOnce'
<1>1. /\ server = "up" /\ main.at = "loop"
      /\ buff_now' = buff_now + 1 /\ buff_now' \in Nat
      /\ UNCHANGED <<event_buff, buff_size, ka, connections, watched, ready, packets,
                     life, signals>>
      /\ signals = 0 => buff_now + 1 \in Unused
      /\ \A i \in Unused' : i \in Unused /\ i # buff_now + 1
      /\ signals = 0 => buff_now' <= buff_size /\ 0 <= buff_now'
  BY EventUsed
<1>3. InsideBuffer' /\ NewIsNew' /\ Reading' /\ ReadyOnce'
  BY <1>1 DEF Inv, InsideBuffer, NewIsNew, Reading, ReadyOnce, InReady
<1>4. Calm'
  <2> SUFFICES ASSUME ~Lost, signals = 0
               PROVE  /\ ka = NONE
                      /\ \A i \in Unused' : event_buff[i] # LISTEN =>
                            event_buff[i] \in watched /\ packets[owner'[event_buff[i]]] > 0
                      /\ \A i, j \in Unused' : event_buff[i] = event_buff[j] => i = j
                      /\ main'.at = "recv" =>
                            /\ main'.fd \in watched /\ main'.socket = owner'[main'.fd]
                            /\ main'.ci = connections[main'.fd] /\ packets[main'.socket] > 0
                            /\ \A i \in Unused' : event_buff[i] # main'.fd
    <3>1. Lost => Lost'
      BY <1>1 DEF Lost
    <3> QED
      BY <1>1, <3>1 DEF Calm
  <2>1. /\ ka = NONE
        /\ \A i \in Unused : event_buff[i] # LISTEN =>
              event_buff[i] \in watched /\ packets[owner[event_buff[i]]] > 0
        /\ \A i, j \in Unused : event_buff[i] = event_buff[j] => i = j
    BY <1>1 DEF Inv, Calm
  <2>2. CASE main'.at = "recv"
    <3>1. packets[owner[main'.fd]] > 0
      BY <1>1, <2>1, <2>2
    <3>2. \A i \in Unused' : event_buff[i] # main'.fd
      BY <1>1, <2>1, <2>2
    <3> QED
      BY <1>1, <2>1, <2>2, <3>1, <3>2
  <2>3. CASE main'.at # "recv"
    BY <1>1, <2>1, <2>3
  <2> QED
    BY <2>2, <2>3
<1> QED
  BY <1>3, <1>4

(* A client is accepted, or none. *)
LEMMA AcceptInv ==
    ASSUME Inv, RunOnce, server' = server, Accept
    PROVE  Inv'
<1> DEFINE free == {fd \in Descriptor : owner[fd] = NONE}
<1>1. /\ server = "up" /\ main.at = "loop" /\ buff_now' \in Nat
      /\ UNCHANGED <<event_buff, buff_size, ka, connections, watched, ready, packets,
                     life, signals>>
  BY EventUsed
<1>2. CASE UNCHANGED <<main, owner, backlog>>
  <2>1. TypeOK'
    BY <1>1, <1>2 DEF Inv, TypeOK
  <2>2. ListOK' /\ BacklogOnce' /\ OwnerOnce' /\ Called'
    BY <1>1, <1>2 DEF Inv, ListOK, BacklogOnce, OwnerOnce, Called, InBacklog
  <2> QED
    BY <1>1, <1>2, <2>1, <2>2, UsedInv DEF Inv
<1>3. CASE backlog # <<>> /\ free # {}
  <2>1. PICK fd \in free : /\ owner' = [owner EXCEPT ![fd] = Head(backlog)]
                           /\ main' = [Loop EXCEPT !.at = "add", !.fd = fd]
                           /\ backlog' = Tail(backlog)
    <3> DEFINE f == CHOOSE f \in free : \A g \in free : f <= g
    <3>1. \E g \in free : \A h \in free : g <= h
      <4>1. free \in SUBSET Nat
        BY EventLoopAssumption
      <4> QED
        BY <1>3, <4>1, LeastNumber
    <3>2. f \in free
      BY <3>1
    <3>3. /\ owner' = [owner EXCEPT ![f] = Head(backlog)]
          /\ main' = [Loop EXCEPT !.at = "add", !.fd = f]
          /\ backlog' = Tail(backlog)
      BY <1>3 DEF Accept
    <3> HIDE DEF f
    <3> QED
      BY <3>2, <3>3
  <2>2. fd \in Descriptor /\ owner[fd] = NONE
    OBVIOUS
  <2>3. main' = [at |-> "add", fd |-> fd, ci |-> NONE, socket |-> NONE]
    BY <2>1 DEF Loop
  <2>4. /\ backlog \in Seq(Connection) /\ Len(backlog) \in Nat /\ 1 \in InBacklog
        /\ Head(backlog) = backlog[1] /\ backlog[1] \in Connection
        /\ backlog' \in Seq(Connection) /\ InBacklog' = 1 .. Len(backlog) - 1
        /\ \A i \in InBacklog' : backlog'[i] = backlog[i + 1] /\ i + 1 \in InBacklog
    <3>1. backlog \in Seq(Connection) /\ backlog # <<>>
      BY <1>3, EmptySeq DEF Inv, TypeOK
    <3>2. Len(backlog) \in Nat /\ Len(backlog) > 0 /\ Head(backlog) = backlog[1]
      BY <3>1, EmptySeq, LenProperties
    <3>3. /\ Tail(backlog) \in Seq(Connection) /\ Len(Tail(backlog)) = Len(backlog) - 1
          /\ \A i \in 1 .. Len(backlog) - 1 : Tail(backlog)[i] = backlog[i + 1]
      BY <3>1, <3>2, HeadTailProperties
    <3>4. backlog[1] \in Connection
      BY <3>1, <3>2, ElementOfSeq
    <3>5. \A i \in 1 .. Len(backlog) - 1 : i + 1 \in 1 .. Len(backlog)
      BY <3>2
    <3>6. 1 \in 1 .. Len(backlog)
      BY <3>2
    <3>7. backlog' = Tail(backlog)
      BY <2>1
    <3> QED
      BY <3>1, <3>2, <3>3, <3>4, <3>5, <3>6, <3>7, Zenon DEF InBacklog
  <2>5. /\ owner'[fd] = backlog[1] /\ owner'[fd] # NONE /\ owner' \in [Descriptor -> Connection \cup {NONE}]
        /\ \A gd \in Descriptor \ {fd} : owner'[gd] = owner[gd]
    BY <2>1, <2>2, <2>4, EventLoopAssumption DEF Inv, TypeOK
  <2>6. TypeOK'
    <3>1. main' \in [at : {"loop", "add", "recv"}, fd : Descriptor \cup {NONE},
                     ci : Connection \cup {NONE}, socket : Connection \cup {NONE}]
      BY <2>2, <2>3
    <3> QED
      BY <1>1, <2>4, <2>5, <3>1 DEF Inv, TypeOK
  <2>7. BacklogOnce' /\ OwnerOnce' /\ Called'
    <3>1. \A i, j \in InBacklog' : i + 1 = j + 1 => i = j
      BY <2>4
    <3>2. BacklogOnce'
      BY <2>4, <3>1 DEF Inv, BacklogOnce
    <3>3. ASSUME NEW i \in InBacklog' PROVE backlog[i + 1] # backlog[1]
      <4>1. i \in Nat /\ 1 <= i
        BY <2>4
      <4>2. i + 1 # 1
        BY <4>1
      <4>3. i + 1 \in InBacklog /\ 1 \in InBacklog
        BY <2>4
      <4> QED
        BY <4>2, <4>3 DEF Inv, BacklogOnce
    <3>4. OwnerOnce'
      <4>1. ASSUME NEW gd \in Descriptor, NEW hd \in Descriptor,
                   owner'[gd] = owner'[hd], owner'[gd] # NONE
            PROVE  gd = hd
        <5>1. \A d \in Descriptor : owner[d] # backlog[1]
          BY <2>4 DEF Inv, OwnerOnce
        <5> QED
          BY <2>5, <4>1, <5>1 DEF Inv, OwnerOnce
      <4>2. ASSUME NEW i \in InBacklog', NEW gd \in Descriptor
            PROVE  owner'[gd] # backlog'[i]
        <5>1. backlog'[i] = backlog[i + 1] /\ i + 1 \in InBacklog
          BY <2>4
        <5>2. owner[gd] # backlog[i + 1]
          BY <5>1 DEF Inv, OwnerOnce
        <5> QED
          BY <2>5, <3>3, <5>1, <5>2
      <4> QED
        BY <4>1, <4>2 DEF OwnerOnce
    <3>5. Called'
      BY <1>1, <2>4, <2>5 DEF Inv, Called
    <3> QED
      BY <3>2, <3>4, <3>5
  <2>8. fd \notin watched /\ (connections[fd] # NONE => ka = fd)
    BY <1>1, <2>2 DEF Inv, ListOK
  <2>9. ListOK'
    BY <1>1, <2>2, <2>3, <2>5, <2>8 DEF Inv, ListOK, TypeOK
  <2>10. \A gd \in watched : owner'[gd] = owner[gd]
    BY <2>5, <2>8 DEF Inv, TypeOK
  <2> QED
    BY <2>3, <2>6, <2>7, <2>9, <2>10, UsedInv DEF Inv
<1> QED
  BY <1>2, <1>3 DEF Accept

(* A connection is to be read, if its descriptor still has one.            *)
LEMMA ListenInv ==
    ASSUME Inv, RunOnce, server' = server, NEW fd \in Event \cup {NONE}, fd # LISTEN,
           signals = 0 => fd = event_buff[buff_now + 1], Listen(fd)
    PROVE  Inv'
<1>1. /\ server = "up" /\ main.at = "loop" /\ buff_now' \in Nat
      /\ UNCHANGED <<event_buff, buff_size, ka, connections, watched, ready, packets,
                     life, signals>>
      /\ signals = 0 => buff_now + 1 \in Unused
  BY EventUsed
<1>3. UNCHANGED <<owner, backlog>>
  BY DEF Listen
<1>4. \/ fd \in Descriptor /\ connections[fd] # NONE
         /\ main' = [at |-> "recv", fd |-> fd, ci |-> connections[fd], socket |-> owner[fd]]
      \/ main' = main
  BY DEF Listen
<1>5. TypeOK'
  <2>1. main' \in [at : {"loop", "add", "recv"}, fd : Descriptor \cup {NONE},
                   ci : Connection \cup {NONE}, socket : Connection \cup {NONE}]
    BY <1>4 DEF Inv, TypeOK
  <2> QED
    BY <1>1, <1>3, <2>1 DEF Inv, TypeOK
<1>6. BacklogOnce' /\ OwnerOnce' /\ Called'
  BY <1>1, <1>3 DEF Inv, BacklogOnce, OwnerOnce, Called, InBacklog
<1>7. ListOK'
  BY <1>1, <1>3, <1>4 DEF Inv, ListOK
<1>8. CASE main' = main \/ (~Lost /\ signals = 0)
  <2>1. ~Lost /\ signals = 0 => fd \in watched
    BY <1>1 DEF Inv, Calm
  <2> QED
    BY <1>1, <1>3, <1>4, <1>5, <1>6, <1>7, <1>8, <2>1, UsedInv DEF Inv
(* Once a client is lost, or a signal has come, anything may be read. *)
<1>9. CASE Lost \/ signals # 0
  <2>1. Lost => Lost'
    BY <1>1 DEF Lost
  <2>2. Calm'
    BY <1>1, <1>9, <2>1 DEF Calm
  <2>3. InsideBuffer'
    BY <1>1, EventUsed, EventLoopAssumption DEF Inv, TypeOK, InsideBuffer
  <2>4. NewIsNew' /\ Reading' /\ ReadyOnce'
    BY <1>1 DEF Inv, NewIsNew, Reading, ReadyOnce, InReady
  <2> QED
    BY <1>5, <1>6, <1>7, <2>2, <2>3, <2>4 DEF Inv
<1> QED
  BY <1>8, <1>9

LEMMA RunOnceInv ==
    ASSUME Inv, RunOnce
    PROVE  Inv'
<1>1. CASE server' # server
  BY <1>1, OverrunInv
<1>2. CASE server' = server
  <2>1. PICK event \in Event \cup {NONE} :
           /\ signals = 0 => event = event_buff[buff_now + 1]
           /\ IF event = LISTEN THEN Accept ELSE Listen(event)
    BY <1>2, EventUsed
  <2>2. CASE event = LISTEN
    BY <1>2, <2>1, <2>2, AcceptInv
  <2>3. CASE event # LISTEN
    BY <1>2, <2>1, <2>3, ListenInv
  <2> QED
    BY <2>2, <2>3
<1> QED
  BY <1>1, <1>2

(* recv fails, which it does not while nobody is lost.                     *)
LEMMA ReceiveFailsInv ==
    ASSUME Inv, ReceiveFails
    PROVE  Inv'
<1>0. PICK fd \in Descriptor : main.fd = fd
  BY DEF ReceiveFails, Inv, ListOK
<1>1. /\ server = "up" /\ main.at = "recv" /\ main' = Loop
      /\ main.socket = owner[fd] /\ main.socket # NONE => life[main.socket] = "gone"
      /\ \/ UNCHANGED <<connections, owner, watched, ready>>
         \/ connections' = [connections EXCEPT ![fd] = NONE] /\ CloseDescriptor(fd)
      /\ ka = fd => server' = "freed"
      /\ server' \in {"up", "freed"}
      /\ UNCHANGED <<event_buff, buff_now, buff_size, ka, backlog, packets, life, signals>>
  BY <1>0 DEF ReceiveFails, Touch, buffer
<1>2. main' = [at |-> "loop", fd |-> NONE, ci |-> NONE, socket |-> NONE]
  BY <1>1 DEF Loop
<1>3. \/ UNCHANGED <<connections, owner, watched>>
      \/ /\ connections' = [connections EXCEPT ![fd] = NONE]
         /\ owner' = [owner EXCEPT ![fd] = NONE] /\ watched' = watched \ {fd}
  BY <1>1 DEF CloseDescriptor
<1>4. ready' \in Seq(Event) /\ ReadyOnce'
  BY <1>1, CloseFacts DEF Inv, TypeOK, Event, ReadyOnce, InReady
<1>5. TypeOK'
  <2>1. main' \in [at : {"loop", "add", "recv"}, fd : Descriptor \cup {NONE},
                   ci : Connection \cup {NONE}, socket : Connection \cup {NONE}]
    BY <1>2
  <2> QED
    BY <1>1, <1>3, <1>4, <2>1 DEF Inv, TypeOK, Event
<1>6. \A gd \in Descriptor : owner'[gd] = owner[gd] \/ owner'[gd] = NONE
  BY <1>3 DEF Inv, TypeOK
<1>7. \A i \in InBacklog : backlog[i] \in Connection
  BY ElementOfSeq DEF InBacklog, Inv, TypeOK
<1>8. BacklogOnce' /\ OwnerOnce' /\ Called'
  BY <1>1, <1>6, <1>7, EventLoopAssumption
     DEF Inv, BacklogOnce, OwnerOnce, Called, InBacklog
<1>9. InsideBuffer' /\ NewIsNew' /\ Reading'
  BY <1>1, <1>2 DEF Inv, InsideBuffer, NewIsNew, Reading
<1>10. ListOK'
  <2> SUFFICES ASSUME server' = "up" PROVE ListOK'
    BY DEF ListOK
  <2>1. ka # fd /\ ka' = ka /\ main'.at = "loop"
    BY <1>1, <1>2
  <2>2. CASE UNCHANGED <<connections, owner, watched>>
    BY <1>1, <2>1, <2>2 DEF Inv, ListOK
  <2>3. CASE /\ connections' = [connections EXCEPT ![fd] = NONE]
             /\ owner' = [owner EXCEPT ![fd] = NONE] /\ watched' = watched \ {fd}
    <3>1. /\ connections'[fd] = NONE
          /\ \A gd \in Descriptor \ {fd} :
                connections'[gd] = connections[gd] /\ owner'[gd] = owner[gd]
          /\ watched \subseteq Descriptor
      BY <2>3 DEF Inv, TypeOK
    <3> QED
      BY <1>1, <2>1, <2>3, <3>1 DEF Inv, ListOK
  <2> QED
    BY <1>3, <2>2, <2>3
<1>11. ~Lost /\ signals = 0 => FALSE
  <2> SUFFICES ASSUME ~Lost, signals = 0 PROVE FALSE
    OBVIOUS
  <2>1. fd \in watched /\ main.socket = owner[fd]
    BY <1>0, <1>1 DEF Inv, Calm
  <2>2. owner[fd] \in Connection /\ owner[fd] # NONE
    BY <1>1, <2>1 DEF Inv, ListOK, TypeOK
  <2> QED
    BY <1>1, <2>1, <2>2 DEF Lost
<1>12. Calm'
  <2>1. Lost => Lost'
    BY <1>1 DEF Lost
  <2> QED
    BY <1>1, <1>11, <2>1 DEF Calm
<1> QED
  BY <1>4, <1>5, <1>8, <1>9, <1>10, <1>12 DEF Inv

-----------------------------------------------------------------------------
(* The keepalive thread's steps. *)

LEMMA KeepAliveCloseInv ==
    ASSUME Inv, NEW fd \in Descriptor, KeepAliveClose(fd)
    PROVE  Inv'
<1>1. /\ server = "up" /\ ka = NONE /\ connections[fd] # NONE
      /\ life[connections[fd]] \in {"lost", "gone"} /\ ka' = fd /\ CloseDescriptor(fd)
      /\ UNCHANGED <<server, event_buff, buff_now, buff_size, main, connections, backlog,
                     packets, life, signals>>
  BY DEF KeepAliveClose, buffer
<1>2. owner' = [owner EXCEPT ![fd] = NONE] /\ watched' = watched \ {fd}
  BY <1>1 DEF CloseDescriptor
<1>3. ready' \in Seq(Event) /\ ReadyOnce'
  BY <1>1, CloseFacts DEF Inv
<1>4. TypeOK'
  BY <1>1, <1>2, <1>3 DEF Inv, TypeOK, Event
<1>5. \A gd \in Descriptor : owner'[gd] = owner[gd] \/ owner'[gd] = NONE
  BY <1>2 DEF Inv, TypeOK
<1>6. \A i \in InBacklog : backlog[i] \in Connection
  BY ElementOfSeq DEF InBacklog, Inv, TypeOK
<1>7. BacklogOnce' /\ OwnerOnce' /\ Called'
  BY <1>1, <1>5, <1>6, EventLoopAssumption
     DEF Inv, BacklogOnce, OwnerOnce, Called, InBacklog
<1>8. InsideBuffer' /\ NewIsNew' /\ Reading'
  BY <1>1 DEF Inv, InsideBuffer, NewIsNew, Reading
<1>9. ListOK'
  <2>1. main.at = "add" => main.fd # fd
    BY <1>1, EventLoopAssumption DEF Inv, ListOK
  <2>2. \A gd \in Descriptor \ {fd} : owner'[gd] = owner[gd]
    BY <1>2 DEF Inv, TypeOK
  <2>3. ka # fd
    BY <1>1, EventLoopAssumption
  <2> QED
    BY <1>1, <1>2, <2>1, <2>2, <2>3, EventLoopAssumption DEF Inv, ListOK, TypeOK
<1>10. Lost'
  BY <1>1 DEF Lost, Inv, TypeOK
<1>11. Calm'
  BY <1>10 DEF Calm
<1> QED
  BY <1>3, <1>4, <1>7, <1>8, <1>9, <1>11 DEF Inv

LEMMA KeepAliveEraseInv ==
    ASSUME Inv, KeepAliveErase
    PROVE  Inv'
<1>0. PICK fd \in Descriptor : ka = fd
  BY DEF KeepAliveErase, Inv, TypeOK
<1>1. /\ server = "up" /\ connections' = [connections EXCEPT ![fd] = NONE] /\ ka' = NONE
      /\ UNCHANGED <<server, event_buff, buff_now, buff_size, main, owner, watched, ready,
                     backlog, packets, life, signals>>
  BY <1>0 DEF KeepAliveErase, buffer, kernel
<1>2. /\ TypeOK' /\ ReadyOnce' /\ BacklogOnce' /\ OwnerOnce' /\ Called'
      /\ InsideBuffer' /\ NewIsNew' /\ Reading'
  BY <1>1 DEF Inv, TypeOK, ReadyOnce, InReady, BacklogOnce, OwnerOnce, Called, InBacklog,
              InsideBuffer, NewIsNew, Reading
<1>3. ListOK'
  BY <1>0, <1>1, EventLoopAssumption DEF Inv, ListOK, TypeOK
<1>4. Calm'
  <2>1. Lost => Lost'
    BY <1>1 DEF Lost
  <2>2. Lost \/ signals # 0
    BY <1>0, <1>1, EventLoopAssumption DEF Inv, Calm
  <2> QED
    BY <1>1, <2>1, <2>2 DEF Calm
<1> QED
  BY <1>2, <1>3, <1>4 DEF Inv

-----------------------------------------------------------------------------
(* The invariant, and what follows from it. *)

LEMMA InitInv == Init => Inv
<1> SUFFICES ASSUME Init PROVE Inv
  OBVIOUS
<1>1. main = [at |-> "loop", fd |-> NONE, ci |-> NONE, socket |-> NONE]
  BY DEF Init, Loop
<1>2. TypeOK
  <2>1. /\ <<>> \in Seq(Event) /\ <<>> \in Seq(Connection)
        /\ 0 \in 0 .. EVENT_BUFF_SIZE + 1 /\ 0 \in -1 .. EVENT_BUFF_SIZE
        /\ 0 \in 0 .. MaxPackets /\ 0 \in 0 .. MaxSignals
    BY EmptySeq, EventLoopAssumption
  <2>2. main \in [at : {"loop", "add", "recv"}, fd : Descriptor \cup {NONE},
                  ci : Connection \cup {NONE}, socket : Connection \cup {NONE}]
    BY <1>1
  <2> QED
    BY <2>1, <2>2 DEF Init, TypeOK, Event
<1>3. InsideBuffer /\ NewIsNew /\ Reading
  BY EventLoopAssumption DEF Init, InsideBuffer, NewIsNew, Reading
<1>4. ReadyOnce /\ BacklogOnce /\ Called /\ OwnerOnce
  BY EventLoopAssumption
     DEF Init, ReadyOnce, InReady, BacklogOnce, InBacklog, Called, OwnerOnce
<1>5. ListOK /\ Calm
  BY <1>1 DEF Init, ListOK, Calm, Unused
<1> QED
  BY <1>2, <1>3, <1>4, <1>5 DEF Inv

LEMMA StepInv == Inv /\ [Next]_vars => Inv'
<1> SUFFICES ASSUME Inv, [Next]_vars PROVE Inv'
  OBVIOUS
<1>1. ASSUME NEW c \in Connection, Arrive(c) \/ SendPacket(c) \/ Lose(c) \/ Leave(c)
      PROVE  Inv'
  BY <1>1, ArriveInv, SendPacketInv, LostInv
<1>2. CASE MainStep \/ EpollInterrupted
  BY <1>2, EpollWaitInv, RunOnceInv, AddConnectionInv, ReceivePacketInv, ReceiveFailsInv,
     EpollInterruptedInv DEF MainStep
<1>3. ASSUME NEW fd \in Descriptor, KeepAliveClose(fd)
      PROVE  Inv'
  BY <1>3, KeepAliveCloseInv
<1>4. CASE KeepAliveErase
  BY <1>4, KeepAliveEraseInv
<1>5. CASE UNCHANGED vars
  <2>1. UNCHANGED <<server, event_buff, buff_now, buff_size, main, ka, connections, owner,
                    watched, ready, backlog, packets, life, signals>>
    BY <1>5 DEF vars, buffer, kernel
  <2>2. TypeOK'
    BY <2>1 DEF Inv, TypeOK
  <2>3. /\ ReadyOnce' /\ BacklogOnce' /\ OwnerOnce' /\ Called'
        /\ InsideBuffer' /\ NewIsNew' /\ Reading'
    BY <2>1 DEF Inv, ReadyOnce, InReady, BacklogOnce, OwnerOnce, Called, InBacklog,
                InsideBuffer, NewIsNew, Reading
  <2>4. ListOK' /\ Calm'
    BY <2>1 DEF Inv, ListOK, Calm, Lost, Unused
  <2> QED
    BY <2>2, <2>3, <2>4 DEF Inv
<1> QED
  BY <1>1, <1>2, <1>3, <1>4, <1>5 DEF Next

LEMMA InvAlways == Spec => []Inv
  BY InitInv, StepInv, PTL DEF Spec

(* Every variable has its type: accept returns a descriptor, and the lists *)
(* hold descriptors and connections.                                       *)
THEOREM TypeCorrect == Spec => []TypeOK
<1>1. Inv => TypeOK
  BY DEF Inv
<1> QED
  BY <1>1, InvAlways, PTL

(* recv waits for nothing and the connection_info in use is not deleted,   *)
(* as long as nobody is lost and no signal comes.                          *)
THEOREM NoWaitInRecvAlways == Spec => []NoWaitInRecv
<1>1. Inv => NoWaitInRecv
  BY DEF Inv, Calm, Reading, NoWaitInRecv, Freed
<1> QED
  BY <1>1, InvAlways, PTL

(* read_event stays inside of its buffer unless a signal has come.         *)
THEOREM InsideBufferAlways == Spec => []InsideBuffer
<1>1. Inv => InsideBuffer
  BY DEF Inv
<1> QED
  BY <1>1, InvAlways, PTL

(* Whatever the keepalive thread closes meanwhile, new_connection finds no *)
(* connection under the descriptor accept has returned.                    *)
THEOREM NewIsNewAlways == Spec => []NewIsNew
<1>1. Inv => NewIsNew
  BY DEF Inv
<1> QED
  BY <1>1, InvAlways, PTL

=============================================================================
