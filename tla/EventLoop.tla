------------------------------ MODULE EventLoop ------------------------------
(***************************************************************************)
(* The server's main loop, its buffer of epoll events and the descriptors  *)
(* the events name.                                                        *)
(*                                                                         *)
(* Between epoll_wait and the use of an event the keepalive thread may     *)
(* close its descriptor, and accept, which takes the lowest that is free,  *)
(* may give it to another client.  The event is then taken for one of the  *)
(* new connection's, and recv waits for a packet nobody has sent.          *)
(***************************************************************************)
EXTENDS Integers, Sequences, FiniteSets, SequencesExt

CONSTANTS
    Connection,      (* connections; each is made and closed once           *)
    Descriptor,      (* descriptors accept may return, numbers              *)
    LISTEN,          (* listen_fd                                           *)
    NONE,            (* no connection, no descriptor, an event never set    *)
    EVENT_BUFF_SIZE, (* events in event_buff                                *)
    Behind,          (* events' worth of memory behind event_buff that the  *)
                     (* process can read                                    *)
    MaxPackets,      (* bound: packets of a connection that wait            *)
    MaxSignals       (* bound: calls of epoll_wait that a signal ends       *)

ASSUME EventLoopAssumption ==
    /\ Descriptor \subseteq Nat
    /\ LISTEN \notin Descriptor
    /\ NONE \notin Connection \cup Descriptor \cup {LISTEN}
    /\ EVENT_BUFF_SIZE \in Nat \ {0}
    /\ Behind \in Nat
    /\ MaxPackets \in Nat \ {0}
    /\ MaxSignals \in Nat

VARIABLES
    server,          (* "up"; "overrun" when it has been ended for reading  *)
                     (* memory it does not have; or what its behaviour is   *)
                     (* undefined for: "nullptr", "freed"                   *)
    event_buff,      (* events of the last epoll_wait, by their descriptors *)
    buff_now,        (* events used                                         *)
    buff_size,       (* result of the last epoll_wait                       *)
    main,            (* what the main thread is at: "loop", "add" between   *)
                     (* accept and the lock, "recv"; with the descriptor,   *)
                     (* its connection_info and the socket that is read     *)
    ka,              (* keepalive thread: descriptor it has closed and not  *)
                     (* yet erased, NONE when it does not hold the lock     *)
    connections,     (* connection_info of each descriptor on the list      *)
    owner,           (* kernel: the socket of each descriptor               *)
    watched,         (* kernel: descriptors given to add_event              *)
    ready,           (* kernel: ready list of the epoll instance            *)
    backlog,         (* kernel: clients that accept has not taken           *)
    packets,         (* kernel: packets of each connection to read          *)
    life,            (* client: "new", "up", "lost" (silent for longer than *)
                     (* DEAD_TIME) or "gone" (its end is closed)            *)
    signals          (* bound: epoll_wait interrupted so far                *)

kernel == <<owner, watched, ready, backlog, packets>>
buffer == <<event_buff, buff_now, buff_size>>
vars == <<server, buffer, main, ka, connections, kernel, life, signals>>

Loop == [at |-> "loop", fd |-> NONE, ci |-> NONE, socket |-> NONE]
Idle == server = "up" /\ main.at = "loop"

-----------------------------------------------------------------------------
(* The kernel. *)

Readable(fd) ==
    IF fd = LISTEN THEN backlog # <<>>
    ELSE /\ fd \in watched
         /\ packets[owner[fd]] > 0 \/ life[owner[fd]] = "gone"

(* A descriptor that has become readable goes to the end of the ready list *)
(* unless it is there already.                                             *)
Signalled(fd) == IF Contains(ready, fd) THEN ready ELSE Append(ready, fd)
SignalSocket(c) ==
    ready' = IF \E fd \in watched : owner[fd] = c
             THEN Signalled(CHOOSE fd \in watched : owner[fd] = c) ELSE ready

(* close: the descriptor is free again, epoll forgets it. *)
CloseDescriptor(fd) ==
    /\ owner' = [owner EXCEPT ![fd] = NONE]
    /\ watched' = watched \ {fd}
    /\ \/ ~Contains(ready, fd) /\ ready' = ready
       \/ \E i \in 1 .. Len(ready) : ready[i] = fd /\ ready' = RemoveAt(ready, i)

-----------------------------------------------------------------------------
(* The clients. *)

Arrive(c) ==
    /\ life[c] = "new"
    /\ life' = [life EXCEPT ![c] = "up"]
    /\ backlog' = Append(backlog, c)
    /\ ready' = Signalled(LISTEN)
    /\ UNCHANGED <<server, buffer, main, ka, connections, owner, watched, packets, signals>>

SendPacket(c) ==
    /\ life[c] \in {"up", "lost"}
    /\ packets[c] < MaxPackets
    /\ packets' = [packets EXCEPT ![c] = @ + 1]
    /\ SignalSocket(c)
    /\ UNCHANGED <<server, buffer, main, ka, connections, owner, watched, backlog, life, signals>>

Lose(c) ==
    /\ life[c] = "up"
    /\ life' = [life EXCEPT ![c] = "lost"]
    /\ UNCHANGED <<server, buffer, main, ka, connections, kernel, signals>>

Leave(c) ==
    /\ life[c] \in {"up", "lost"}
    /\ life' = [life EXCEPT ![c] = "gone"]
    /\ SignalSocket(c)
    /\ UNCHANGED <<server, buffer, main, ka, connections, owner, watched, backlog, packets, signals>>

-----------------------------------------------------------------------------
(* read_event. *)

(* epoll_wait in the loop of read_event: up to EVENT_BUFF_SIZE descriptors *)
(* that are ready, in turn.  A timeout, 0 events, changes nothing.         *)
(* found says where in the ready list they are.                            *)
ReadableAt == {i \in 1 .. Len(ready) : Readable(ready[i])}
Batch ==
    LET m == Cardinality(ReadableAt)
        n == IF m < EVENT_BUFF_SIZE THEN m ELSE EVENT_BUFF_SIZE
    IN  \E found \in [1 .. m -> ReadableAt] :
           /\ \A i, j \in 1 .. m : i < j => found[i] < found[j]
           /\ n > 0
           /\ event_buff' = [i \in 1 .. EVENT_BUFF_SIZE |->
                                IF i <= n THEN ready[found[i]] ELSE event_buff[i]]
           /\ buff_size' = n
           /\ ready' = [i \in 1 .. m |-> ready[found[IF i <= m - n THEN n + i ELSE i - (m - n)]]]

(* Mutant: buff_now is not set back. *)
EpollWaitOn ==
    /\ Idle /\ buff_now = buff_size
    /\ Batch
    /\ UNCHANGED <<server, buff_now, main, ka, connections, owner, watched, backlog,
                   packets, life, signals>>

EpollWait ==
    /\ Idle /\ buff_now = buff_size
    /\ Batch
    /\ buff_now' = 0
    /\ UNCHANGED <<server, main, ka, connections, owner, watched, backlog,
                   packets, life, signals>>

(* epoll_wait returns -1: the process was stopped and continued.  The loop *)
(* takes it for a number of events.                                        *)
EpollInterrupted ==
    /\ Idle /\ buff_now = buff_size
    /\ signals < MaxSignals
    /\ signals' = signals + 1
    /\ buff_size' = -1
    /\ buff_now' = 0
    /\ UNCHANGED <<server, event_buff, main, ka, connections, kernel, life>>

(* new_connection as far as the lock: accept, which fails when nobody      *)
(* waits or no descriptor is free.                                         *)
Accept ==
    LET free == {fd \in Descriptor : owner[fd] = NONE} IN
    IF backlog = <<>> \/ free = {}
    THEN UNCHANGED <<main, owner, backlog>>
    ELSE LET fd == CHOOSE f \in free : \A g \in free : f <= g
         IN  /\ owner' = [owner EXCEPT ![fd] = Head(backlog)]
             /\ backlog' = Tail(backlog)
             /\ main' = [Loop EXCEPT !.at = "add", !.fd = fd]

(* listen_from_connection: find_connection, process_packet up to recv.     *)
Listen(fd) ==
    /\ main' = IF fd \in Descriptor /\ connections[fd] # NONE
               THEN [at |-> "recv", fd |-> fd, ci |-> connections[fd], socket |-> owner[fd]]
               ELSE main
    /\ UNCHANGED <<owner, backlog>>

(* event_buff[buff_now]: behind the buffer, whatever the memory holds.     *)
NextEvent == IF buff_now < EVENT_BUFF_SIZE THEN {event_buff[buff_now + 1]}
             ELSE Descriptor \cup {LISTEN, NONE}

(* run_once: the next event.  Once epoll_wait has returned -1 it is not    *)
(* called again: buff_now leaves the buffer and goes on, call by call,     *)
(* until there is no memory.                                               *)
RunOnce ==
    /\ Idle /\ buff_now # buff_size
    /\ IF buff_now >= EVENT_BUFF_SIZE + Behind
       THEN /\ server' = "overrun"
            /\ UNCHANGED <<buff_now, main, owner, backlog>>
       ELSE /\ buff_now' = buff_now + 1
            /\ UNCHANGED server
            /\ \E event \in NextEvent :
                  IF event = LISTEN THEN Accept ELSE Listen(event)
    /\ UNCHANGED <<event_buff, buff_size, ka, connections, watched, ready, packets,
                   life, signals>>

(* Mutant: new_connection without the lock. *)
AddConnectionUnlocked ==
    /\ server = "up" /\ main.at = "add"
    /\ IF connections[main.fd] # NONE
       THEN /\ server' = "nullptr"
            /\ UNCHANGED <<main, connections, watched, ready>>
       ELSE /\ connections' = [connections EXCEPT ![main.fd] = owner[main.fd]]
            /\ watched' = watched \cup {main.fd}
            /\ ready' = Signalled(main.fd)
            /\ main' = Loop
            /\ UNCHANGED server
    /\ UNCHANGED <<buffer, ka, owner, backlog, packets, life, signals>>

(* Mutant: add_event is forgotten. *)
AddConnectionUnwatched ==
    /\ server = "up" /\ main.at = "add" /\ ka = NONE
    /\ connections' = [connections EXCEPT ![main.fd] = owner[main.fd]]
    /\ main' = Loop
    /\ UNCHANGED <<server, buffer, ka, kernel, life, signals>>

(* new_connection under the lock.  A descriptor that is on the list        *)
(* already gives nullptr, whose fd is read at once.                        *)
AddConnection ==
    /\ server = "up" /\ main.at = "add" /\ ka = NONE
    /\ IF connections[main.fd] # NONE
       THEN /\ server' = "nullptr"
            /\ UNCHANGED <<main, connections, watched, ready>>
       ELSE /\ connections' = [connections EXCEPT ![main.fd] = owner[main.fd]]
            /\ watched' = watched \cup {main.fd}
            /\ ready' = Signalled(main.fd)
            /\ main' = Loop
            /\ UNCHANGED server
    /\ UNCHANGED <<buffer, ka, owner, backlog, packets, life, signals>>

Freed == connections[main.fd] # main.ci

(* The connection_info was deleted while recv ran: what follows works on   *)
(* freed memory.                                                           *)
Touch == server' \in IF Freed THEN {"up", "freed"} ELSE {"up"}

(* Mutant: one event, and packets are read until recv fails. *)
ReceiveAll ==
    /\ server = "up" /\ main.at = "recv" /\ main.socket # NONE
    /\ packets[main.socket] > 0
    /\ packets' = [packets EXCEPT ![main.socket] = @ - 1]
    /\ Touch
    /\ UNCHANGED <<buffer, main, ka, connections, owner, watched, ready, backlog, life, signals>>

(* receive_packet returns a packet and process_packet deals with it.  It   *)
(* may have waited for it, even on a socket that was closed meanwhile.     *)
ReceivePacket ==
    /\ server = "up" /\ main.at = "recv" /\ main.socket # NONE
    /\ packets[main.socket] > 0
    /\ packets' = [packets EXCEPT ![main.socket] = @ - 1]
    /\ Touch
    /\ main' = Loop
    /\ UNCHANGED <<buffer, ka, connections, owner, watched, ready, backlog, life, signals>>

(* receive_packet fails, at the end of the stream or as the descriptor is  *)
(* closed: close_connection, without the lock.  An entry that the          *)
(* keepalive thread is about to erase is deleted and erased twice, after   *)
(* which nothing is said of the list.                                      *)
ReceiveFails ==
    /\ server = "up" /\ main.at = "recv"
    /\ main.socket = owner[main.fd] /\ main.socket # NONE =>
          life[main.socket] = "gone" /\ packets[main.socket] = 0
    /\ IF connections[main.fd] = NONE
       THEN UNCHANGED <<connections, owner, watched, ready>>
       ELSE /\ connections' = [connections EXCEPT ![main.fd] = NONE]
            /\ CloseDescriptor(main.fd)
    /\ IF ka = main.fd THEN server' = "freed" ELSE Touch
    /\ main' = Loop
    /\ UNCHANGED <<buffer, ka, backlog, packets, life, signals>>

-----------------------------------------------------------------------------
(* The keepalive thread closes a connection under the lock: close_ci, and  *)
(* then the erase.                                                         *)

KeepAliveClose(fd) ==
    /\ server = "up" /\ ka = NONE
    /\ connections[fd] # NONE
    /\ life[connections[fd]] \in {"lost", "gone"}
    /\ ka' = fd
    /\ CloseDescriptor(fd)
    /\ UNCHANGED <<server, buffer, main, connections, backlog, packets, life, signals>>

KeepAliveErase ==
    /\ server = "up" /\ ka # NONE
    /\ connections' = [connections EXCEPT ![ka] = NONE]
    /\ ka' = NONE
    /\ UNCHANGED <<server, buffer, main, kernel, life, signals>>

-----------------------------------------------------------------------------

Init ==
    /\ server = "up"
    /\ event_buff = [i \in 1 .. EVENT_BUFF_SIZE |-> NONE]
    /\ buff_now = 0
    /\ buff_size = 0
    /\ main = Loop
    /\ ka = NONE
    /\ connections = [fd \in Descriptor |-> NONE]
    /\ owner = [fd \in Descriptor |-> NONE]
    /\ watched = {}
    /\ ready = <<>>
    /\ backlog = <<>>
    /\ packets = [c \in Connection |-> 0]
    /\ life = [c \in Connection |-> "new"]
    /\ signals = 0

MainStep == \/ EpollWait \/ RunOnce \/ AddConnection
            \/ ReceivePacket \/ ReceiveFails

Next == \/ \E c \in Connection : Arrive(c) \/ SendPacket(c) \/ Lose(c) \/ Leave(c)
        \/ MainStep
        \/ EpollInterrupted
        \/ \E fd \in Descriptor : KeepAliveClose(fd)
        \/ KeepAliveErase

(* Both threads run.  A client that is not lost sends a packet now and     *)
(* then, as it is asked for a KEEPALIVE once it is on the list.            *)
Fairness ==
    /\ WF_vars(MainStep)
    /\ WF_vars(KeepAliveErase)
    /\ \A c \in Connection :
          WF_vars(life[c] = "up" /\ (\E fd \in Descriptor : connections[fd] = c) /\ SendPacket(c))

Spec == Init /\ [][Next]_vars
FairSpec == Spec /\ Fairness

-----------------------------------------------------------------------------
(* Properties. *)

TypeOK ==
    /\ server \in {"up", "overrun", "nullptr", "freed"}
    /\ event_buff \in [1 .. EVENT_BUFF_SIZE -> Descriptor \cup {LISTEN, NONE}]
    /\ buff_now \in Nat
    /\ buff_size \in -1 .. EVENT_BUFF_SIZE
    /\ main \in [at : {"loop", "add", "recv"}, fd : Descriptor \cup {NONE},
                 ci : Connection \cup {NONE}, socket : Connection \cup {NONE}]
    /\ ka \in Descriptor \cup {NONE}
    /\ connections \in [Descriptor -> Connection \cup {NONE}]
    /\ owner \in [Descriptor -> Connection \cup {NONE}]
    /\ watched \subseteq Descriptor
    /\ ready \in Seq(Descriptor \cup {LISTEN})
    /\ backlog \in Seq(Connection)
    /\ packets \in [Connection -> 0 .. MaxPackets]
    /\ life \in [Connection -> {"new", "up", "lost", "gone"}]
    /\ signals \in 0 .. MaxSignals

Lost == \E c \in Connection : life[c] \in {"lost", "gone"}

(* The main thread calls recv on a connection only when there is something *)
(* to read, and finds the connection_info it looked up still there, as     *)
(* long as nobody is lost and epoll_wait is not interrupted.               *)
NoWaitInRecv ==
    ~Lost /\ signals = 0 /\ main.at = "recv" =>
        packets[main.socket] > 0 /\ ~Freed

(* read_event stays inside of event_buff, and uses no event that is not of *)
(* the last epoll_wait, unless a signal has ended an epoll_wait.           *)
InsideBuffer ==
    signals = 0 => 0 <= buff_now /\ buff_now <= buff_size /\ server # "overrun"

(* accept never returns a descriptor that is still on the list when the    *)
(* lock is free: close and erase are one under the lock, or are both the   *)
(* main thread's.  So new_connection never returns nullptr.                *)
NewIsNew == server # "nullptr"

(* Waiting in recv for a client that is lost. *)
Stuck == main.at = "recv" /\ main.socket # NONE
            /\ life[main.socket] = "lost" /\ packets[main.socket] = 0

(* Every packet is read in the end, however many connections are ready and *)
(* however few fit the buffer.  An event that has outlived its descriptor  *)
(* holds the loop up only until the new client answers a KEEPALIVE; for    *)
(* good only if that client is lost too.                                   *)
Served ==
    []<>~Stuck =>
        \A c \in Connection :
            packets[c] > 0 ~> \/ main.at = "recv" /\ main.socket = c
                              \/ life[c] # "up"
                              \/ server # "up"

=============================================================================
