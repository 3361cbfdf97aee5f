------------------------------ MODULE KeepAlive ------------------------------
(***************************************************************************)
(* The server's list of connections and the two threads that work on it.   *)
(*                                                                         *)
(* The keepalive thread walks the list about once a second, under the      *)
(* lock: it closes a connection that has been silent for more than         *)
(* DEAD_TIME seconds and sends a KEEPALIVE packet to every other one each  *)
(* ALIVE_TIME-th round.  The main thread takes the lock to add a           *)
(* connection, and does not take it to find, read or close one.            *)
(*                                                                         *)
(* The iterator g_it is a pointer into the vector: an erase moves the      *)
(* later elements one place down and leaves it where it is.  The walk in   *)
(* which the main thread passes on a SAY packet uses the same iterator,    *)
(* without the lock: while both threads walk, each moves the other's.      *)
(* (Broadcast says what becomes of the messages.)                          *)
(***************************************************************************)
EXTENDS Integers, Sequences, SequencesExt

CONSTANTS
    Client,          (* clients; each has one connection at a time          *)
    NONE,            (* nullptr                                             *)
    ALIVE_TIME,      (* rounds between two KEEPALIVE packets                *)
    DEAD_TIME,       (* seconds of silence after which a client is dead     *)
    ROUND,           (* most seconds of time() from one round to the next   *)
    DELAY,           (* most seconds a prompt client's answer takes, until  *)
                     (* the main thread has dealt with it                   *)
    MaxConnections,  (* bound: connections the process has descriptors for  *)
    MaxMeet          (* bound: how often one of the walks begins during the *)
                     (* other                                               *)

ASSUME KeepAliveAssumption ==
    /\ NONE \notin Client
    /\ ALIVE_TIME \in Nat \ {0}
    /\ DEAD_TIME \in Nat
    /\ ROUND \in Nat \ {0}
    /\ DELAY \in Nat
    /\ MaxConnections \in Nat \ {0}
    /\ MaxMeet \in Nat

VARIABLES
    server,          (* "up" or "crashed"                                   *)
    connections,     (* the vector                                          *)
    g_it,            (* the index g_it points at, from 1                    *)
    ka,              (* keepalive thread: "sleep"; "send" to the connection *)
                     (* rc; "look" whether g_it, just moved, is at the end  *)
    slept,           (* keepalive thread: seconds since its last round      *)
    main,            (* main thread: the connection whose packet it has     *)
                     (* read and the packet's type, or NONE                 *)
    say,             (* main thread's walk: "no", "send" to rc, or "look"   *)
    life,            (* client: "off", "up" (prompt), "slow" (its answers   *)
                     (* take any time), "gone" (its end is closed) or "cut" *)
                     (* (closed by the server while it was prompt)          *)
    silence,         (* connection_info: time(nullptr) - secs               *)
    count,           (* connection_info: rounds to the next KEEPALIVE       *)
    asked,           (* age of the KEEPALIVE that is not answered yet, for  *)
                     (* as long as the client is prompt; or NotAsked        *)
    overlap,         (* history: the walks in progress have overlapped      *)
    disturbed,       (* history: rounds that a walk of SAY has overlapped   *)
                     (* since the connection's secs were set                *)
    meetings         (* bound: how often a walk began during the other      *)

threads == <<g_it, ka, slept, main, say>>
history == <<overlap, disturbed, meetings>>
vars == <<server, connections, threads, life, silence, count, asked, history>>

NotAsked == -1

Registered(c) == c \in ToSet(connections)
Places == 1 .. Len(connections)

KaWalks == ka.at # "sleep"
SayWalks == say.at # "no"
Walking(where, c) == [at |-> where, rc |-> c]

-----------------------------------------------------------------------------
(* The list. *)

(* new_connection: the fields of a new connection_info. *)
Fresh(c) == /\ silence' = [silence EXCEPT ![c] = 0]
            /\ count' = [count EXCEPT ![c] = 0]
            /\ asked' = [asked EXCEPT ![c] = NotAsked]
            /\ disturbed' = [disturbed EXCEPT ![c] = 0]

(* close_connection: the connection_info is deleted and its place erased.  *)
Close(c) == /\ \E i \in Places : /\ connections[i] = c
                                 /\ connections' = RemoveAt(connections, i)
            /\ Fresh(c)

(* first_connection, while the other thread walks (during) or not.  The    *)
(* round that the other walk belongs to, or this one begins, is disturbed  *)
(* from now on; it counts once.                                            *)
First(during, round) ==
    /\ g_it' = 1
    /\ during => meetings < MaxMeet
    /\ meetings' = IF during THEN meetings + 1 ELSE meetings
    /\ overlap' = during
    /\ disturbed' = IF during /\ round
                    THEN [c \in Client |-> IF Registered(c) THEN disturbed[c] + 1 ELSE 0]
                    ELSE disturbed

(* An iterator that has been moved, or has stepped over an end that an     *)
(* erase has brought closer, goes on through memory that is not the        *)
(* vector's, until that ends the server: the end is tested for with ==.    *)
PastTheEnd == g_it > Len(connections) + 1

(* next_connection behind its ++g_it: the walk's next state. *)
NextConnection(done) ==
    IF g_it = Len(connections) + 1 THEN Walking(done, NONE)
    ELSE Walking("send", connections[g_it])

-----------------------------------------------------------------------------
(* The main thread and the clients. *)

(* accept and new_connection.  The lock is free while nobody walks; accept *)
(* fails when there is no descriptor left.                                 *)
Connect(c) ==
    /\ server = "up" /\ main = NONE /\ ~KaWalks
    /\ ~Registered(c)
    /\ Len(connections) < MaxConnections
    /\ connections' = Append(connections, c)
    /\ Fresh(c)
    /\ life' = [life EXCEPT ![c] = "up"]
    /\ UNCHANGED <<server, threads, overlap, meetings>>

(* A client is stopped, or its network fails. *)
SlowDown(c) ==
    /\ server = "up"
    /\ Registered(c)
    /\ life[c] = "up"
    /\ life' = [life EXCEPT ![c] = "slow"]
    /\ UNCHANGED <<server, connections, threads, silence, count, asked, history>>

(* A client closes its end. *)
Leave(c) ==
    /\ server = "up"
    /\ Registered(c)
    /\ life[c] \in {"up", "slow"}
    /\ life' = [life EXCEPT ![c] = "gone"]
    /\ UNCHANGED <<server, connections, threads, silence, count, asked, history>>

(* process_packet as far as receive_packet: find_connection has given it   *)
(* the pointer; the packet is a request, a message or the answer to a      *)
(* KEEPALIVE.  A second KEEPALIVE sent before the first is answered counts *)
(* with it.                                                                *)
MainRead(c, type) ==
    /\ server = "up" /\ main = NONE
    /\ Registered(c)
    /\ type = "KEEPALIVE" => asked[c] # NotAsked
    /\ main' = <<c, type>>
    /\ UNCHANGED <<server, connections, g_it, ka, slept, say, life, silence, count, asked, history>>

(* send, to a client that has closed its end, raises SIGPIPE.  In freed    *)
(* memory, too, a thread may end the server.                               *)
SendTo(c) == server' \in {"up"} \cup
                (IF ~Registered(c) \/ life[c] = "gone" THEN {"crashed"} ELSE {})

(* The rest of process_packet.  Only a KEEPALIVE refreshes secs; a request *)
(* is answered.  When the keepalive thread has deleted the connection in   *)
(* between, this works on freed memory, which goes unnoticed or not.       *)
MainDeal ==
    /\ server = "up" /\ main # NONE /\ main[2] # "SAY"
    /\ main' = NONE
    /\ LET c == main[1] IN
       \/ /\ Registered(c) /\ main[2] = "KEEPALIVE"
          /\ silence' = [silence EXCEPT ![c] = 0]
          /\ asked' = [asked EXCEPT ![c] = NotAsked]
          /\ disturbed' = [disturbed EXCEPT ![c] = 0]
          /\ UNCHANGED server
       \/ /\ ~Registered(c) \/ main[2] = "REQUEST"
          /\ SendTo(c)
          /\ UNCHANGED <<silence, asked, disturbed>>
    /\ UNCHANGED <<connections, g_it, ka, slept, say, life, count, overlap, meetings>>

(* The same for SAY: first_connection, without the lock.  The list is      *)
(* empty when the sender's own connection was the last and is closed.      *)
Say ==
    /\ server = "up" /\ main # NONE /\ main[2] = "SAY" /\ ~SayWalks
    /\ IF connections = <<>>
       THEN /\ main' = NONE
            /\ UNCHANGED <<g_it, say, history>>
       ELSE /\ First(KaWalks, ~overlap)
            /\ say' = Walking("send", connections[1])
            /\ UNCHANGED main
    /\ UNCHANGED <<server, connections, ka, slept, life, silence, count, asked>>

(* A turn of its loop, as far as ++g_it.  The sender is left out.          *)
SaySend ==
    /\ server = "up" /\ say.at = "send"
    /\ IF say.rc = main[1] /\ Registered(say.rc) THEN UNCHANGED server ELSE SendTo(say.rc)
    /\ g_it' = g_it + 1
    /\ say' = Walking("look", NONE)
    /\ UNCHANGED <<connections, ka, slept, main, life, silence, count, asked, history>>

SayLook ==
    /\ server = "up" /\ say.at = "look"
    /\ IF PastTheEnd
       THEN server' = "crashed" /\ UNCHANGED <<say, main, overlap>>
       ELSE /\ say' = NextConnection("no")
            /\ main' = IF say'.at = "no" THEN NONE ELSE main
            /\ overlap' = (overlap /\ (KaWalks \/ say'.at # "no"))
            /\ UNCHANGED server
    /\ UNCHANGED <<connections, g_it, ka, slept, life, silence, count, asked, disturbed, meetings>>

(* receive_packet fails: close_connection, without the lock. *)
MainDisconnect(c) ==
    /\ server = "up" /\ main = NONE
    /\ Registered(c)
    /\ life[c] = "gone"
    /\ Close(c)
    /\ UNCHANGED <<server, threads, life, overlap, meetings>>

-----------------------------------------------------------------------------
(* The keepalive thread. *)

(* A second passes while the thread sleeps.  A prompt client's answer does *)
(* not take longer than DELAY.  A round is over within the second.         *)
Second ==
    /\ server = "up" /\ ~KaWalks
    /\ slept < ROUND
    /\ \A c \in Client : Registered(c) /\ life[c] = "up" => asked[c] < DELAY
    /\ slept' = slept + 1
    /\ silence' = [c \in Client |-> IF Registered(c) THEN silence[c] + 1 ELSE silence[c]]
    /\ asked' = [c \in Client |->
                    IF Registered(c) /\ life[c] = "up" /\ asked[c] # NotAsked
                    THEN asked[c] + 1 ELSE asked[c]]
    /\ UNCHANGED <<server, connections, g_it, ka, main, say, life, count, history>>

(* Mutant: first_connection without the test for an empty list. *)
WakeUnchecked ==
    /\ server = "up" /\ ~KaWalks
    /\ slept >= 1
    /\ slept' = 0
    /\ First(SayWalks, TRUE)
    /\ IF connections = <<>>
       THEN server' = "crashed" /\ UNCHANGED ka
       ELSE ka' = Walking("send", connections[1]) /\ UNCHANGED server
    /\ UNCHANGED <<connections, main, say, life, silence, count, asked>>

(* sleep(1) is over: take the lock, first_connection. *)
Wake ==
    /\ server = "up" /\ ~KaWalks
    /\ slept >= 1
    /\ slept' = 0
    /\ IF connections = <<>>
       THEN UNCHANGED <<g_it, ka, history>>
       ELSE /\ First(SayWalks, TRUE)
            /\ ka' = Walking("send", connections[1])
    /\ UNCHANGED <<server, connections, main, say, life, silence, count, asked>>

(* Mutant: the test is made when the next KEEPALIVE is due. *)
ExpiredLate(c) == silence[c] > DEAD_TIME /\ count[c] <= 0

Expired(c) == silence[c] > DEAD_TIME

(* Mutant: count is tested before it goes down. *)
DueLate(c) == count[c] <= 0

(* count has run out: a KEEPALIVE is due. *)
Due(c) == count[c] <= 1

(* send_ka, on a connection that is still listed.  (ka.rc is its ci.) *)
CloseExpired ==
    /\ Registered(ka.rc) /\ Expired(ka.rc)
    /\ Close(ka.rc)
    /\ life' = [life EXCEPT ![ka.rc] = IF @ = "up" THEN "cut" ELSE @]
    /\ UNCHANGED server


(* Mutant: count is not set again after a KEEPALIVE. *)
CountDownOn ==
    /\ Registered(ka.rc) /\ ~Expired(ka.rc)
    /\ count' = [count EXCEPT ![ka.rc] = @ - 1]
    /\ asked' = [asked EXCEPT ![ka.rc] = IF Due(ka.rc) /\ @ = NotAsked THEN 0 ELSE @]
    /\ UNCHANGED <<server, connections, life, silence, disturbed>>

CountDown ==
    /\ Registered(ka.rc) /\ ~Expired(ka.rc)
    /\ IF Due(ka.rc)
       THEN /\ count' = [count EXCEPT ![ka.rc] = ALIVE_TIME]
            /\ asked' = [asked EXCEPT ![ka.rc] = IF @ = NotAsked THEN 0 ELSE @]
            /\ SendTo(ka.rc)
       ELSE /\ count' = [count EXCEPT ![ka.rc] = @ - 1]
            /\ UNCHANGED <<server, asked>>
    /\ UNCHANGED <<connections, life, silence, disturbed>>

(* On a connection that the main thread has deleted meanwhile, send_ka     *)
(* reads and writes freed memory.                                          *)
TouchFreed ==
    /\ ~Registered(ka.rc)
    /\ SendTo(ka.rc)
    /\ UNCHANGED <<connections, life, silence, count, asked, disturbed>>

(* One turn of the loop, as far as ++g_it. *)
KaSend ==
    /\ server = "up" /\ ka.at = "send"
    /\ CloseExpired \/ CountDown \/ TouchFreed
    /\ g_it' = g_it + 1
    /\ ka' = Walking("look", NONE)
    /\ UNCHANGED <<slept, main, say, overlap, meetings>>

KaLook ==
    /\ server = "up" /\ ka.at = "look"
    /\ IF PastTheEnd
       THEN server' = "crashed" /\ UNCHANGED <<ka, overlap>>
       ELSE /\ ka' = NextConnection("sleep")
            /\ overlap' = (overlap /\ (SayWalks \/ ka'.at # "sleep"))
            /\ UNCHANGED server
    /\ UNCHANGED <<connections, g_it, slept, main, say, life, silence, count, asked, disturbed, meetings>>

-----------------------------------------------------------------------------
(* The specification. *)

Init ==
    /\ server = "up"
    /\ connections = <<>>
    /\ g_it = 0
    /\ ka = Walking("sleep", NONE)
    /\ slept = 0
    /\ main = NONE
    /\ say = Walking("no", NONE)
    /\ life = [c \in Client |-> "off"]
    /\ silence = [c \in Client |-> 0]
    /\ count = [c \in Client |-> 0]
    /\ asked = [c \in Client |-> NotAsked]
    /\ overlap = FALSE
    /\ disturbed = [c \in Client |-> 0]
    /\ meetings = 0

Packet == {"KEEPALIVE", "REQUEST", "SAY"}

Next ==
    \/ \E c \in Client : \/ Connect(c)
                         \/ SlowDown(c)
                         \/ Leave(c)
                         \/ \E type \in Packet : MainRead(c, type)
                         \/ MainDisconnect(c)
    \/ MainDeal
    \/ Say \/ SaySend \/ SayLook
    \/ Second
    \/ Wake \/ KaSend \/ KaLook

(* A prompt client's answer is read: its descriptor stays ready until then *)
(* and epoll reports every ready descriptor before it starts again.  The   *)
(* threads run and time passes.  Nothing is assumed of slow clients.  (It  *)
(* is MaxMeet alone that can keep the keepalive thread from waking.)       *)
Fairness ==
    /\ \A c \in Client : SF_vars(life[c] = "up" /\ MainRead(c, "KEEPALIVE"))
    /\ WF_vars(MainDeal \/ Say \/ SaySend \/ SayLook)
    /\ WF_vars(Second)
    /\ SF_vars(Wake)
    /\ WF_vars(KaSend \/ KaLook)

Spec == Init /\ [][Next]_vars
FairSpec == Spec /\ Fairness

-----------------------------------------------------------------------------
(* Properties. *)

(* The fields have the values their declarations and uses allow; count     *)
(* runs from ALIVE_TIME down to 1 and is 0 before the first round only.    *)
TypeOK ==
    /\ server \in {"up", "crashed"}
    /\ connections \in Seq(Client)
    /\ g_it \in Nat
    /\ ka \in [at : {"sleep", "send", "look"}, rc : Client \cup {NONE}]
    /\ slept \in 0 .. ROUND
    /\ main \in (Client \X Packet) \cup {NONE}
    /\ say \in [at : {"no", "send", "look"}, rc : Client \cup {NONE}]
    /\ life \in [Client -> {"off", "up", "slow", "gone", "cut"}]
    /\ silence \in [Client -> Nat]
    /\ count \in [Client -> 0 .. ALIVE_TIME]
    /\ asked \in [Client -> Nat \cup {NotAsked}]
    /\ overlap \in BOOLEAN
    /\ disturbed \in [Client -> Nat]
    /\ meetings \in 0 .. MaxMeet
    (* where a walk is, between a call of its functions and the next        *)
    /\ KaWalks \/ SayWalks => g_it >= 1
    /\ ka.at = "send" => ka.rc \in Client
    /\ say.at = "send" => say.rc \in Client
    /\ SayWalks => main # NONE /\ main \in Client \X {"SAY"}

(* A client that falls silent does not hold its connection for ever: after *)
(* DEAD_TIME it is closed by the next round that meets it.  A round that   *)
(* misses it does so because an erase has moved it towards the front, or   *)
(* because a walk of SAY has moved the iterator: only such rounds add to   *)
(* the bound.                                                              *)
SilenceBounded ==
    \A c \in Client :
        Registered(c) => silence[c] <= DEAD_TIME + ROUND * (MaxConnections + disturbed[c])

(* What two KEEPALIVEs to a connection, and the answer to the second, may  *)
(* take: ALIVE_TIME rounds, those that miss it for an erase before it, and *)
(* those that a walk of SAY has disturbed.                                 *)
Answered(c) == ROUND * (ALIVE_TIME + MaxConnections - 1 + disturbed[c]) + DELAY

(* A connection is dropped while its client answers promptly only when     *)
(* that much exceeds DEAD_TIME, although KEEPALIVE packets alone refresh   *)
(* secs, an erase makes the walk miss connections and SAY moves g_it.      *)
PromptKept ==
    [][\A c \in Client : Registered(c) /\ ~Registered(c)' /\ life[c] = "up"
                              => Answered(c) > DEAD_TIME]_vars

Lost == \E c \in Client : life[c] \in {"slow", "gone", "cut"}

(* The races on the list end the server only if a client was lost or the   *)
(* walks of the two threads have overlapped: as long as all clients are    *)
(* prompt and kept, the threads may interleave in any other order and      *)
(* never meet in a freed connection or past the vector's end.              *)
CrashNeedsLoss == server = "crashed" => Lost \/ overlap


=============================================================================
