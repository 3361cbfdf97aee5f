------------------------------ MODULE Broadcast ------------------------------
(***************************************************************************)
(* SAY: the server passes a client's message on to every other client,     *)
(* whose receiver thread keeps it until its user asks for it.              *)
(*                                                                         *)
(* The server's walk over the connections uses the iterator g_it, as the   *)
(* keepalive thread's walk does, without the lock that thread holds.  When *)
(* the walks overlap each moves the other's iterator, and messages may be  *)
(* missed, doubled, or the server may run past the end of the list.        *)
(***************************************************************************)
EXTENDS Integers, Sequences, SequencesExt

CONSTANTS
    Client,  (* clients; each connects once                                 *)
    NONE,    (* no client                                                   *)
    MaxSay,  (* bound: messages                                             *)
    MaxLost, (* bound: connections that are closed                          *)
    MaxRound (* bound: rounds of the keepalive thread that begin during one *)
             (* message's walk; each may set the walk back to its beginning *)

ASSUME BroadcastAssumption ==
    /\ NONE \notin Client
    /\ MaxSay \in Nat
    /\ MaxLost \in Nat
    /\ MaxRound \in Nat

VARIABLES
    server,       (* "up", "stopping", "exited", "crashed"                  *)
    connections,  (* the vector of connections, by their clients            *)
    g_it,         (* index the iterator is at                               *)
    main,         (* main thread: "idle"; "send" to the connection rc;      *)
                  (* "look" whether g_it, just moved, is at the end; or     *)
                  (* "blocked" in set_lock for ever                         *)
    ka,           (* keepalive thread: "sleep", "send", "look"; ended, and  *)
                  (* the lock free ("ended") or not ("locking")             *)
    mails,        (* the client's _mails                                    *)
    shown,        (* what the user has seen                                 *)
    log,          (* history: sender and addressees of each message, in the *)
                  (* order the server took them; its index stands for it    *)
    overlap,      (* history: one thread has changed g_it or the list while *)
                  (* the other was walking                                  *)
    lost,         (* connections closed so far                              *)
    rounds        (* bound: rounds begun since the walk did                 *)

client == <<mails, shown>>
MainWalks == main.at \in {"send", "look"}
KaWalks == ka.at \in {"send", "look"}

(* Where g_it is while nobody walks, and rounds while main does not, makes *)
(* no difference.                                                          *)
View == <<server, connections, IF MainWalks \/ KaWalks THEN g_it ELSE 0,
          main, ka, client, log, overlap, lost, IF MainWalks THEN rounds ELSE 0>>
vars == <<server, connections, g_it, main, ka, client, log, overlap, lost, rounds>>

Listed(c) == Contains(connections, c)
Erase(c) == \E i \in 1 .. Len(connections) : /\ connections[i] = c
                                             /\ connections' = RemoveAt(connections, i)
At(where) == [at |-> where, rc |-> NONE]

(* What is sent to a client is appended to its mails: the stream keeps the *)
(* order, and a receiver that is late cannot be told from a user who is.   *)
AppendMail(c, message) == mails' = [mails EXCEPT ![c] = Append(@, message)]

-----------------------------------------------------------------------------
(* The server's main thread. *)

(* new_connection waits for the lock, which a walk of the keepalive thread *)
(* has.                                                                    *)
Connect(c) ==
    /\ server = "up" /\ main.at = "idle" /\ ka.at \in {"sleep", "ended"}
    /\ ~Listed(c) /\ ~Contains(lost, c)
    /\ connections' = Append(connections, c)
    /\ UNCHANGED <<server, g_it, main, ka, client, log, overlap, lost, rounds>>

(* The thread that had the lock is no more: main does not get any further. *)
Blocked(c) ==
    /\ server = "up" /\ main.at = "idle" /\ ka.at = "locking"
    /\ ~Listed(c) /\ ~Contains(lost, c)
    /\ main' = At("blocked")
    /\ UNCHANGED <<server, connections, g_it, ka, client, log, overlap, lost, rounds>>

(* process_packet takes a message, first_connection. *)
Say(c) ==
    /\ server = "up" /\ main.at = "idle"
    /\ Listed(c)
    /\ Len(log) < MaxSay
    /\ log' = Append(log, [from |-> c, to |-> {d \in Client : Listed(d)} \ {c}])
    /\ g_it' = 1
    /\ main' = [at |-> "send", rc |-> connections[1]]
    /\ overlap' = (overlap \/ KaWalks)
    /\ rounds' = 0
    /\ UNCHANGED <<server, connections, ka, client, lost>>

(* Mutant: the sender is not left out. *)
SendToAll ==
    /\ server = "up" /\ main.at = "send"
    /\ IF Listed(main.rc)
       THEN AppendMail(main.rc, Len(log)) /\ UNCHANGED server
       ELSE server' \in {"up", "crashed"} /\ UNCHANGED mails
    /\ g_it' = g_it + 1
    /\ main' = At("look")
    /\ UNCHANGED <<connections, ka, shown, log, overlap, lost, rounds>>

(* One turn of the walk, as far as ++g_it.  A connection that the          *)
(* keepalive thread has deleted is freed memory.                           *)
SendOn ==
    /\ server = "up" /\ main.at = "send"
    /\ IF Listed(main.rc)
       THEN /\ IF main.rc = log[Len(log)].from THEN UNCHANGED mails
               ELSE AppendMail(main.rc, Len(log))
            /\ UNCHANGED server
       ELSE server' \in {"up", "crashed"} /\ UNCHANGED mails
    /\ g_it' = g_it + 1
    /\ main' = At("look")
    /\ UNCHANGED <<connections, ka, shown, log, overlap, lost, rounds>>

(* Mutant: the test for the end comes one too late. *)
NextConnectionLate(rest) ==
    IF g_it > Len(connections) + 1 THEN At(rest)
    ELSE [at |-> "send", rc |-> IF g_it = Len(connections) + 1 THEN NONE ELSE connections[g_it]]

(* The rest of next_connection.  The end is tested for with ==.            *)
NextConnection(rest) ==
    IF g_it = Len(connections) + 1 THEN At(rest)
    ELSE [at |-> "send", rc |-> connections[g_it]]

PastTheEnd == g_it > Len(connections) + 1

MainLook ==
    /\ server = "up" /\ main.at = "look"
    /\ IF PastTheEnd
       THEN server' = "crashed" /\ UNCHANGED main
       ELSE main' = NextConnection("idle") /\ UNCHANGED server
    /\ UNCHANGED <<connections, g_it, ka, client, log, overlap, lost, rounds>>

(* close_connection when recv fails. *)
Disconnect(c) ==
    /\ server = "up" /\ main.at = "idle"
    /\ Listed(c) /\ Len(lost) < MaxLost
    /\ Erase(c)
    /\ lost' = Append(lost, c)
    /\ overlap' = (overlap \/ KaWalks)
    /\ UNCHANGED <<server, g_it, main, ka, client, log, rounds>>

(* SIGINT in the main thread: server_stop closes every connection,         *)
(* wherever both threads are.  The keepalive thread, cancelled when it     *)
(* comes to wait, may run until the process is gone.                       *)
Stop ==
    /\ server = "up"
    /\ server' = "stopping"
    /\ connections' = <<>>
    /\ overlap' = (overlap \/ KaWalks)
    /\ UNCHANGED <<g_it, main, ka, client, log, lost, rounds>>

Exit ==
    /\ server = "stopping"
    /\ server' = "exited"
    /\ UNCHANGED <<connections, g_it, main, ka, client, log, overlap, lost, rounds>>

-----------------------------------------------------------------------------
(* The keepalive thread.  (KeepAlive says which connections it closes.)    *)

KaWake ==
    /\ server \in {"up", "stopping"} /\ ka.at = "sleep"
    /\ connections # <<>>
    /\ g_it' = 1
    /\ ka' = [at |-> "send", rc |-> connections[1]]
    /\ MainWalks => rounds < MaxRound
    /\ overlap' = (overlap \/ MainWalks)
    /\ rounds' = IF MainWalks THEN rounds + 1 ELSE rounds
    /\ UNCHANGED <<server, connections, main, client, log, lost>>

(* send_ka, which may close the connection, and ++g_it. *)
KaSend ==
    /\ server \in {"up", "stopping"} /\ ka.at = "send"
    /\ IF Listed(ka.rc)
       THEN /\ UNCHANGED server
            /\ \/ UNCHANGED <<connections, lost>>
               \/ Len(lost) < MaxLost /\ Erase(ka.rc) /\ lost' = Append(lost, ka.rc)
       ELSE server' \in {server, "crashed"} /\ UNCHANGED <<connections, lost>>
    /\ g_it' = g_it + 1
    /\ ka' = At("look")
    /\ UNCHANGED <<main, client, log, overlap, rounds>>

KaLook ==
    /\ server \in {"up", "stopping"} /\ ka.at = "look"
    /\ IF PastTheEnd
       THEN server' = "crashed" /\ UNCHANGED ka
       ELSE ka' = NextConnection("sleep") /\ UNCHANGED server
    /\ UNCHANGED <<connections, g_it, main, client, log, overlap, lost, rounds>>

(* SIGINT in the keepalive thread: keepalive_close cancels the thread that *)
(* is running it, and the next call, close in close_event, is where that   *)
(* ends it.  Nothing has been closed, main goes on, and a lock that the    *)
(* thread has is not given back.                                           *)
StopInKeepAlive ==
    /\ server \in {"up", "stopping"} /\ ka.at \in {"sleep", "send", "look"}
    /\ ka' = At(IF KaWalks THEN "locking" ELSE "ended")
    /\ UNCHANGED <<server, connections, g_it, main, client, log, overlap, lost, rounds>>

-----------------------------------------------------------------------------
(* The clients. *)

Showing(n, len) == IF n < len THEN n ELSE len

(* Mutant: show takes the newest. *)
ShowNewest(c, count) ==
    LET n == Showing(count, Len(mails[c])) IN
    /\ n > 0
    /\ shown' = [shown EXCEPT ![c] = @ \o Reverse(SubSeq(mails[c], Len(mails[c]) - n + 1, Len(mails[c])))]
    /\ mails' = [mails EXCEPT ![c] = SubSeq(@, 1, Len(@) - n)]
    /\ UNCHANGED <<server, connections, g_it, main, ka, log, overlap, lost, rounds>>

(* show n, and showall for any n that is enough: the oldest. *)
Show(c, count) ==
    LET n == Showing(count, Len(mails[c])) IN
    /\ n > 0
    /\ shown' = [shown EXCEPT ![c] = @ \o SubSeq(mails[c], 1, n)]
    /\ mails' = [mails EXCEPT ![c] = SubSeq(@, n + 1, Len(@))]
    /\ UNCHANGED <<server, connections, g_it, main, ka, log, overlap, lost, rounds>>

-----------------------------------------------------------------------------

Init ==
    /\ server = "up"
    /\ connections = <<>>
    /\ g_it = 0
    /\ main = At("idle")
    /\ ka = At("sleep")
    /\ mails = [c \in Client |-> <<>>]
    /\ shown = [c \in Client |-> <<>>]
    /\ log = <<>>
    /\ overlap = FALSE
    /\ lost = <<>>
    /\ rounds = 0

Next == \/ \E c \in Client : \/ Connect(c) \/ Blocked(c) \/ Say(c) \/ Disconnect(c)
                             \/ \E count \in 1 .. MaxSay : Show(c, count)
        \/ SendOn \/ MainLook \/ Stop \/ Exit
        \/ KaWake \/ KaSend \/ KaLook \/ StopInKeepAlive

Spec == Init /\ [][Next]_vars

-----------------------------------------------------------------------------
(* Properties. *)

Message == 1 .. MaxSay

TypeOK ==
    /\ server \in {"up", "stopping", "exited", "crashed"}
    /\ connections \in Seq(Client)
    /\ g_it \in Nat
    /\ main \in [at : {"idle", "send", "look", "blocked"}, rc : Client \cup {NONE}]
    /\ ka \in [at : {"sleep", "send", "look", "ended", "locking"}, rc : Client \cup {NONE}]
    /\ mails \in [Client -> Seq(Message)]
    /\ shown \in [Client -> Seq(Message)]
    /\ log \in Seq([from : Client, to : SUBSET Client])
    /\ overlap \in BOOLEAN
    /\ lost \in Seq(Client)
    /\ rounds \in 0 .. MaxRound
    (* between a call of send_packet and the next, a thread is at a client  *)
    /\ main.at = "send" => main.rc \in Client
    /\ ka.at = "send" => ka.rc \in Client

(* All that has been sent to a client, in the order it gets to its user.   *)
Got(c) == shown[c] \o mails[c]
For(c, n) == {i \in 1 .. n : c \in log[i].to}
IsOnceInOrder(s, messages) == ToSet(s) = messages /\ \A i \in 2 .. Len(s) : s[i - 1] < s[i]

(* As long as the walks have not overlapped, each client's user gets all   *)
(* messages of the others, each once and in the order the server took      *)
(* them; the last one may be still to come while the walk goes on.         *)
OnceInOrder ==
    ~overlap => \A c \in Client :
        \/ IsOnceInOrder(Got(c), For(c, Len(log)))
        \/ MainWalks /\ IsOnceInOrder(Got(c), For(c, Len(log) - 1))

(* Whatever overlaps, nobody gets a message not addressed to him, his own  *)
(* least of all, or an older one after a newer one.                        *)
NeverAstray ==
    \A c \in Client : \A i \in DOMAIN Got(c) :
        /\ c \in log[Got(c)[i]].to
        /\ i > 1 => Got(c)[i - 1] <= Got(c)[i]

(* SAY alone never runs past the list or into a freed connection: only     *)
(* with a walk that overlaps or a connection that was closed.              *)
CrashNeedsOverlap == server = "crashed" => overlap \/ lost # <<>>

=============================================================================
