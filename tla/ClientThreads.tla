---------------------------- MODULE ClientThreads ----------------------------
(***************************************************************************)
(* The client's two threads: main, at the prompt, and the receiver.  They  *)
(* share the status, the file and the socket under a lock, which main does *)
(* not hold while it waits for the status or for its user.                 *)
(*                                                                         *)
(* SIGINT may be handled by either thread.  pthread_cancel of the thread   *)
(* that runs the handler ends it at its next close, before exit.           *)
(***************************************************************************)
EXTENDS Integers, Sequences

CONSTANTS
    NONE,         (* nobody has the lock, no thread                         *)
    MaxMore,      (* bound: packets of an answer that are not the last      *)
    MaxKeepAlive, (* bound: KEEPALIVEs                                      *)
    MaxSignal     (* bound: SIGINTs                                         *)

ASSUME ClientThreadsAssumption ==
    /\ NONE \notin {"main", "receiver"}
    /\ MaxMore \in Nat /\ MaxKeepAlive \in Nat /\ MaxSignal \in Nat

VARIABLES
    process,    (* "up", "exited"                                           *)
    main,       (* "input" of an address, "start" from pthread_create until *)
                (* status and connected are set, "busy" in is_waiting's loop, "prompt"    *)
                (* for a command, "param" for the rest of the line, "lock", *)
                (* "command" with the lock                                  *)
    receiver,   (* "none", "poll", "lock", "receive" with the lock, in      *)
                (* set_status "ready" and "fclose", "send" of the packet    *)
                (* that ends an upload, "ended"                             *)
    lock,       (* the thread that has it                                   *)
    now_status, (* "READY", "WAITING"                                       *)
    file_fd,    (* whether it is open                                       *)
    owes,       (* whether the server is to be told of the upload's end     *)
    handler,    (* the threads that are in the signal handler               *)
    to_client,  (* packets on their way: "more" and "last" of an answer,    *)
                (* "KEEPALIVE", and "end", that of the stream               *)
    asked,      (* whether the server has a request to answer               *)
    more, keepalives, signals  (* bounds: so many so far                    *)

env == <<to_client, asked, more, keepalives>>
vars == <<process, main, receiver, lock, now_status, file_fd, owes, handler, env, signals>>

(* A thread goes on unless it is in the handler.                           *)
MainRuns == process = "up" /\ "main" \notin handler
ReceiverRuns == process = "up" /\ "receiver" \notin handler
HasReceiver == receiver # "none"

(* main.cpp's variable: client_start has returned true. *)
connected == main \notin {"input", "start"}

-----------------------------------------------------------------------------
(* The main thread. *)

(* client_start: connect_server, which may fail and be tried again, and    *)
(* pthread_create.                                                         *)
ClientStart ==
    /\ MainRuns /\ main = "input"
    /\ main' = "start"
    /\ receiver' = "poll"
    /\ UNCHANGED <<process, lock, now_status, file_fd, owes, handler, env, signals>>

Started ==
    /\ MainRuns /\ main = "start"
    /\ main' = "busy"
    /\ now_status' = "READY"
    /\ UNCHANGED <<process, receiver, lock, file_fd, owes, handler, env, signals>>

(* is_waiting, without the lock. *)
Waited ==
    /\ MainRuns /\ main = "busy"
    /\ now_status = "READY"
    /\ main' = "prompt"
    /\ UNCHANGED <<process, receiver, lock, now_status, file_fd, owes, handler, env, signals>>

(* The user types a command, its parameters.  "exit" does without. *)
Type ==
    /\ MainRuns /\ main \in {"prompt", "param"}
    /\ main' = IF main = "prompt" THEN "param" ELSE "lock"
    /\ UNCHANGED <<process, receiver, lock, now_status, file_fd, owes, handler, env, signals>>

ExitCommand ==
    /\ MainRuns /\ main = "prompt"
    /\ process' = "exited"
    /\ UNCHANGED <<main, receiver, lock, now_status, file_fd, owes, handler, env, signals>>

(* Mutant: the lock is taken with the command, before its parameters. *)
MainLockEarly ==
    /\ MainRuns /\ main \in {"prompt", "lock"}
    /\ main = "prompt" => lock = NONE
    /\ main' = IF main = "prompt" THEN "param" ELSE "command"
    /\ lock' = "main"
    /\ UNCHANGED <<process, receiver, now_status, file_fd, owes, handler, env, signals>>

(* Mutant: process_command without set_lock. *)
MainUnlocked ==
    /\ MainRuns /\ main = "lock"
    /\ main' = "command"
    /\ UNCHANGED <<process, receiver, lock, now_status, file_fd, owes, handler, env, signals>>

MainLock ==
    /\ MainRuns /\ main = "lock" /\ lock = NONE
    /\ main' = "command"
    /\ lock' = "main"
    /\ UNCHANGED <<process, receiver, now_status, file_fd, owes, handler, env, signals>>

(* Mutant: the status is set and nothing sent. *)
RequestUnsent ==
    /\ MainRuns /\ main = "command"
    /\ main' = "busy"
    /\ lock' = NONE
    /\ now_status' = "WAITING"
    /\ UNCHANGED <<process, receiver, file_fd, owes, handler, env, signals>>

(* A request is sent, or not, as for "show" or parameters that are wrong.  *)
(* set_status comes before send_packet, both under the lock.               *)
Request ==
    /\ MainRuns /\ main = "command"
    /\ main' = "busy"
    /\ lock' = NONE
    /\ \/ UNCHANGED <<now_status, asked, more>>
       \/ now_status' = "WAITING" /\ asked' = TRUE /\ more' = 0
    /\ UNCHANGED <<process, receiver, file_fd, owes, handler, to_client, keepalives, signals>>

-----------------------------------------------------------------------------
(* The receiver thread. *)

ReceiverPoll ==
    /\ ReceiverRuns /\ receiver = "poll"
    /\ to_client # <<>>
    /\ receiver' = "lock"
    /\ UNCHANGED <<process, main, lock, now_status, file_fd, owes, handler, env, signals>>

ReceiverLock ==
    /\ ReceiverRuns /\ receiver = "lock" /\ lock = NONE
    /\ receiver' = "receive"
    /\ lock' = "receiver"
    /\ UNCHANGED <<process, main, now_status, file_fd, owes, handler, env, signals>>

(* Mutant: "pipe broken" leaves the loop with the lock. *)
ReceiveKeepsLock ==
    /\ ReceiverRuns /\ receiver = "receive"
    /\ to_client' = Tail(to_client)
    /\ CASE Head(to_client) = "last" -> receiver' = "ready" /\ UNCHANGED <<lock, file_fd>>
         [] Head(to_client) = "end"  -> receiver' = "ended" /\ UNCHANGED <<lock, file_fd>>
         [] OTHER -> /\ receiver' = "poll" /\ lock' = NONE
                     /\ file_fd' = (file_fd \/ Head(to_client) = "more")
    /\ UNCHANGED <<process, main, now_status, owes, handler, asked, more, keepalives, signals>>

(* process_packet.  An answer that is not the last may have opened a file. *)
Receive ==
    /\ ReceiverRuns /\ receiver = "receive"
    /\ to_client' = Tail(to_client)
    /\ CASE Head(to_client) = "last" -> receiver' = "ready" /\ UNCHANGED <<lock, file_fd>>
         [] Head(to_client) = "end"  -> receiver' = "ended" /\ lock' = NONE /\ UNCHANGED file_fd
         [] OTHER -> /\ receiver' = "poll" /\ lock' = NONE
                     /\ file_fd' = (file_fd \/ Head(to_client) = "more")
    /\ UNCHANGED <<process, main, now_status, owes, handler, asked, more, keepalives, signals>>

(* set_status(STATUS_READY): the status first, which main may see at once. *)
(* An upload's end is sent after it.                                       *)
SetReady ==
    /\ ReceiverRuns /\ receiver = "ready"
    /\ now_status' = "READY"
    /\ receiver' = "fclose"
    /\ owes' \in BOOLEAN
    /\ UNCHANGED <<process, main, lock, file_fd, handler, env, signals>>

CloseFile ==
    /\ ReceiverRuns /\ receiver = "fclose"
    /\ file_fd' = FALSE
    /\ receiver' = "send"
    /\ UNCHANGED <<process, main, lock, now_status, owes, handler, env, signals>>

SendDone ==
    /\ ReceiverRuns /\ receiver = "send"
    /\ owes' = FALSE
    /\ receiver' = "poll"
    /\ lock' = NONE
    /\ UNCHANGED <<process, main, now_status, file_fd, handler, env, signals>>

-----------------------------------------------------------------------------
(* SIGINT. *)

Interrupt(thread) ==
    /\ process = "up" /\ signals < MaxSignal
    /\ thread = "receiver" => receiver \notin {"none", "ended"}
    /\ thread \notin handler
    /\ handler' = handler \cup {thread}
    /\ signals' = signals + 1
    /\ UNCHANGED <<process, main, receiver, lock, now_status, file_fd, owes, env>>

(* The handler in the main thread: client_stop, unless there is no         *)
(* connection yet, and exit.  The receiver ends at its next call that is a *)
(* cancellation point, if it comes to it before exit.                      *)
MainStops ==
    /\ process = "up" /\ "main" \in handler
    /\ \/ process' = "exited" /\ UNCHANGED receiver
       \/ connected /\ receiver # "ended" /\ receiver' = "ended" /\ UNCHANGED process
    /\ UNCHANGED <<main, lock, now_status, file_fd, owes, handler, env, signals>>

(* The handler in the receiver: in client_stop it cancels itself, and      *)
(* close ends it.  Before connected is set it comes to exit instead.       *)
ReceiverStops ==
    /\ process = "up" /\ "receiver" \in handler
    /\ IF connected THEN receiver' = "ended" /\ UNCHANGED process
       ELSE process' = "exited" /\ UNCHANGED receiver
    /\ handler' = handler \ {"receiver"}
    /\ UNCHANGED <<main, lock, now_status, file_fd, owes, env, signals>>

-----------------------------------------------------------------------------
(* The server. *)

Arrives(pack) == to_client' = Append(to_client, pack)
Ended == to_client # <<>> /\ to_client[Len(to_client)] = "end"

Answer ==
    /\ asked /\ ~Ended
    /\ \/ more < MaxMore /\ more' = more + 1 /\ Arrives("more") /\ UNCHANGED asked
       \/ asked' = FALSE /\ Arrives("last") /\ UNCHANGED more
    /\ UNCHANGED <<process, main, receiver, lock, now_status, file_fd, owes, handler,
                   keepalives, signals>>

KeepAlive ==
    /\ HasReceiver /\ ~Ended /\ keepalives < MaxKeepAlive
    /\ keepalives' = keepalives + 1
    /\ Arrives("KEEPALIVE")
    /\ UNCHANGED <<process, main, receiver, lock, now_status, file_fd, owes, handler,
                   asked, more, signals>>

Disconnect ==
    /\ HasReceiver /\ ~Ended /\ receiver # "ended"
    /\ Arrives("end")
    /\ UNCHANGED <<process, main, receiver, lock, now_status, file_fd, owes, handler,
                   asked, more, keepalives, signals>>

-----------------------------------------------------------------------------

Init ==
    /\ process = "up" /\ main = "input" /\ receiver = "none"
    /\ lock = NONE /\ now_status = "READY" /\ file_fd = FALSE /\ owes = FALSE
    /\ handler = {} /\ to_client = <<>> /\ asked = FALSE
    /\ more = 0 /\ keepalives = 0 /\ signals = 0

MainStep == Started \/ Waited \/ MainLock \/ Request
ReceiverStep == \/ ReceiverPoll \/ ReceiverLock \/ Receive
                \/ SetReady \/ CloseFile \/ SendDone

Next == \/ ClientStart \/ Type \/ ExitCommand \/ MainStep
        \/ ReceiverStep
        \/ \E thread \in {"main", "receiver"} : Interrupt(thread)
        \/ MainStops \/ ReceiverStops
        \/ Answer \/ KeepAlive \/ Disconnect

(* Threads run, in the handler too, and one that waits for the lock again  *)
(* and again gets it.  The server answers.  Nothing is assumed of the user.*)
Fairness ==
    /\ WF_vars(MainStep) /\ SF_vars(MainLock)
    /\ WF_vars(ReceiverStep) /\ SF_vars(ReceiverLock)
    /\ WF_vars(MainStops) /\ WF_vars(ReceiverStops)
    /\ WF_vars(Answer)

Spec == Init /\ [][Next]_vars
FairSpec == Spec /\ Fairness

-----------------------------------------------------------------------------
(* Properties. *)

TypeOK ==
    /\ process \in {"up", "exited"}
    /\ main \in {"input", "start", "busy", "prompt", "param", "lock", "command"}
    /\ receiver \in {"none", "poll", "lock", "receive", "ready", "fclose", "send", "ended"}
    /\ lock \in {NONE, "main", "receiver"}
    /\ now_status \in {"READY", "WAITING"}
    /\ file_fd \in BOOLEAN /\ owes \in BOOLEAN /\ asked \in BOOLEAN
    /\ handler \subseteq {"main", "receiver"}
    /\ to_client \in Seq({"more", "last", "KEEPALIVE", "end"})
    /\ more \in 0 .. MaxMore /\ keepalives \in 0 .. MaxKeepAlive /\ signals \in 0 .. MaxSignal
    (* a call of process_packet has a packet to deal with *)
    /\ receiver = "receive" => to_client # <<>>

(* main sees the status before the receiver is done with the answer, but   *)
(* a command begins after that: the last file is closed, and the server    *)
(* has been told of the upload's end before it gets the next request.      *)
Settled ==
    process = "up" /\ main = "command" =>
        /\ now_status = "READY" /\ ~file_fd /\ ~owes /\ ~asked
        /\ receiver \notin {"receive", "ready", "fclose", "send"}

(* A thread that has ended leaves the lock taken only if SIGINT was dealt  *)
(* with: by itself, or by main, which then exits.                          *)
LockLeft == lock = "receiver" /\ receiver = "ended" => signals > 0

(* What arrives, a KEEPALIVE too, is dealt with, however long the user     *)
(* thinks, in the middle of a command too.                                 *)
KeepAliveTaken == []<>(to_client = <<>> \/ receiver = "ended" \/ process = "exited")

(* The prompt comes back, as long as the receiver thread is alive.         *)
PromptReturns ==
    main = "command" ~> main = "prompt" \/ receiver = "ended" \/ process = "exited"

=============================================================================
