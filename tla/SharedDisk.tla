----------------------------- MODULE SharedDisk ------------------------------
(***************************************************************************)
(* Transfers of several clients on the server's one disk, and the          *)
(* descriptors they take.                                                  *)
(*                                                                         *)
(* A FILE* goes on with the file it opened, whatever becomes of its name.  *)
(* fopen(.., "wb") empties a file that others may be reading or writing.   *)
(* The core's destructor closes nothing: the descriptor of a transfer      *)
(* whose client has gone is never free again.  (Session has what becomes   *)
(* of stdio's buffers, which here are written through.)                    *)
(***************************************************************************)
EXTENDS Integers, Sequences, FiniteSets

CONSTANTS
    Connection,     (* connections; each is made once                       *)
    Name,           (* names of files                                       *)
    File,           (* files, by their inodes                               *)
    NONE,           (* no file                                              *)
    HOLE,           (* a block nobody has written                           *)
    MaxBlocks,      (* bound: blocks of an upload                           *)
    MaxDescriptors  (* descriptors the process may have for clients         *)

ASSUME SharedDiskAssumption ==
    /\ NONE \notin File /\ HOLE \notin Connection
    /\ MaxBlocks \in Nat /\ MaxDescriptors \in Nat
    /\ IsFiniteSet(Connection)

VARIABLES
    file,      (* the file each name leads to                               *)
    content,   (* content of each file; a block shows who wrote it          *)
    line,      (* connections: "new", "up", "closed"                        *)
    work,      (* what each core has open: [mode, name, fd, at] with mode   *)
               (* "ready", "up" or "down", and at the position in the file  *)
    got,       (* blocks a download has read                                *)
    goal,      (* history: what the file held when a download opened it     *)
    alone,     (* history: nobody has changed the file or its name since    *)
               (* the transfer began, and nobody was writing it then        *)
    result,    (* history: how each connection's last transfer has ended:   *)
               (* "none", "uploaded", "downloaded"                          *)
    free       (* descriptors the process may still open                    *)

vars == <<file, content, line, work, got, goal, alone, result, free>>

Ready == [mode |-> "ready", name |-> NONE, fd |-> NONE, at |-> 0]
Working(c) == work[c].mode # "ready"
Uses(c, f) == Working(c) /\ work[c].fd = f
Writing(f) == \E c \in Connection : line[c] = "up" /\ Uses(c, f) /\ work[c].mode = "up"

(* A file that is given a new content or name: whoever works with it is    *)
(* not alone any more.                                                     *)
Disturb(f, by) == [c \in Connection |-> alone[c] /\ (c = by \/ ~Uses(c, f))]

-----------------------------------------------------------------------------

Connect(c) ==
    /\ line[c] = "new" /\ free > 0
    /\ line' = [line EXCEPT ![c] = "up"]
    /\ free' = free - 1
    /\ UNCHANGED <<file, content, work, got, goal, alone, result>>

Idle(c) == line[c] = "up" /\ ~Working(c)

(* The file a name leads to, or a new one. *)
Opened(n) == IF file[n] # NONE THEN {file[n]}
             ELSE {f \in File : /\ f \notin {file[m] : m \in Name}
                                /\ \A d \in Connection : ~Uses(d, f)}

(* Mutant: fopen "ab", which does not empty the file. *)
OpenAppend(c, n) ==
    /\ Idle(c) /\ free > 0
    /\ \E f \in Opened(n) :
          /\ work' = [work EXCEPT ![c] = [mode |-> "up", name |-> n, fd |-> f, at |-> Len(content[f])]]
          /\ file' = [file EXCEPT ![n] = f]
          /\ alone' = [Disturb(f, c) EXCEPT ![c] = ~Writing(f)]
    /\ result' = [result EXCEPT ![c] = "none"]
    /\ free' = free - 1
    /\ UNCHANGED <<content, line, got, goal>>

(* setWorkingStatus of an upload: fopen "wb".                              *)
OpenUpload(c, n) ==
    /\ Idle(c) /\ free > 0
    /\ \E f \in Opened(n) :
          /\ work' = [work EXCEPT ![c] = [mode |-> "up", name |-> n, fd |-> f, at |-> 0]]
          /\ file' = [file EXCEPT ![n] = f]
          /\ content' = [content EXCEPT ![f] = <<>>]
          /\ alone' = [Disturb(f, c) EXCEPT ![c] = ~Writing(f)]
    /\ result' = [result EXCEPT ![c] = "none"]
    /\ free' = free - 1
    /\ UNCHANGED <<line, got, goal>>

(* setData: at the FILE*'s own position, over what another has written, or *)
(* behind the end if another has emptied the file.                         *)
Write(c) ==
    LET f == work[c].fd
        at == work[c].at
    IN  /\ line[c] = "up" /\ work[c].mode = "up" /\ at < MaxBlocks
        /\ content' = [content EXCEPT ![f] =
              [i \in 1 .. (IF at < Len(@) THEN Len(@) ELSE at + 1) |->
                  IF i = at + 1 THEN c ELSE IF i \in DOMAIN @ THEN @[i] ELSE HOLE]]
        /\ work' = [work EXCEPT ![c].at = at + 1]
        /\ UNCHANGED <<file, line, got, goal, alone, result, free>>

(* A connection's history is kept as long as it has a transfer. *)
Forget(c) ==
    /\ got' = [got EXCEPT ![c] = <<>>]
    /\ goal' = [goal EXCEPT ![c] = <<>>]
    /\ alone' = [alone EXCEPT ![c] = FALSE]

(* unsetWorkingStatus. *)
Unset(c, how) ==
    /\ work' = [work EXCEPT ![c] = Ready]
    /\ free' = free + 1
    /\ result' = [result EXCEPT ![c] = how]
    /\ Forget(c)

(* SEND_DONE.                                                              *)
EndUpload(c) ==
    /\ line[c] = "up" /\ work[c].mode = "up"
    /\ Unset(c, "uploaded")
    /\ UNCHANGED <<file, content, line>>

(* Mutant: the status alone is reset, and the FILE* forgotten. *)
CallOffOpen(c) ==
    /\ line[c] = "up" /\ Working(c)
    /\ work' = [work EXCEPT ![c] = Ready]
    /\ UNCHANGED <<file, content, line, got, goal, alone, result, free>>

(* STATUS_FAILED: the client cannot open its own file.                     *)
CallOff(c) ==
    /\ line[c] = "up" /\ Working(c) /\ work[c].at = 0
    /\ Unset(c, "none")
    /\ UNCHANGED <<file, content, line>>

(* setWorkingStatus of a download.                                         *)
OpenDownload(c, n) ==
    /\ Idle(c) /\ free > 0
    /\ file[n] # NONE
    /\ work' = [work EXCEPT ![c] = [mode |-> "down", name |-> n, fd |-> file[n], at |-> 0]]
    /\ got' = [got EXCEPT ![c] = <<>>]
    /\ goal' = [goal EXCEPT ![c] = content[file[n]]]
    /\ alone' = [alone EXCEPT ![c] = ~Writing(file[n])]
    /\ result' = [result EXCEPT ![c] = "none"]
    /\ free' = free - 1
    /\ UNCHANGED <<file, content, line>>

(* prepareData: the next block of f, or the end, which closes the FILE*.   *)
ReadOf(c, f) ==
    /\ line[c] = "up" /\ work[c].mode = "down"
    /\ IF f # NONE /\ work[c].at < Len(content[f])
       THEN /\ got' = [got EXCEPT ![c] = Append(@, content[f][work[c].at + 1])]
            /\ work' = [work EXCEPT ![c].at = @ + 1]
            /\ UNCHANGED <<result, free, goal, alone>>
       ELSE Unset(c, "downloaded")
    /\ UNCHANGED <<file, content, line>>

(* Mutant: a download reads the file that has the name now. *)
ReadByName(c) == ReadOf(c, file[work[c].name])

Read(c) == ReadOf(c, work[c].fd)

(* rm: the name is gone, the file stays for those who have it open.  That  *)
(* is the end of what an upload stores, and makes no difference to a       *)
(* download.                                                               *)
RemoveFile(c, n) ==
    /\ Idle(c) /\ file[n] # NONE
    /\ file' = [file EXCEPT ![n] = NONE]
    /\ alone' = [d \in Connection |->
                    alone[d] /\ ~(work[d].name = n /\ work[d].mode = "up")]
    /\ UNCHANGED <<content, line, work, got, goal, result, free>>

(* close_ci: the connection's descriptor is closed; the FILE* stays open,  *)
(* with nobody to close it.                                                *)
CloseConnection(c) ==
    /\ line[c] = "up"
    /\ line' = [line EXCEPT ![c] = "closed"]
    /\ free' = free + 1
    /\ result' = [result EXCEPT ![c] = "none"]
    /\ Forget(c)
    /\ UNCHANGED <<file, content, work>>

Init ==
    /\ file = [n \in Name |-> NONE]
    /\ content = [f \in File |-> <<>>]
    /\ line = [c \in Connection |-> "new"]
    /\ work = [c \in Connection |-> Ready]
    /\ got = [c \in Connection |-> <<>>]
    /\ goal = [c \in Connection |-> <<>>]
    /\ alone = [c \in Connection |-> FALSE]
    /\ result = [c \in Connection |-> "none"]
    /\ free = MaxDescriptors

Next == \E c \in Connection :
           \/ Connect(c) \/ CloseConnection(c)
           \/ Write(c) \/ EndUpload(c) \/ Read(c) \/ CallOff(c)
           \/ \E n \in Name : OpenUpload(c, n) \/ OpenDownload(c, n) \/ RemoveFile(c, n)

Spec == Init /\ [][Next]_vars

-----------------------------------------------------------------------------
(* Properties. *)

TypeOK ==
    /\ file \in [Name -> File \cup {NONE}]
    /\ content \in [File -> Seq(Connection \cup {HOLE})]
    /\ \A f \in File : Len(content[f]) <= MaxBlocks
    /\ line \in [Connection -> {"new", "up", "closed"}]
    /\ work \in [Connection -> [mode : {"ready", "up", "down"}, name : Name \cup {NONE},
                                fd : File \cup {NONE}, at : 0 .. MaxBlocks]]
    /\ got \in [Connection -> Seq(Connection \cup {HOLE})]
    /\ goal \in [Connection -> Seq(Connection \cup {HOLE})]
    /\ alone \in [Connection -> BOOLEAN]
    /\ result \in [Connection -> {"none", "uploaded", "downloaded"}]
    /\ free \in 0 .. MaxDescriptors
    (* no two names lead to one file *)
    /\ \A m, n \in Name : file[m] = file[n] /\ file[m] # NONE => m = n

(* A download that nobody disturbed has what the file held when it began,  *)
(* although its name may have been removed and given to another file.      *)
DownloadFaithful ==
    [][\A c \in Connection : result'[c] = "downloaded" /\ result[c] # "downloaded" /\ alone[c] =>
          got[c] = goal[c]]_vars

(* An upload that nobody disturbed is under its name, block by block, when *)
(* the client is told nothing more, until another request for that name.   *)
UploadFaithful ==
    [][\A c \in Connection : result'[c] = "uploaded" /\ result[c] # "uploaded" /\ alone[c] =>
          content'[file'[work[c].name]] = [i \in 1 .. work[c].at |-> c]]_vars

(* The descriptors that are taken are those of the clients and of the      *)
(* transfers, and one for each transfer whose client left in the middle of *)
(* it.  These are the only loss: whatever else becomes of a transfer, its  *)
(* descriptor is free again.                                               *)
OnlyLeaversLeak ==
    MaxDescriptors - free =
        Cardinality({c \in Connection : line[c] = "up"}) + Cardinality({c \in Connection : Working(c)})

=============================================================================
