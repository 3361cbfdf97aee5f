------------------------------- MODULE Session -------------------------------
(***************************************************************************)
(* One client process, its connection to the server, and the server's      *)
(* connection_core behind that connection.                                 *)
(*                                                                         *)
(* A step is one handler run to completion: the server's main loop deals   *)
(* with one packet at a time (server.cpp process_packet), the client's two *)
(* threads exclude one another with set_lock.  Packets travel on one TCP   *)
(* stream per direction, modelled as two FIFO queues.  Packets of type     *)
(* KEEPALIVE and SAY share the stream and touch nothing of what is here.   *)
(*                                                                         *)
(* A request names the remote file it resolves to; how get_path resolves   *)
(* it against the current directory is not part of this module.            *)
(***************************************************************************)
EXTENDS Integers, Sequences

CONSTANTS
    LocalFile,       (* files on the client's disk                          *)
    RemoteFile,      (* files under the server's data directory             *)
    Chunk,           (* blocks of MAX_PACKET_SIZE - HASH_SIZE bytes         *)
    Names,           (* a block of directory entries, sent by ls            *)
    NULL,            (* no file, no argument, bytes nobody wrote            *)
    InitialContent,  (* what a file may hold at the start                   *)
    MaxBlocks,       (* bound: blocks of entries in one listing             *)
    MaxFaults        (* bound: corrupted packets and stdio errors together  *)

ASSUME SessionAssumption ==
    /\ Names \notin Chunk
    /\ NULL \notin Chunk \cup LocalFile \cup RemoteFile \cup {Names}
    /\ NULL \notin Seq(Chunk)
    /\ InitialContent \subseteq Seq(Chunk)
    /\ MaxBlocks \in Nat
    /\ MaxFaults \in Nat

VARIABLES
    now_status,      (* client: READY, WAITING or TRANSFERING               *)
    now_command,     (* client: the command the next response answers       *)
    file_name,       (* client: local file of the last upload or download   *)
    file_fd,         (* client: the FILE* of the running transfer           *)
    buff,            (* client: last block prepared; << >> is length = 0    *)
    client,          (* "up"; "deaf": receiver thread ended; "exited"       *)
    local,           (* client's disk: content of each file, NULL if none   *)
    status,          (* core: READY, LISTING, UPLOADING or DOWNLOADING      *)
    fd,              (* core: the FILE* of the running transfer             *)
    dir,             (* core: blocks left in the open DIR*, NoDir if none   *)
    core_buff,       (* core: last block prepared; << >> is length = 0      *)
    remote,          (* server's disk: content of each file, NULL if none   *)
    to_server,       (* packets on the way to the server                    *)
    to_client,       (* packets on the way to the client                    *)
    link,            (* "open" until the server has closed the socket       *)
    faults,          (* bound: corruptions and stdio errors so far          *)
    copy             (* history: the file copy in progress, read by no one  *)

clientVars == <<now_status, now_command, file_name, file_fd, buff>>
coreVars   == <<status, fd, dir, core_buff>>
vars == <<clientVars, client, local, coreVars, remote,
          to_server, to_client, link, faults, copy>>

-----------------------------------------------------------------------------
(* Packets.  The hash of a SEND packet is "INTACT" or "CORRUPT": what      *)
(* check_hash will say of it.                                              *)

Transfers == {"LS", "UPLOAD", "DOWNLOAD"}
Commands  == Transfers \cup {"CD", "RM", "PWD", "MKDIR", "RMDIR"}
Options   == Commands \cup {"CONTINUE", "REPEAT", "DONE", "SUCCEED", "FAILED"}

Request(option, arg) == [type |-> "REQUEST", option |-> option, arg |-> arg]
Response(option) == [type |-> "RESPONSE", option |-> option, arg |-> NULL]
Send(hash, block) == [type |-> "SEND", option |-> hash, arg |-> block]

Block   == Chunk \cup {Names, NULL}
Packet  == [type : {"REQUEST", "RESPONSE"}, option : Options,
            arg : RemoteFile \cup {NULL}]
              \cup [type : {"SEND"}, option : {"INTACT", "CORRUPT"}, arg : Block]

(* An open FILE*: how it was opened, on which file, and every block that   *)
(* went through it.  The null pointer is Closed.                           *)
Open(mode, file) == [mode |-> mode, file |-> file, data |-> <<>>]
Closed == Open("closed", NULL)
NoDir  == -1

(* fclose writes out what the stream still buffers. *)
Flushed(disk, file) ==
    IF file.mode = "wb" THEN [disk EXCEPT ![file.file] = file.data] ELSE disk

(* What may be on disk after fwrite appended to the stream: any part of it *)
(* that includes what was there already.                                   *)
Written(disk, file) ==
    {[disk EXCEPT ![file.file] = SubSeq(file.data, 1, n)] :
        n \in Len(disk[file.file]) .. Len(file.data)}

(* fread: the next block of the file, or nothing at its end. *)
AtEnd(disk, file) == Len(file.data) >= Len(disk[file.file])
NextBlock(disk, file) == disk[file.file][Len(file.data) + 1]
Advance(file, block) == [file EXCEPT !.data = Append(@, block)]

-----------------------------------------------------------------------------
(* History of the copy: no handler reads it. *)

NoCopy  == [phase |-> "none", side |-> "none", file |-> NULL, goal |-> <<>>]
Spoiled == [NoCopy EXCEPT !.phase = "spoiled"]
BeginCopy(side, file, source) ==
    [phase |-> "copying", side |-> side, file |-> file,
     goal |-> IF source = NULL THEN <<>> ELSE source]
FinishCopy(side) ==
    IF copy.phase = "copying" /\ copy.side = side
    THEN [copy EXCEPT !.phase = "done"] ELSE copy

CanFail == faults < MaxFaults

(* A read or write error that stdio reports and the program ignores. *)
StdioError == /\ CanFail
              /\ faults' = faults + 1
              /\ copy' = Spoiled

NoError == UNCHANGED <<faults, copy>>

-----------------------------------------------------------------------------
(* The server's side: server.cpp, connection_info.cpp, connection_core.cpp *)

(* receive_packet on the head of the stream. *)
ServerTakes(type, option) ==
    /\ link = "open"
    /\ to_server # <<>>
    /\ Head(to_server).type = type
    /\ Head(to_server).option = option
    /\ to_server' = Tail(to_server)
    /\ UNCHANGED <<clientVars, client, local, link>>

Reply(packet) == to_client' = Append(to_client, packet)

(* unsetWorkingStatus *)
Unset == /\ fd' = Closed
         /\ dir' = NoDir
         /\ status' = "READY"
         /\ remote' = Flushed(remote, fd)
         /\ UNCHANGED core_buff

(* STATUS_FAILED after any request that did not work out. *)
Refuse == /\ Unset
          /\ Reply(Response("FAILED"))

(* ls opens "./"; opendir fails when the current directory is gone. *)
ServeLs ==
    /\ ServerTakes("REQUEST", "LS")
    /\ copy' = NoCopy
    /\ UNCHANGED faults
    /\ \/ /\ dir' \in 0 .. MaxBlocks
          /\ status' = "LISTING"
          /\ fd' = Closed
          /\ remote' = Flushed(remote, fd)
          /\ Reply(Response("SUCCEED"))
          /\ UNCHANGED core_buff
       \/ Refuse

ServeDownload ==
    /\ ServerTakes("REQUEST", "DOWNLOAD")
    /\ copy' = NoCopy
    /\ UNCHANGED faults
    /\ \/ /\ remote[Head(to_server).arg] # NULL
          /\ fd' = Open("rb", Head(to_server).arg)
          /\ status' = "DOWNLOADING"
          /\ dir' = NoDir
          /\ remote' = Flushed(remote, fd)
          /\ Reply(Response("SUCCEED"))
          /\ UNCHANGED core_buff
       \/ Refuse

(* Mutant: a failed fopen goes unnoticed. *)
ServeUploadUnchecked ==
    /\ ServerTakes("REQUEST", "UPLOAD")
    /\ fd' \in {Closed, Open("wb", Head(to_server).arg)}
    /\ status' = "UPLOADING"
    /\ dir' = NoDir
    /\ remote' = [remote EXCEPT ![Head(to_server).arg] = <<>>]
    /\ Reply(Response("SUCCEED"))
    /\ copy' = NoCopy
    /\ UNCHANGED <<core_buff, faults>>

(* setWorkingStatus and the answer.  fopen(..., "wb") empties the file     *)
(* before anything is known of the data.                                   *)
ServeUpload ==
    /\ ServerTakes("REQUEST", "UPLOAD")
    /\ UNCHANGED faults
    /\ \/ /\ fd' = Open("wb", Head(to_server).arg)
          /\ status' = "UPLOADING"
          /\ dir' = NoDir
          /\ remote' = [Flushed(remote, fd) EXCEPT ![Head(to_server).arg] = <<>>]
          /\ Reply(Response("SUCCEED"))
          /\ copy' = BeginCopy("remote", Head(to_server).arg, local[file_name])
          /\ UNCHANGED core_buff
       \/ /\ Refuse
          /\ copy' = NoCopy

(* removeFile answers success without looking at the result of remove().   *)
ServeRm ==
    /\ ServerTakes("REQUEST", "RM")
    /\ copy' = NoCopy
    /\ UNCHANGED faults
    /\ \/ /\ remote[Head(to_server).arg] # NULL
          /\ remote' \in {remote, [remote EXCEPT ![Head(to_server).arg] = NULL]}
          /\ Reply(Response("SUCCEED"))
          /\ UNCHANGED coreVars
       \/ Refuse

(* remove_dir takes whatever files it finds below the directory.           *)
ServeRmdir ==
    /\ ServerTakes("REQUEST", "RMDIR")
    /\ copy' = NoCopy
    /\ UNCHANGED faults
    /\ \/ /\ \E gone \in SUBSET RemoteFile :
                remote' = [f \in RemoteFile |-> IF f \in gone THEN NULL ELSE remote[f]]
          /\ Reply(Response("SUCCEED"))
          /\ UNCHANGED coreVars
       \/ Refuse

(* cd, mkdir and pwd change no file; pwd never fails, its answer is at     *)
(* least "/".                                                              *)
ServeDirectory ==
    /\ \E command \in {"CD", "MKDIR", "PWD"} :
          /\ ServerTakes("REQUEST", command)
          /\ \/ /\ Reply(Response("SUCCEED"))
                /\ UNCHANGED <<coreVars, remote>>
             \/ /\ command # "PWD"
                /\ Refuse
    /\ copy' = NoCopy
    /\ UNCHANGED faults

(* Mutant: the end of the directory is not recognised. *)
ServeBlockOverrun ==
    /\ ServerTakes("REQUEST", "CONTINUE")
    /\ NoError
    /\ status = "LISTING"
    /\ dir' = dir - 1
    /\ core_buff' = <<Names>>
    /\ Reply(Send("INTACT", Names))
    /\ UNCHANGED <<fd, status, remote>>

(* getData(true) when prepareData finds a block. *)
ServeBlock ==
    /\ ServerTakes("REQUEST", "CONTINUE")
    /\ NoError
    /\ \/ /\ status = "LISTING" /\ dir > 0
          /\ dir' = dir - 1
          /\ core_buff' = <<Names>>
          /\ UNCHANGED fd
       \/ /\ status = "DOWNLOADING" /\ fd.mode = "rb" /\ ~AtEnd(remote, fd)
          /\ core_buff' = <<NextBlock(remote, fd)>>
          /\ fd' = Advance(fd, NextBlock(remote, fd))
          /\ UNCHANGED dir
    /\ Reply(Send("INTACT", core_buff'[1]))
    /\ UNCHANGED <<status, remote>>

(* getData(true) when prepareData finds none: length = 0, SEND_DONE; or    *)
(* nothing is open, STATUS_FAILED.  fread returns 0 on an error as well.   *)
ServeEnd ==
    /\ ServerTakes("REQUEST", "CONTINUE")
    /\ \/ /\ ~(status = "LISTING" /\ dir > 0)
          /\ ~(status = "DOWNLOADING" /\ fd.mode = "rb" /\ ~AtEnd(remote, fd))
          /\ NoError
       \/ /\ status = "DOWNLOADING" /\ fd.mode = "rb"
          /\ StdioError
    /\ LET prepared == \/ status = "LISTING" /\ dir # NoDir
                       \/ status = "DOWNLOADING" /\ fd.mode # "closed"
       IN  /\ core_buff' = IF prepared THEN <<>> ELSE core_buff
           /\ Reply(Response(IF prepared THEN "DONE" ELSE "FAILED"))
    /\ fd' = Closed
    /\ dir' = NoDir
    /\ status' = "READY"
    /\ remote' = Flushed(remote, fd)

(* getData(false): the block in the buffer once more.  With length = 0 the *)
(* packet is sent without data, and no hash fits it.                       *)
ServeRepeat ==
    /\ ServerTakes("REQUEST", "REPEAT")
    /\ NoError
    /\ Reply(IF core_buff # <<>> THEN Send("INTACT", core_buff[1])
                                 ELSE Send("CORRUPT", NULL))
    /\ UNCHANGED <<coreVars, remote>>

(* The client has opened its file and is ready to upload. *)
ServeGo ==
    /\ ServerTakes("REQUEST", "SUCCEED")
    /\ NoError
    /\ LET go == status = "UPLOADING"
       IN  /\ Reply(Response(IF go THEN "CONTINUE" ELSE "FAILED"))
           /\ fd' = IF go THEN fd ELSE Closed
           /\ dir' = IF go THEN dir ELSE NoDir
           /\ status' = IF go THEN status ELSE "READY"
           /\ remote' = IF go THEN remote ELSE Flushed(remote, fd)
    /\ UNCHANGED core_buff

(* Mutant: they are answered like every other request. *)
ServeStopAnswers ==
    /\ \E option \in {"DONE", "FAILED"} : ServerTakes("REQUEST", option)
    /\ Unset
    /\ Reply(Response("SUCCEED"))
    /\ UNCHANGED <<faults, copy>>

(* SEND_DONE and STATUS_FAILED end the work and are not answered: the      *)
(* packet that deal_request sends then has length 0.                       *)
ServeStop ==
    /\ \/ /\ ServerTakes("REQUEST", "DONE")
          /\ copy' = FinishCopy("remote")
       \/ /\ ServerTakes("REQUEST", "FAILED")
          /\ UNCHANGED copy
    /\ Unset
    /\ UNCHANGED <<to_client, faults>>

(* Mutant: a block whose hash is wrong is dropped in silence. *)
ServeDataSilent ==
    \/ /\ ServerTakes("SEND", "CORRUPT")
       /\ NoError
       /\ UNCHANGED <<coreVars, remote, to_client>>
    \/ /\ ServerTakes("SEND", "INTACT")
       /\ Reply(Response("CONTINUE"))
       /\ fd' = Advance(fd, Head(to_server).arg)
       /\ remote' \in Written(remote, fd')
       /\ NoError
       /\ UNCHANGED <<status, dir, core_buff>>

(* deal_send: the result of fwrite is not looked at. *)
ServeData ==
    \/ /\ ServerTakes("SEND", "CORRUPT")
       /\ Reply(Response("REPEAT"))
       /\ NoError
       /\ UNCHANGED <<coreVars, remote>>
    \/ /\ ServerTakes("SEND", "INTACT")
       /\ LET accepted == status = "UPLOADING" /\ fd.mode # "closed"
          IN  /\ Reply(Response(IF accepted THEN "CONTINUE" ELSE "FAILED"))
              /\ \/ /\ NoError
                    /\ fd' = IF accepted THEN Advance(fd, Head(to_server).arg) ELSE fd
                    /\ remote' \in IF accepted THEN Written(remote, fd') ELSE {remote}
                 \/ /\ accepted
                    /\ StdioError
                    /\ UNCHANGED <<fd, remote>>
       /\ UNCHANGED <<status, dir, core_buff>>

ServerStep == \/ ServeLs \/ ServeDownload \/ ServeUpload
              \/ ServeRm \/ ServeRmdir \/ ServeDirectory
              \/ ServeBlock \/ ServeEnd \/ ServeRepeat
              \/ ServeGo \/ ServeStop \/ ServeData

-----------------------------------------------------------------------------
(* The client's side: client/main.cpp, client/client.cpp                   *)

(* process_command: the main thread waits while is_waiting(), then sends   *)
(* the request under the lock.  It does not notice a dead receiver thread. *)
Ask(command, arg) ==
    /\ client # "exited"
    /\ now_status = "READY"
    /\ now_status' = IF command \in Transfers THEN "TRANSFERING" ELSE "WAITING"
    /\ now_command' = command
    /\ to_server' = Append(to_server, Request(command, arg))
    /\ UNCHANGED <<file_fd, buff, client, local, coreVars, remote,
                   to_client, link, faults, copy>>

Command ==
    \/ /\ \E command \in {"LS", "CD", "PWD", "MKDIR", "RMDIR"} : Ask(command, NULL)
       /\ UNCHANGED file_name
    \/ /\ \E f \in RemoteFile : Ask("RM", f)
       /\ UNCHANGED file_name
    \/ /\ \E command \in {"UPLOAD", "DOWNLOAD"}, f \in RemoteFile : Ask(command, f)
       /\ file_name' \in LocalFile

(* client_receiver: one packet, under the lock.  A response that nobody    *)
(* waits for is dropped, and so is a block outside a transfer.             *)
Unexpected(packet) == \/ packet.type = "RESPONSE" /\ now_status = "READY"
                      \/ packet.type = "SEND" /\ now_status # "TRANSFERING"

ClientTakes(type, option) ==
    /\ client = "up"
    /\ to_client # <<>>
    /\ Head(to_client).type = type
    /\ Head(to_client).option = option
    /\ to_client' = Tail(to_client)
    /\ UNCHANGED <<now_command, file_name, client, coreVars, remote, link>>

Answer(packet) == to_server' = Append(to_server, packet)

(* Mutant: fclose is forgotten. *)
ReadyLeaky == /\ now_status' = "READY"
              /\ UNCHANGED <<file_fd, local>>

(* set_status(STATUS_READY) closes the file of the transfer. *)
Ready == /\ now_status' = "READY"
         /\ file_fd' = Closed
         /\ local' = Flushed(local, file_fd)

(* STATUS_SUCCEED to a command that is finished with its answer. *)
DealAnswered ==
    /\ ClientTakes("RESPONSE", "SUCCEED")
    /\ now_command \notin Transfers
    /\ Ready
    /\ UNCHANGED <<buff, to_server, faults, copy>>

(* STATUS_SUCCEED to ls: fetch the first block. *)
DealListing ==
    /\ ClientTakes("RESPONSE", "SUCCEED")
    /\ now_command = "LS"
    /\ Answer(Request("CONTINUE", NULL))
    /\ UNCHANGED <<now_status, file_fd, buff, local, faults, copy>>

(* STATUS_SUCCEED to upload or download: open_file on the local file, and  *)
(* if that fails call the transfer off.                                    *)
DealOpen ==
    /\ ClientTakes("RESPONSE", "SUCCEED")
    /\ UNCHANGED <<buff, faults>>
    /\ \/ /\ now_command = "UPLOAD"
          /\ local[file_name] # NULL
          /\ file_fd' = Open("rb", file_name)
          /\ local' = Flushed(local, file_fd)
          /\ Answer(Request("SUCCEED", NULL))
          /\ UNCHANGED <<now_status, copy>>
       \/ /\ now_command = "DOWNLOAD"
          /\ file_fd' = Open("wb", file_name)
          /\ local' = [Flushed(local, file_fd) EXCEPT ![file_name] = <<>>]
          /\ Answer(Request("CONTINUE", NULL))
          /\ copy' = BeginCopy("local", file_name, remote[fd.file])
          /\ UNCHANGED now_status
       \/ /\ now_command \in {"UPLOAD", "DOWNLOAD"}
          /\ Ready
          /\ Answer(Request("FAILED", NULL))
          /\ UNCHANGED copy

(* SEND_CONTINUE: getData(true), the next block of the local file.         *)
DealContinue ==
    /\ ClientTakes("RESPONSE", "CONTINUE")
    /\ LET reading == now_command = "UPLOAD" /\ file_fd.mode # "closed"
       IN  \/ /\ reading /\ ~AtEnd(local, file_fd)
              /\ buff' = <<NextBlock(local, file_fd)>>
              /\ file_fd' = Advance(file_fd, NextBlock(local, file_fd))
              /\ Answer(Send("INTACT", NextBlock(local, file_fd)))
              /\ NoError
              /\ UNCHANGED <<now_status, local>>
           \/ /\ \/ ~(reading /\ ~AtEnd(local, file_fd)) /\ NoError
                 \/ reading /\ StdioError
              /\ buff' = IF reading THEN <<>> ELSE buff
              /\ Answer(Request(IF reading THEN "DONE" ELSE "FAILED", NULL))
              /\ Ready

(* Mutant: getData(true), the next block in the place of the lost one. *)
DealRepeatNext ==
    /\ ClientTakes("RESPONSE", "REPEAT")
    /\ IF AtEnd(local, file_fd)
       THEN /\ Answer(Request("DONE", NULL))
            /\ Ready
            /\ buff' = <<>>
       ELSE /\ buff' = <<NextBlock(local, file_fd)>>
            /\ file_fd' = Advance(file_fd, NextBlock(local, file_fd))
            /\ Answer(Send("INTACT", NextBlock(local, file_fd)))
            /\ UNCHANGED <<now_status, local>>
    /\ NoError

(* SEND_REPEAT: getData(false), the same block again.                      *)
DealRepeat ==
    /\ ClientTakes("RESPONSE", "REPEAT")
    /\ Answer(IF buff # <<>> THEN Send("INTACT", buff[1]) ELSE Send("CORRUPT", NULL))
    /\ NoError
    /\ UNCHANGED <<now_status, file_fd, buff, local>>

(* SEND_DONE, and every option that stands for a failure. *)
DealEnd ==
    /\ \/ /\ ClientTakes("RESPONSE", "DONE")
          /\ copy' = FinishCopy("local")
       \/ /\ ClientTakes("RESPONSE", "FAILED")
          /\ UNCHANGED copy
    /\ Ready
    /\ UNCHANGED <<buff, to_server, faults>>

(* deal_send: store or print the block and ask for the next one.           *)
DealData ==
    \/ /\ ClientTakes("SEND", "CORRUPT")
       /\ Answer(Request("REPEAT", NULL))
       /\ NoError
       /\ UNCHANGED <<now_status, file_fd, buff, local>>
    \/ /\ ClientTakes("SEND", "INTACT")
       /\ LET storing  == now_command = "DOWNLOAD" /\ file_fd.mode # "closed"
              accepted == storing \/ now_command = "LS"
          IN  /\ Answer(Request(IF accepted THEN "CONTINUE" ELSE "FAILED", NULL))
              /\ \/ /\ NoError
                    /\ file_fd' = IF storing THEN Advance(file_fd, Head(to_client).arg)
                                             ELSE file_fd
                    /\ local' \in IF storing THEN Written(local, file_fd') ELSE {local}
                 \/ /\ storing
                    /\ StdioError
                    /\ UNCHANGED <<file_fd, local>>
       /\ UNCHANGED <<now_status, buff>>

(* The early returns of deal_response and deal_send. *)
Drop ==
    /\ client = "up"
    /\ to_client' = Tail(to_client)
    /\ UNCHANGED <<clientVars, client, local, coreVars, remote,
                   to_server, link, faults, copy>>

ClientStep == IF to_client # <<>> /\ Unexpected(Head(to_client))
              THEN Drop
              ELSE \/ DealAnswered \/ DealListing \/ DealOpen
                   \/ DealContinue \/ DealRepeat \/ DealEnd \/ DealData

-----------------------------------------------------------------------------
(* The connection.  A packet sent on a closed connection, or to a process  *)
(* that has exited, stays in its queue: there is nobody to take it.        *)

(* Bytes of the data part change on the way; the hash is there for this.   *)
Corrupt ==
    /\ CanFail
    /\ faults' = faults + 1
    /\ \/ /\ to_server # <<>> /\ Head(to_server).type = "SEND"
          /\ Head(to_server).option = "INTACT"
          /\ to_server' = <<[Head(to_server) EXCEPT !.option = "CORRUPT"]>> \o Tail(to_server)
          /\ UNCHANGED to_client
       \/ /\ to_client # <<>> /\ Head(to_client).type = "SEND"
          /\ Head(to_client).option = "INTACT"
          /\ to_client' = <<[Head(to_client) EXCEPT !.option = "CORRUPT"]>> \o Tail(to_client)
          /\ UNCHANGED to_server
    /\ UNCHANGED <<clientVars, client, local, coreVars, remote, link, copy>>

(* close_connection for a client that is taken for dead, or after          *)
(* receive_packet fails.  ~connection_core closes neither fd nor dir: what *)
(* the stream still buffers is written when the server exits, or never.    *)
ServerClose ==
    /\ link = "open"
    /\ link' = "closed"
    /\ remote' \in {remote, Flushed(remote, fd)}
    /\ UNCHANGED <<clientVars, client, local, coreVars,
                   to_server, to_client, faults, copy>>

(* Mutant: a result of 0 is not taken for the end of the stream. *)
ServerSeesEndNegative ==
    /\ client = "exited"
    /\ to_server # <<>>
    /\ ServerClose

(* The client has exited and the stream is read up: recv returns 0. *)
ServerSeesEnd ==
    /\ client = "exited"
    /\ to_server = <<>>
    /\ ServerClose

(* The client's receive_packet fails, its receiver thread ends. *)
PipeBroken ==
    /\ link = "closed"
    /\ client = "up"
    /\ client' = "deaf"
    /\ UNCHANGED <<clientVars, local, coreVars, remote,
                   to_server, to_client, link, faults, copy>>

(* The exit command or SIGINT, after which exit() writes out open files;   *)
(* on a closed connection also SIGPIPE, after which nothing is.            *)
ClientExit ==
    /\ client # "exited"
    /\ client' = "exited"
    /\ \/ local' = Flushed(local, file_fd)
       \/ link = "closed" /\ UNCHANGED local
    /\ UNCHANGED <<clientVars, coreVars, remote,
                   to_server, to_client, link, faults, copy>>

-----------------------------------------------------------------------------

Init ==
    /\ now_status = "READY"
    /\ now_command = "NONE"
    /\ file_name = NULL
    /\ file_fd = Closed
    /\ buff = <<>>
    /\ client = "up"
    /\ local \in [LocalFile -> InitialContent \cup {NULL}]
    /\ status = "READY"
    /\ fd = Closed
    /\ dir = NoDir
    /\ core_buff \in {<<>>, <<NULL>>}   \* the constructor leaves length as it is
    /\ remote \in [RemoteFile -> InitialContent \cup {NULL}]
    /\ to_server = <<>>
    /\ to_client = <<>>
    /\ link = "open"
    /\ faults = 0
    /\ copy = NoCopy

Next == \/ Command \/ ClientStep \/ ServerStep
        \/ Corrupt \/ ServerClose \/ PipeBroken \/ ClientExit

(* Both programs return to epoll_wait after every packet and are told of   *)
(* every packet that waits; nobody has to type a command.                  *)
Fairness == /\ WF_vars(ServerStep)
            /\ WF_vars(ClientStep)
            /\ WF_vars(ServerSeesEnd)

Spec == Init /\ [][Next]_vars
FairSpec == Spec /\ Fairness

-----------------------------------------------------------------------------
(* Properties. *)

File == [mode : {"closed", "rb", "wb"},
         file : LocalFile \cup RemoteFile \cup {NULL},
         data : Seq(Chunk)]
Buffer == {<<>>} \cup {<<block>> : block \in Block}
CopyRecord == [phase : {"none", "copying", "done", "spoiled"},
               side : {"none", "local", "remote"},
               file : LocalFile \cup RemoteFile \cup {NULL},
               goal : Seq(Chunk)]

(* The variables have the values the declarations of the code allow.       *)
TypeOK ==
    /\ now_status \in {"READY", "WAITING", "TRANSFERING"}
    /\ now_command \in Commands \cup {"NONE"}
    /\ file_name \in LocalFile \cup {NULL}
    /\ file_fd \in File
    /\ buff \in Buffer
    /\ client \in {"up", "deaf", "exited"}
    /\ local \in [LocalFile -> {NULL} \cup Seq(Chunk)]
    /\ status \in {"READY", "LISTING", "UPLOADING", "DOWNLOADING"}
    /\ fd \in File
    /\ dir \in Nat \cup {NoDir}
    /\ core_buff \in Buffer
    /\ remote \in [RemoteFile -> {NULL} \cup Seq(Chunk)]
    /\ to_server \in Seq(Packet)
    /\ to_client \in Seq(Packet)
    /\ link \in {"open", "closed"}
    /\ faults \in Nat
    /\ copy \in CopyRecord

(* A request the server does not answer: SEND_DONE, STATUS_FAILED. *)
Closing(packet) == packet.type = "REQUEST" /\ packet.option \in {"DONE", "FAILED"}

(* Responses carry nothing that says which request they answer; the client *)
(* reads them by now_command.  That is sound because a client that waits   *)
(* has exactly one packet under way that will be answered or is an answer, *)
(* and a client that does not wait has none, whatever was lost, corrupted  *)
(* or called off before.                                                   *)
OneOutstanding ==
    IF now_status = "READY"
    THEN /\ to_client = <<>>
         /\ Len(to_server) <= 1
         /\ \A i \in 1 .. Len(to_server) : Closing(to_server[i])
    ELSE \/ /\ to_server = <<>>
            /\ Len(to_client) = 1
         \/ /\ to_client = <<>>
            /\ Len(to_server) \in 1 .. 2
            /\ ~Closing(to_server[Len(to_server)])
            /\ Len(to_server) = 2 => Closing(to_server[1])

(* The two ends agree on what is being done: a packet of a transfer finds  *)
(* the end it reaches in the state that packet is for, so no transfer is   *)
(* broken off by a STATUS_FAILED of its own making and no block is taken   *)
(* from a buffer nobody filled (connection_core leaves length unset).      *)
InStep ==
    /\ to_server # <<>> =>
         LET packet == Head(to_server) IN
         /\ packet.type = "SEND" \/ packet.option = "SUCCEED"
               => status = "UPLOADING" /\ fd.mode = "wb"
         /\ packet.type = "REQUEST" /\ packet.option \in {"CONTINUE", "REPEAT"}
               => \/ status = "LISTING" /\ dir # NoDir
                  \/ status = "DOWNLOADING" /\ fd.mode = "rb"
         /\ packet.type = "REQUEST" /\ packet.option = "REPEAT"
               => core_buff \notin {<<>>, <<NULL>>}
    /\ to_client # <<>> =>
         LET packet == Head(to_client) IN
         /\ packet.option \in {"CONTINUE", "REPEAT"}
               => now_command = "UPLOAD" /\ file_fd.mode = "rb"
         /\ packet.option = "REPEAT" => buff # <<>>
         /\ packet.type = "SEND"
               => \/ now_command = "LS"
                  \/ now_command = "DOWNLOAD" /\ file_fd.mode = "wb"

(* However a command ended, nothing stays open for it: the client's FILE*  *)
(* is closed when the prompt is back, and the core's FILE* and DIR* once   *)
(* the server has read what the client had sent.                           *)
NothingLeftOpen ==
    now_status = "READY" =>
        /\ file_fd = Closed
        /\ to_server = <<>> => fd = Closed /\ dir = NoDir /\ status = "READY"

(* Where the copy is stored. *)
Sink == IF copy.phase \in {"copying", "done"}
        THEN IF copy.side = "remote" THEN remote[copy.file] ELSE local[copy.file]
        ELSE <<>>

Promise == INSTANCE FileCopy
             WITH phase <- copy.phase, goal <- copy.goal, sink <- Sink

(* Upload and download implement FileCopy: the destination is always an    *)
(* initial segment of the source, corrupted and repeated blocks included,  *)
(* and it is all of it when the side that stores it has been told DONE.    *)
CopyIsFaithful == Promise!Spec

(* A command comes to its end: the prompt returns, unless the connection   *)
(* is closed under it.                                                     *)
CommandEnds == now_status # "READY" ~> \/ now_status = "READY"
                                       \/ link = "closed"
                                       \/ client = "exited"

(* The server closes the connection of a client that has exited, after it  *)
(* has dealt with everything the client had sent.                          *)
Released == client = "exited" ~> link = "closed"

=============================================================================
