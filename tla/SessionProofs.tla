---------------------------- MODULE SessionProofs ----------------------------
(***************************************************************************)
(* Proofs about Session.  Of everything that is under way between the two  *)
(* ends, one packet says where the conversation stands.  Phase lists the   *)
(* standings, each with the state both ends are then in; it is inductive   *)
(* together with the types and with what is known of the open handles.     *)
(***************************************************************************)
EXTENDS Session, SequenceTheorems, TLAPS

-----------------------------------------------------------------------------
(* Where the conversation stands. *)

ToServer(packet) == to_client = <<>> /\ to_server = <<packet>>
ToClient(packet) == to_server = <<>> /\ to_client = <<packet>>
Farewell == {Request("DONE", NULL), Request("FAILED", NULL)}

Idle == fd = Closed /\ dir = NoDir /\ status = "READY"

(* The client waits for the answer to a command it has sent. *)
Busy ==
    /\ now_command \in Commands
    /\ now_status = IF now_command \in Transfers THEN "TRANSFERING" ELSE "WAITING"
    /\ now_command \in {"UPLOAD", "DOWNLOAD"} => file_name \in LocalFile

AtPrompt ==
    /\ now_status = "READY"
    /\ file_fd = Closed
    /\ to_client = <<>>
    /\ \/ to_server = <<>> /\ Idle
       \/ \E p \in Farewell : to_server = <<p>>

AskedFor(arg) ==
    /\ Busy
    /\ file_fd = Closed
    /\ to_client = <<>>
    /\ now_command \in {"RM", "UPLOAD", "DOWNLOAD"} => arg \in RemoteFile
    /\ \/ to_server = <<Request(now_command, arg)>> /\ Idle
       \/ \E p \in Farewell : to_server = <<p, Request(now_command, arg)>>

Asked == \E arg \in RemoteFile \cup {NULL} : AskedFor(arg)

Accepted ==
    /\ Busy
    /\ file_fd = Closed
    /\ ToClient(Response("SUCCEED"))
    /\ \/ now_command \notin Transfers /\ Idle
       \/ now_command = "LS" /\ status = "LISTING" /\ dir \in Nat /\ fd = Closed
       \/ /\ \/ now_command = "UPLOAD" /\ status = "UPLOADING" /\ fd.mode = "wb"
             \/ now_command = "DOWNLOAD" /\ status = "DOWNLOADING" /\ fd.mode = "rb"
          /\ fd.data = <<>>
          /\ dir = NoDir

Refused == Busy /\ file_fd = Closed /\ ToClient(Response("FAILED")) /\ Idle

Uploading ==
    /\ Busy /\ now_command = "UPLOAD" /\ file_fd.mode = "rb"
    /\ status = "UPLOADING" /\ fd.mode = "wb" /\ dir = NoDir

UpGo    == Uploading /\ ToServer(Request("SUCCEED", NULL))
UpNext  == Uploading /\ ToClient(Response("CONTINUE"))
UpBlock == /\ Uploading
           /\ \E hash \in {"INTACT", "CORRUPT"}, block \in Chunk :
                 ToServer(Send(hash, block)) /\ buff = <<block>>
UpAgain == /\ Uploading
           /\ ToClient(Response("REPEAT"))
           /\ \E block \in Chunk : buff = <<block>>

Listing ==
    /\ Busy /\ now_command = "LS" /\ file_fd = Closed
    /\ status = "LISTING" /\ dir \in Nat /\ fd = Closed
Downloading ==
    /\ Busy /\ now_command = "DOWNLOAD" /\ file_fd.mode = "wb"
    /\ status = "DOWNLOADING" /\ fd.mode = "rb" /\ dir = NoDir
Fetching == Listing \/ Downloading

(* The blocks the core sends: entries of a directory, or of a file. *)
Sendable(block) == IF now_command = "LS" THEN block = Names ELSE block \in Chunk

DownNext  == Fetching /\ ToServer(Request("CONTINUE", NULL))
DownBlock == /\ Fetching
             /\ \E hash \in {"INTACT", "CORRUPT"}, block \in Block :
                   /\ ToClient(Send(hash, block))
                   /\ core_buff = <<block>>
                   /\ Sendable(block)
DownAgain == /\ Fetching
             /\ ToServer(Request("REPEAT", NULL))
             /\ \E block \in Block : core_buff = <<block>> /\ Sendable(block)
DownEnd   == /\ Busy /\ now_command \in {"LS", "DOWNLOAD"}
             /\ ToClient(Response("DONE"))
             /\ Idle

Phase == \/ AtPrompt \/ Asked \/ Accepted \/ Refused
         \/ UpGo \/ UpNext \/ UpBlock \/ UpAgain
         \/ DownNext \/ DownBlock \/ DownAgain \/ DownEnd

(* An open handle is on a file that is there. *)
HandlesOK ==
    /\ fd.mode # "closed" => fd.file \in RemoteFile /\ remote[fd.file] \in Seq(Chunk)
    /\ file_fd.mode # "closed" => file_fd.file \in LocalFile /\ local[file_fd.file] \in Seq(Chunk)

(* The inductive invariant of the control. *)
Inv == TypeOK /\ Phase /\ HandlesOK

-----------------------------------------------------------------------------
(* Short queues. *)

LEMMA OnePacket ==
    ASSUME NEW p
    PROVE  /\ Append(<<>>, p) = <<p>>
           /\ Head(<<p>>) = p
           /\ Tail(<<p>>) = <<>>
           /\ Len(<<p>>) = 1
           /\ <<p>> # <<>>
  OBVIOUS

LEMMA TwoPackets ==
    ASSUME NEW p, NEW q
    PROVE  /\ Append(<<p>>, q) = <<p, q>>
           /\ Head(<<p, q>>) = p
           /\ Tail(<<p, q>>) = <<q>>
           /\ Len(<<p, q>>) = 2
           /\ <<p, q>> # <<>>
<1> DEFINE S == {p, q}
<1>1. Append(<<p>>, q) \in Seq(S) /\ <<p, q>> \in Seq(S)
  OBVIOUS
<1>2. /\ Len(Append(<<p>>, q)) = Len(<<p, q>>)
      /\ \A i \in 1 .. Len(Append(<<p>>, q)) : Append(<<p>>, q)[i] = <<p, q>>[i]
  OBVIOUS
<1>3. Append(<<p>>, q) = <<p, q>>
  BY <1>1, <1>2, SeqEqual
<1> QED
  BY <1>3

(* A block that fread finds is a block of the file. *)
LEMMA NextBlockIsChunk ==
    ASSUME NEW disk, NEW file,
           file.data \in Seq(Chunk), disk[file.file] \in Seq(Chunk),
           ~AtEnd(disk, file)
    PROVE  NextBlock(disk, file) \in Chunk
  BY DEF AtEnd, NextBlock

(* The packet the server takes next tells where the conversation stands. *)
LEMMA AtServer ==
    ASSUME Phase, to_server # <<>>
    PROVE  LET p == Head(to_server) IN
           /\ p.type = "SEND" => UpBlock
           /\ p.type = "REQUEST" =>
                /\ p.option = "SUCCEED" => UpGo
                /\ p.option = "CONTINUE" => DownNext
                /\ p.option = "REPEAT" => DownAgain
                /\ p.option \in Commands =>
                      /\ \E arg \in RemoteFile \cup {NULL} :
                            AskedFor(arg) /\ to_server = <<Request(now_command, arg)>>
                      /\ Idle
                /\ p.option \in {"DONE", "FAILED"} =>
                      \/ AtPrompt /\ to_server = <<p>>
                      \/ \E arg \in RemoteFile \cup {NULL} :
                            AskedFor(arg) /\ to_server = <<p, Request(now_command, arg)>>
<1>1. CASE AtPrompt
  BY <1>1, OnePacket DEF AtPrompt, Farewell, Request, Commands, Transfers
<1>2. CASE Asked
  BY <1>2, OnePacket, TwoPackets DEF Asked, AskedFor, Farewell, Request, Commands, Transfers, Busy
<1>3. CASE Accepted \/ Refused \/ UpNext \/ UpAgain \/ DownBlock \/ DownEnd
  BY <1>3 DEF Accepted, Refused, UpNext, UpAgain, DownBlock, DownEnd, ToClient
<1>4. CASE UpGo \/ DownNext \/ DownAgain
  BY <1>4, OnePacket DEF UpGo, DownNext, DownAgain, ToServer, Request, Commands, Transfers
<1>5. CASE UpBlock
  BY <1>5, OnePacket DEF UpBlock, ToServer, Send
<1> QED
  BY <1>1, <1>2, <1>3, <1>4, <1>5 DEF Phase

(* And so does the packet the client takes next. *)
LEMMA AtClient ==
    ASSUME Phase, to_client # <<>>
    PROVE  LET p == Head(to_client) IN
           /\ p.type = "SEND" => DownBlock
           /\ p.type = "RESPONSE" =>
                /\ p.option = "SUCCEED" => Accepted
                /\ p.option = "FAILED" => Refused
                /\ p.option = "CONTINUE" => UpNext
                /\ p.option = "REPEAT" => UpAgain
                /\ p.option = "DONE" => DownEnd
<1>1. CASE AtPrompt \/ Asked \/ UpGo \/ UpBlock \/ DownNext \/ DownAgain
  BY <1>1 DEF AtPrompt, Asked, AskedFor, UpGo, UpBlock, DownNext, DownAgain, ToServer
<1>2. CASE Accepted \/ Refused \/ UpNext \/ UpAgain \/ DownEnd
  BY <1>2, OnePacket DEF Accepted, Refused, UpNext, UpAgain, DownEnd, ToClient, Response
<1>3. CASE DownBlock
  BY <1>3, OnePacket DEF DownBlock, ToClient, Send
<1> QED
  BY <1>1, <1>2, <1>3 DEF Phase

-----------------------------------------------------------------------------
(* Every step leads from one standing to another. *)

LEMMA ServerPhase ==
    ASSUME Inv, ServerStep
    PROVE  Phase'
<1> USE DEF Inv
<1>1. CASE ServeLs
  <2>1. /\ to_server # <<>>
        /\ Head(to_server).type = "REQUEST" /\ Head(to_server).option = "LS"
    BY <1>1 DEF ServeLs, ServerTakes
  <2>2. PICK arg \in RemoteFile \cup {NULL} :
           AskedFor(arg) /\ to_server = <<Request(now_command, arg)>> /\ Idle
    BY <2>1, AtServer DEF Commands, Transfers
  <2>3. now_command = "LS"
    BY <2>1, <2>2, OnePacket DEF Request
  <2>4. Accepted' \/ Refused'
    BY <1>1, <2>2, <2>3, OnePacket, SessionAssumption
       DEF ServeLs, ServerTakes, Refuse, Unset, Reply, Accepted, Refused, AskedFor, Busy,
           ToClient, Idle, Response, clientVars, Transfers, Commands, Closed, Open
  <2> QED
    BY <2>4 DEF Phase
<1>2. CASE ServeDownload
  <2>1. /\ to_server # <<>>
        /\ Head(to_server).type = "REQUEST" /\ Head(to_server).option = "DOWNLOAD"
    BY <1>2 DEF ServeDownload, ServerTakes
  <2>2. PICK arg \in RemoteFile \cup {NULL} :
           AskedFor(arg) /\ to_server = <<Request(now_command, arg)>> /\ Idle
    BY <2>1, AtServer DEF Commands, Transfers
  <2>3. now_command = "DOWNLOAD"
    BY <2>1, <2>2, OnePacket DEF Request
  <2>4. Accepted' \/ Refused'
    BY <1>2, <2>2, <2>3, OnePacket, SessionAssumption
       DEF ServeDownload, ServerTakes, Refuse, Unset, Reply, Accepted, Refused, AskedFor, Busy,
           ToClient, Idle, Response, clientVars, Transfers, Commands, Closed, Open
  <2> QED
    BY <2>4 DEF Phase
<1>3. CASE ServeUpload
  <2>1. /\ to_server # <<>>
        /\ Head(to_server).type = "REQUEST" /\ Head(to_server).option = "UPLOAD"
    BY <1>3 DEF ServeUpload, ServerTakes
  <2>2. PICK arg \in RemoteFile \cup {NULL} :
           AskedFor(arg) /\ to_server = <<Request(now_command, arg)>> /\ Idle
    BY <2>1, AtServer DEF Commands, Transfers
  <2>3. now_command = "UPLOAD"
    BY <2>1, <2>2, OnePacket DEF Request
  <2>4. Accepted' \/ Refused'
    BY <1>3, <2>2, <2>3, OnePacket, SessionAssumption
       DEF ServeUpload, ServerTakes, Refuse, Unset, Reply, Accepted, Refused, AskedFor, Busy,
           ToClient, Idle, Response, clientVars, Transfers, Commands, Closed, Open
  <2> QED
    BY <2>4 DEF Phase
<1>4. CASE ServeRm \/ ServeRmdir \/ ServeDirectory
  <2>1. /\ to_server # <<>>
        /\ Head(to_server).type = "REQUEST"
        /\ Head(to_server).option \in Commands \ Transfers
    BY <1>4 DEF ServeRm, ServeRmdir, ServeDirectory, ServerTakes, Commands, Transfers
  <2>2. PICK arg \in RemoteFile \cup {NULL} :
           AskedFor(arg) /\ to_server = <<Request(now_command, arg)>> /\ Idle
    BY <2>1, AtServer
  <2>3. now_command \in Commands \ Transfers
    BY <2>1, <2>2, OnePacket DEF Request
  <2>4. Accepted' \/ Refused'
    BY <1>4, <2>2, <2>3, OnePacket, SessionAssumption
       DEF ServeRm, ServeRmdir, ServeDirectory, ServerTakes, Refuse, Unset, Reply, Accepted,
           Refused, AskedFor, Busy, ToClient, Idle, Response, clientVars, coreVars, Transfers,
           Commands, Closed, Open
  <2> QED
    BY <2>4 DEF Phase
<1>5. CASE ServeBlock
  <2>1. DownNext
    BY <1>5, AtServer DEF ServeBlock, ServerTakes
  <2>2. Fetching'
    BY <1>5, <2>1
       DEF ServeBlock, ServerTakes, DownNext, Fetching, Listing, Downloading, clientVars, Busy,
           NoDir, Advance, File, TypeOK, Closed, Open
  <2>3. PICK block \in Block : core_buff' = <<block>> /\ Sendable(block)'
    <3>1. CASE Listing
      BY <1>5, <2>1, <3>1
         DEF ServeBlock, ServerTakes, Listing, Sendable, clientVars, Block
    <3>2. CASE Downloading
      <4>1. /\ ~AtEnd(remote, fd)
            /\ core_buff' = <<NextBlock(remote, fd)>>
            /\ now_command' = "DOWNLOAD"
        BY <1>5, <3>2 DEF ServeBlock, ServerTakes, Downloading, clientVars
      <4>2. NextBlock(remote, fd) \in Chunk
        BY <3>2, <4>1, NextBlockIsChunk DEF Downloading, HandlesOK, TypeOK, File
      <4> QED
        BY <4>1, <4>2 DEF Sendable, Block
    <3> QED
      BY <2>1, <3>1, <3>2 DEF DownNext, Fetching
  <2>4. ToClient(Send("INTACT", block))'
    <3>1. core_buff'[1] = block
      BY <2>3
    <3> QED
      BY <1>5, <2>1, <3>1, OnePacket DEF ServeBlock, ServerTakes, DownNext, ToServer, ToClient, Reply
  <2> QED
    BY <2>2, <2>3, <2>4 DEF DownBlock, Phase
<1>6. CASE ServeEnd
  <2>1. DownNext
    BY <1>6, AtServer DEF ServeEnd, ServerTakes
  <2>2. DownEnd'
    BY <1>6, <2>1, OnePacket
       DEF ServeEnd, ServerTakes, DownNext, DownEnd, Fetching, Listing, Downloading, clientVars,
           Busy, ToServer, ToClient, Reply, Idle, NoDir
  <2> QED
    BY <2>2 DEF Phase
<1>7. CASE ServeRepeat
  <2>1. DownAgain
    BY <1>7, AtServer DEF ServeRepeat, ServerTakes
  <2>2. PICK block \in Block : core_buff = <<block>> /\ Sendable(block)
    BY <2>1 DEF DownAgain
  <2>3. Fetching' /\ Sendable(block)' /\ core_buff' = <<block>>
    BY <1>7, <2>1, <2>2
       DEF ServeRepeat, ServerTakes, DownAgain, Fetching, Listing, Downloading, Sendable,
           clientVars, coreVars, Busy
  <2>4. ToClient(Send("INTACT", block))'
    BY <1>7, <2>1, <2>2, OnePacket
       DEF ServeRepeat, ServerTakes, DownAgain, ToServer, ToClient, Reply
  <2> QED
    BY <2>3, <2>4 DEF DownBlock, Phase
<1>8. CASE ServeGo
  <2>1. UpGo
    BY <1>8, AtServer DEF ServeGo, ServerTakes
  <2>2. UpNext'
    BY <1>8, <2>1, OnePacket
       DEF ServeGo, ServerTakes, UpGo, UpNext, Uploading, clientVars, Busy, ToServer, ToClient,
           Reply
  <2> QED
    BY <2>2 DEF Phase
<1>9. CASE ServeStop
  <2>1. /\ to_server # <<>>
        /\ Head(to_server).type = "REQUEST" /\ Head(to_server).option \in {"DONE", "FAILED"}
    BY <1>9 DEF ServeStop, ServerTakes
  <2>2. CASE AtPrompt /\ to_server = <<Head(to_server)>>
    <3>1. AtPrompt'
      BY <1>9, <2>2, OnePacket
         DEF ServeStop, ServerTakes, Unset, AtPrompt, Idle, clientVars
    <3> QED
      BY <3>1 DEF Phase
  <2>3. ASSUME NEW arg \in RemoteFile \cup {NULL}, AskedFor(arg),
               to_server = <<Head(to_server), Request(now_command, arg)>>
        PROVE  Phase'
    <3>1. AskedFor(arg)'
      BY <1>9, <2>3, TwoPackets
         DEF ServeStop, ServerTakes, Unset, AskedFor, Idle, clientVars, Busy
    <3> QED
      BY <3>1 DEF Phase, Asked
  <2> QED
    BY <2>1, <2>2, <2>3, AtServer
<1>10. CASE ServeData
  <2>1. UpBlock
    BY <1>10, AtServer DEF ServeData, ServerTakes
  <2>2. Uploading'
    BY <1>10, <2>1
       DEF ServeData, ServerTakes, UpBlock, Uploading, clientVars, coreVars, Busy, Advance,
           TypeOK, File
  <2>3. UpNext' \/ UpAgain'
    BY <1>10, <2>1, <2>2, OnePacket
       DEF ServeData, ServerTakes, UpBlock, UpNext, UpAgain, ToServer, ToClient, Reply, clientVars,
           Uploading
  <2> QED
    BY <2>3 DEF Phase
<1> QED
  BY <1>1, <1>2, <1>3, <1>4, <1>5, <1>6, <1>7, <1>8, <1>9, <1>10 DEF ServerStep

(* The early returns of deal_response and deal_send are never taken. *)
LEMMA Expected ==
    ASSUME Phase, to_client # <<>>
    PROVE  ~Unexpected(Head(to_client))
<1>1. CASE Head(to_client).type = "SEND"
  BY <1>1, AtClient
     DEF Unexpected, DownBlock, Fetching, Listing, Downloading, Busy, Transfers
<1>2. CASE Head(to_client).type = "RESPONSE"
  <2>1. Head(to_client).option \in {"SUCCEED", "FAILED", "CONTINUE", "REPEAT", "DONE"}
    <3>1. CASE AtPrompt \/ Asked \/ UpGo \/ UpBlock \/ DownNext \/ DownAgain
      BY <3>1 DEF AtPrompt, Asked, AskedFor, UpGo, UpBlock, DownNext, DownAgain, ToServer
    <3>2. CASE Accepted \/ Refused \/ UpNext \/ UpAgain \/ DownEnd
      BY <3>2, OnePacket DEF Accepted, Refused, UpNext, UpAgain, DownEnd, ToClient, Response
    <3>3. CASE DownBlock
      BY <1>2, <3>3, OnePacket DEF DownBlock, ToClient, Send
    <3> QED
      BY <3>1, <3>2, <3>3 DEF Phase
  <2> QED
    BY <1>2, <2>1, AtClient
       DEF Unexpected, Accepted, Refused, UpNext, UpAgain, DownEnd, Uploading, Busy, Transfers
<1> QED
  BY <1>1, <1>2 DEF Unexpected

LEMMA ClientPhase ==
    ASSUME Inv, ClientStep
    PROVE  Phase'
<1> USE DEF Inv
<1>1. to_client # <<>> => ~Unexpected(Head(to_client))
  BY Expected
<1>2. CASE DealAnswered
  <2>1. Accepted
    BY <1>2, AtClient DEF DealAnswered, ClientTakes
  <2>2. AtPrompt'
    BY <1>2, <2>1, OnePacket
       DEF DealAnswered, ClientTakes, Ready, Accepted, AtPrompt, ToClient, Idle, coreVars,
           Transfers
  <2> QED
    BY <2>2 DEF Phase
<1>3. CASE DealListing
  <2>1. Accepted
    BY <1>3, AtClient DEF DealListing, ClientTakes
  <2>2. DownNext'
    BY <1>3, <2>1, OnePacket
       DEF DealListing, ClientTakes, Answer, Accepted, DownNext, Fetching, Listing, ToServer,
           ToClient, coreVars, Busy, Transfers, Commands
  <2> QED
    BY <2>2 DEF Phase
<1>4. CASE DealOpen
  <2>1. Accepted
    BY <1>4, AtClient DEF DealOpen, ClientTakes
  <2>2. UpGo' \/ DownNext' \/ AtPrompt'
    BY <1>4, <2>1, OnePacket
       DEF DealOpen, ClientTakes, Answer, Ready, Accepted, UpGo, Uploading, DownNext, Fetching,
           Downloading, AtPrompt, Farewell, ToServer, ToClient, coreVars, Busy, Transfers,
           Commands, Open
  <2> QED
    BY <2>2 DEF Phase
<1>5. CASE DealContinue
  <2>1. UpNext
    BY <1>5, AtClient DEF DealContinue, ClientTakes
  <2>2. CASE ~AtEnd(local, file_fd) /\ file_fd' = Advance(file_fd, NextBlock(local, file_fd))
             /\ buff' = <<NextBlock(local, file_fd)>> /\ now_status' = now_status
             /\ Answer(Send("INTACT", NextBlock(local, file_fd)))
    <3>1. PICK block \in Chunk : block = NextBlock(local, file_fd)
      BY <2>1, <2>2, NextBlockIsChunk DEF UpNext, Uploading, HandlesOK, TypeOK, File
    <3>2. Uploading' /\ buff' = <<block>>
      BY <1>5, <2>1, <2>2, <3>1
         DEF DealContinue, ClientTakes, UpNext, Uploading, Busy, Advance, coreVars, TypeOK, File
    <3>3. ToServer(Send("INTACT", block))'
      BY <1>5, <2>1, <2>2, <3>1, OnePacket
         DEF DealContinue, ClientTakes, UpNext, ToServer, ToClient, Answer
    <3> QED
      BY <3>2, <3>3 DEF UpBlock, Phase
  <2>3. CASE Ready /\ \E option \in {"DONE", "FAILED"} : Answer(Request(option, NULL))
    <3>1. AtPrompt'
      BY <1>5, <2>1, <2>3, OnePacket
         DEF DealContinue, ClientTakes, Answer, Ready, UpNext, AtPrompt, Farewell, ToClient
    <3> QED
      BY <3>1 DEF Phase
  <2> QED
    BY <1>5, <2>2, <2>3 DEF DealContinue
<1>6. CASE DealRepeat
  <2>1. UpAgain
    BY <1>6, AtClient DEF DealRepeat, ClientTakes
  <2>2. UpBlock'
    BY <1>6, <2>1, OnePacket
       DEF DealRepeat, ClientTakes, Answer, UpAgain, UpBlock, Uploading, Busy, ToServer, ToClient,
           coreVars
  <2> QED
    BY <2>2 DEF Phase
<1>7. CASE DealEnd
  <2>1. Refused \/ DownEnd
    BY <1>7, AtClient DEF DealEnd, ClientTakes
  <2>2. AtPrompt'
    BY <1>7, <2>1, OnePacket
       DEF DealEnd, ClientTakes, Ready, Refused, DownEnd, AtPrompt, ToClient, Idle, coreVars
  <2> QED
    BY <2>2 DEF Phase
<1>8. CASE DealData
  <2>1. DownBlock
    BY <1>8, AtClient DEF DealData, ClientTakes
  <2>2. Fetching'
    BY <1>8, <2>1
       DEF DealData, ClientTakes, DownBlock, Fetching, Listing, Downloading, Busy, coreVars,
           Advance, TypeOK, File, Closed, Open
  <2>3. DownNext' \/ DownAgain'
    BY <1>8, <2>1, <2>2, OnePacket
       DEF DealData, ClientTakes, Answer, DownBlock, DownNext, DownAgain, Fetching, Listing,
           Downloading, Sendable, ToServer, ToClient, coreVars
  <2> QED
    BY <2>3 DEF Phase
<1> QED
  BY <1>1, <1>2, <1>3, <1>4, <1>5, <1>6, <1>7, <1>8 DEF ClientStep

LEMMA OtherPhase ==
    ASSUME Inv,
           Command \/ Corrupt \/ ServerClose \/ PipeBroken \/ ClientExit \/ UNCHANGED vars
    PROVE  Phase'
<1> USE DEF Inv
<1>1. CASE Command
  <2>1. AtPrompt
    BY <1>1
       DEF Command, Ask, Phase, Asked, AskedFor, Accepted, Refused, UpGo, UpNext, UpBlock, UpAgain,
           Uploading, DownNext, DownBlock, DownAgain, DownEnd, Fetching, Listing, Downloading, Busy
  <2>2. PICK command \in Commands, arg \in RemoteFile \cup {NULL} :
           /\ Ask(command, arg)
           /\ command \in {"RM", "UPLOAD", "DOWNLOAD"} => arg \in RemoteFile
           /\ command \in {"UPLOAD", "DOWNLOAD"} => file_name' \in LocalFile
    BY <1>1 DEF Command, Commands, Transfers
  <2>3. Busy' /\ now_command' = command /\ Idle' = Idle /\ UNCHANGED <<file_fd, to_client>>
    BY <2>2 DEF Ask, Busy, Idle, coreVars
  <2>4. CASE to_server = <<>> /\ Idle
    <3>1. to_server' = <<Request(now_command', arg)>>
      BY <2>2, <2>3, <2>4, OnePacket DEF Ask
    <3> QED
      BY <2>1, <2>2, <2>3, <2>4, <3>1 DEF AtPrompt, AskedFor, Asked, Phase
  <2>5. ASSUME NEW p \in Farewell, to_server = <<p>>
        PROVE  Phase'
    <3>1. to_server' = <<p, Request(now_command', arg)>>
      BY <2>2, <2>3, <2>5, TwoPackets DEF Ask
    <3> QED
      BY <2>1, <2>2, <2>3, <2>5, <3>1 DEF AtPrompt, AskedFor, Asked, Phase
  <2> QED
    BY <2>1, <2>4, <2>5 DEF AtPrompt
<1>2. CASE Corrupt
  <2>1. UNCHANGED <<clientVars, client, local, coreVars, remote>>
    BY <1>2 DEF Corrupt
  <2>2. CASE to_server # <<>> /\ Head(to_server).type = "SEND"
             /\ to_server' = <<[Head(to_server) EXCEPT !.option = "CORRUPT"]>> \o Tail(to_server)
             /\ to_client' = to_client
    <3>1. UpBlock
      BY <2>2, AtServer
    <3>2. PICK block \in Chunk : /\ \E hash \in {"INTACT", "CORRUPT"} : ToServer(Send(hash, block))
                                 /\ buff = <<block>>
      BY <3>1 DEF UpBlock
    <3>3. ToServer(Send("CORRUPT", block))'
      BY <2>2, <3>2, OnePacket DEF ToServer, Send
    <3> QED
      BY <2>1, <3>1, <3>2, <3>3
         DEF UpBlock, Uploading, Busy, Phase, clientVars, coreVars
  <2>3. CASE to_client # <<>> /\ Head(to_client).type = "SEND"
             /\ to_client' = <<[Head(to_client) EXCEPT !.option = "CORRUPT"]>> \o Tail(to_client)
             /\ to_server' = to_server
    <3>1. DownBlock
      BY <2>3, AtClient
    <3>2. PICK block \in Block : /\ \E hash \in {"INTACT", "CORRUPT"} : ToClient(Send(hash, block))
                                 /\ core_buff = <<block>>
                                 /\ Sendable(block)
      BY <3>1 DEF DownBlock
    <3>3. ToClient(Send("CORRUPT", block))'
      BY <2>3, <3>2, OnePacket DEF ToClient, Send
    <3>4. Fetching' /\ Sendable(block)' /\ core_buff' = <<block>>
      BY <2>1, <3>1, <3>2
         DEF DownBlock, Fetching, Listing, Downloading, Busy, Sendable, clientVars, coreVars
    <3> QED
      BY <3>3, <3>4 DEF DownBlock, Phase
  <2> QED
    BY <1>2, <2>2, <2>3 DEF Corrupt
<1>3. CASE UNCHANGED <<clientVars, coreVars, to_server, to_client>>
  BY <1>3
     DEF Phase, AtPrompt, Asked, AskedFor, Accepted, Refused, UpGo, UpNext, UpBlock, UpAgain,
         Uploading, DownNext, DownBlock, DownAgain, DownEnd, Fetching, Listing, Downloading, Busy,
         Idle, Sendable, ToServer, ToClient, clientVars, coreVars
<1> QED
  BY <1>1, <1>2, <1>3 DEF ServerClose, PipeBroken, ClientExit, vars

-----------------------------------------------------------------------------
(* The operators of the model stay within their types. *)

LEMMA PacketTypes ==
    /\ \A option \in Options, arg \in RemoteFile \cup {NULL} : Request(option, arg) \in Packet
    /\ \A option \in Options : Response(option) \in Packet
    /\ \A hash \in {"INTACT", "CORRUPT"}, block \in Block : Send(hash, block) \in Packet
  BY DEF Packet, Request, Response, Send

LEMMA OpenType ==
    ASSUME NEW mode \in {"closed", "rb", "wb"},
           NEW f \in LocalFile \cup RemoteFile \cup {NULL}
    PROVE  /\ Open(mode, f) \in File
           /\ Open(mode, f).mode = mode
           /\ Open(mode, f).file = f
           /\ Open(mode, f).data = <<>>
  BY DEF Open, File

LEMMA ClosedType == Closed \in File /\ Closed.mode = "closed"
  BY OpenType DEF Closed

LEMMA AdvanceKeeps ==
    ASSUME NEW file \in File, NEW block
    PROVE  /\ Advance(file, block).mode = file.mode
           /\ Advance(file, block).file = file.file
           /\ Advance(file, block).data = Append(file.data, block)
  BY DEF Advance, File

LEMMA AdvanceType ==
    ASSUME NEW file \in File, NEW block \in Chunk
    PROVE  /\ Advance(file, block) \in File
           /\ Advance(file, block).mode = file.mode
           /\ Advance(file, block).file = file.file
           /\ Advance(file, block).data = Append(file.data, block)
  BY DEF Advance, File

Disk(S) == [S -> {NULL} \cup Seq(Chunk)]

LEMMA FlushedType ==
    ASSUME NEW S, NEW disk \in Disk(S), NEW file \in File,
           file.mode # "closed" => file.file \in S
    PROVE  /\ Flushed(disk, file) \in Disk(S)
           /\ \A f \in S : disk[f] \in Seq(Chunk) => Flushed(disk, file)[f] \in Seq(Chunk)
           /\ file.mode # "wb" => Flushed(disk, file) = disk
           /\ file.mode = "wb" => Flushed(disk, file)[file.file] = file.data
           /\ \A f \in S : f # file.file => Flushed(disk, file)[f] = disk[f]
  BY DEF Flushed, Disk, File

(* What is on the disk afterwards is a part of what went through the FILE*. *)
LEMMA WrittenPart ==
    ASSUME NEW S, NEW disk \in Disk(S), NEW file, file.file \in S,
           NEW after \in Written(disk, file)
    PROVE  \E n \in Len(disk[file.file]) .. Len(file.data) :
              after[file.file] = SubSeq(file.data, 1, n)
  BY DEF Written, Disk

LEMMA WrittenType ==
    ASSUME NEW S, NEW disk \in Disk(S), NEW file \in File,
           file.file \in S, disk[file.file] \in Seq(Chunk),
           NEW after \in Written(disk, file)
    PROVE  /\ after \in Disk(S)
           /\ after[file.file] \in Seq(Chunk)
           /\ \A f \in S : f # file.file => after[f] = disk[f]
           /\ \E n \in Len(disk[file.file]) .. Len(file.data) :
                 after[file.file] = SubSeq(file.data, 1, n)
<1>1. PICK n \in Len(disk[file.file]) .. Len(file.data) :
         after = [disk EXCEPT ![file.file] = SubSeq(file.data, 1, n)]
  BY DEF Written
<1>2. SubSeq(file.data, 1, n) \in Seq(Chunk)
  BY <1>1 DEF File
<1> QED
  BY <1>1, <1>2 DEF Disk

LEMMA NoCopyType == NoCopy \in CopyRecord /\ Spoiled \in CopyRecord
<1>1. NoCopy \in CopyRecord
  BY DEF NoCopy, CopyRecord
<1> QED
  BY <1>1 DEF Spoiled, CopyRecord

LEMMA BeginCopyType ==
    ASSUME NEW side \in {"local", "remote"}, NEW f \in LocalFile \cup RemoteFile,
           NEW source \in {NULL} \cup Seq(Chunk)
    PROVE  BeginCopy(side, f, source) \in CopyRecord
  BY DEF BeginCopy, CopyRecord

LEMMA FinishCopyType ==
    ASSUME TypeOK, NEW side \in {"local", "remote"}
    PROVE  FinishCopy(side) \in CopyRecord
  BY DEF FinishCopy, CopyRecord, TypeOK

(* TypeOK and HandlesOK, one side at a time. *)
ClientOK ==
    /\ now_status \in {"READY", "WAITING", "TRANSFERING"}
    /\ now_command \in Commands \cup {"NONE"}
    /\ file_name \in LocalFile \cup {NULL}
    /\ file_fd \in File
    /\ buff \in Buffer
    /\ client \in {"up", "deaf", "exited"}
    /\ local \in Disk(LocalFile)
    /\ file_fd.mode # "closed" => file_fd.file \in LocalFile /\ local[file_fd.file] \in Seq(Chunk)

CoreOK ==
    /\ status \in {"READY", "LISTING", "UPLOADING", "DOWNLOADING"}
    /\ fd \in File
    /\ dir \in Nat \cup {NoDir}
    /\ core_buff \in Buffer
    /\ remote \in Disk(RemoteFile)
    /\ fd.mode # "closed" => fd.file \in RemoteFile /\ remote[fd.file] \in Seq(Chunk)

WireOK ==
    /\ to_server \in Seq(Packet)
    /\ to_client \in Seq(Packet)
    /\ link \in {"open", "closed"}
    /\ faults \in Nat
    /\ copy \in CopyRecord

LEMMA Sides == TypeOK /\ HandlesOK <=> ClientOK /\ CoreOK /\ WireOK
  BY DEF TypeOK, HandlesOK, ClientOK, CoreOK, WireOK, Disk

LEMMA FrameServer ==
    ASSUME TypeOK, HandlesOK, NEW type, NEW option, ServerTakes(type, option)
    PROVE  /\ ClientOK'
           /\ to_server' \in Seq(Packet)
           /\ Head(to_server) \in Packet
           /\ link' \in {"open", "closed"}
<1>1. UNCHANGED <<now_status, now_command, file_name, file_fd, buff, client, local, link>>
  BY DEF ServerTakes, clientVars
<1>2. ClientOK'
  BY <1>1, Sides DEF ClientOK
<1>3. to_server' \in Seq(Packet) /\ Head(to_server) \in Packet
  BY DEF ServerTakes, TypeOK
<1> QED
  BY <1>1, <1>2, <1>3 DEF TypeOK

LEMMA UnsetType ==
    ASSUME TypeOK, HandlesOK, Unset
    PROVE  CoreOK'
  BY Sides, FlushedType, ClosedType DEF Unset, CoreOK

LEMMA ReplyType ==
    ASSUME TypeOK, NEW packet \in Packet, Reply(packet)
    PROVE  to_client' \in Seq(Packet)
  BY DEF Reply, TypeOK

LEMMA ServerType ==
    ASSUME Inv, ServerStep
    PROVE  TypeOK' /\ HandlesOK'
<1> USE DEF Inv
<1> SUFFICES CoreOK' /\ WireOK' /\ ClientOK'
  BY Sides DEF TypeOK, HandlesOK, ClientOK, CoreOK, WireOK, Disk
<1>a. \A option \in {"SUCCEED", "FAILED", "CONTINUE", "DONE", "REPEAT"} :
         Reply(Response(option)) => to_client' \in Seq(Packet)
  BY ReplyType, PacketTypes DEF Options
<1>b. CoreOK /\ faults \in Nat /\ copy \in CopyRecord /\ to_client \in Seq(Packet)
  BY Sides DEF WireOK
<1>c. ASSUME Refuse PROVE CoreOK' /\ to_client' \in Seq(Packet)
  BY <1>a, <1>c, UnsetType DEF Refuse
<1>d. ASSUME NoError PROVE faults' \in Nat /\ copy' \in CopyRecord
  BY <1>b, <1>d DEF NoError
<1>e. ASSUME StdioError PROVE faults' \in Nat /\ copy' \in CopyRecord
  BY <1>b, <1>e, NoCopyType DEF StdioError
<1>1. CASE ServeLs
  <2>1. WireOK' /\ ClientOK'
    BY <1>1, <1>a, <1>b, <1>c, NoCopyType, FrameServer DEF ServeLs, WireOK
  <2>2. CoreOK'
    BY <1>1, <1>b, <1>c, FlushedType, ClosedType, SessionAssumption DEF ServeLs, CoreOK
  <2> QED
    BY <2>1, <2>2
<1>2. CASE ServeDownload
  <2>1. WireOK' /\ ClientOK'
    BY <1>2, <1>a, <1>b, <1>c, NoCopyType, FrameServer DEF ServeDownload, WireOK
  <2>2. CASE ~Refuse
    <3> DEFINE arg == Head(to_server).arg
    <3>1. /\ remote[arg] # NULL
          /\ fd' = Open("rb", arg) /\ status' = "DOWNLOADING" /\ dir' = NoDir
          /\ remote' = Flushed(remote, fd) /\ core_buff' = core_buff
      BY <1>2, <2>2 DEF ServeDownload
    <3>2. arg \in RemoteFile /\ Idle
      BY <1>2, AtServer, OnePacket
         DEF ServeDownload, ServerTakes, Commands, Transfers, AskedFor, Request
    <3>3. remote' = remote
      BY <1>b, <3>1, <3>2, ClosedType, FlushedType DEF Idle, CoreOK
    <3>4. remote[arg] \in Seq(Chunk)
      BY <1>b, <3>1, <3>2 DEF CoreOK, Disk
    <3> QED
      BY <1>b, <2>1, <3>1, <3>2, <3>3, <3>4, OpenType DEF CoreOK
  <2> QED
    BY <1>c, <2>1, <2>2
<1>3. CASE ServeUpload
  <2> DEFINE arg == Head(to_server).arg
  <2>1. arg \in RemoteFile /\ Idle /\ file_name \in LocalFile
    BY <1>3, AtServer, OnePacket
       DEF ServeUpload, ServerTakes, Commands, Transfers, AskedFor, Request, Busy
  <2>2. copy' \in CopyRecord
    <3>1. local[file_name] \in {NULL} \cup Seq(Chunk)
      BY <2>1 DEF TypeOK
    <3> QED
      BY <1>3, <2>1, <3>1, NoCopyType, BeginCopyType DEF ServeUpload
  <2>3. WireOK' /\ ClientOK'
    BY <1>3, <1>a, <1>b, <1>c, <2>2, FrameServer DEF ServeUpload, WireOK
  <2>4. CASE ~Refuse
    <3>1. /\ fd' = Open("wb", arg) /\ status' = "UPLOADING" /\ dir' = NoDir
          /\ remote' = [Flushed(remote, fd) EXCEPT ![arg] = <<>>] /\ core_buff' = core_buff
      BY <1>3, <2>4 DEF ServeUpload
    <3>2. Flushed(remote, fd) \in Disk(RemoteFile)
      BY <1>b, FlushedType DEF CoreOK
    <3>3. remote' \in Disk(RemoteFile) /\ remote'[arg] = <<>>
      BY <2>1, <3>1, <3>2 DEF Disk
    <3>4. fd' \in File /\ fd'.file = arg
      BY <2>1, <3>1, OpenType
    <3>5. remote'[arg] \in Seq(Chunk)
      BY <3>3, EmptySeq
    <3> QED
      BY <1>b, <2>1, <2>3, <3>1, <3>3, <3>4, <3>5 DEF CoreOK
  <2> QED
    BY <1>c, <2>3, <2>4
<1>4. CASE ServeRm
  <2>1. WireOK' /\ ClientOK'
    BY <1>4, <1>a, <1>b, <1>c, NoCopyType, FrameServer DEF ServeRm, WireOK
  <2>2. Idle
    BY <1>4, AtServer DEF ServeRm, ServerTakes, Commands, Transfers
  <2>3. CoreOK'
    BY <1>4, <1>b, <1>c, <2>2, ClosedType DEF ServeRm, CoreOK, Disk, Idle, coreVars
  <2> QED
    BY <2>1, <2>3
<1>5. CASE ServeRmdir
  <2>1. WireOK' /\ ClientOK'
    BY <1>5, <1>a, <1>b, <1>c, NoCopyType, FrameServer DEF ServeRmdir, WireOK
  <2>2. Idle
    BY <1>5, AtServer DEF ServeRmdir, ServerTakes, Commands, Transfers
  <2>3. CoreOK'
    BY <1>5, <1>b, <1>c, <2>2, ClosedType DEF ServeRmdir, CoreOK, Disk, Idle, coreVars
  <2> QED
    BY <2>1, <2>3
<1>6. CASE ServeDirectory
  <2>1. WireOK' /\ ClientOK'
    BY <1>6, <1>a, <1>b, <1>c, NoCopyType, FrameServer DEF ServeDirectory, WireOK
  <2>2. CoreOK'
    BY <1>6, <1>b, <1>c DEF ServeDirectory, CoreOK, coreVars
  <2> QED
    BY <2>1, <2>2
<1>7. CASE ServeBlock
  <2>1. DownNext
    BY <1>7, AtServer DEF ServeBlock, ServerTakes
  <2>2. CASE Listing
    <3>1. /\ dir' = dir - 1 /\ dir > 0 /\ core_buff' = <<Names>>
          /\ UNCHANGED <<fd, status, remote>>
      BY <1>7, <2>2 DEF ServeBlock, Listing
    <3>2. CoreOK'
      BY <1>b, <3>1 DEF CoreOK, NoDir, Buffer, Block
    <3>3. to_client' \in Seq(Packet)
      <4>1. core_buff'[1] = Names
        BY <3>1
      <4>2. Reply(Send("INTACT", Names))
        BY <1>7, <4>1 DEF ServeBlock
      <4> QED
        BY <4>2, ReplyType, PacketTypes DEF Block
    <3> QED
      BY <1>7, <1>d, <3>2, <3>3, FrameServer DEF ServeBlock, WireOK
  <2>3. CASE Downloading
    <3>1. /\ ~AtEnd(remote, fd)
          /\ core_buff' = <<NextBlock(remote, fd)>>
          /\ fd' = Advance(fd, NextBlock(remote, fd))
          /\ UNCHANGED <<dir, status, remote>>
      BY <1>7, <2>3 DEF ServeBlock, Downloading
    <3>2. PICK block \in Chunk : block = NextBlock(remote, fd)
      BY <1>b, <2>3, <3>1, NextBlockIsChunk DEF Downloading, CoreOK, File
    <3>3. CoreOK'
      BY <1>b, <3>1, <3>2, AdvanceType DEF CoreOK, Buffer, Block
    <3>4. to_client' \in Seq(Packet)
      <4>1. core_buff'[1] = block
        BY <3>1, <3>2
      <4>2. Reply(Send("INTACT", block))
        BY <1>7, <4>1 DEF ServeBlock
      <4> QED
        BY <4>2, ReplyType, PacketTypes DEF Block
    <3> QED
      BY <1>7, <1>d, <3>3, <3>4, FrameServer DEF ServeBlock, WireOK
  <2> QED
    BY <2>1, <2>2, <2>3 DEF DownNext, Fetching
<1>8. CASE ServeEnd
  <2>1. to_client' \in Seq(Packet)
    BY <1>8, <1>a DEF ServeEnd
  <2>2. CoreOK'
    BY <1>8, <1>b, FlushedType, ClosedType DEF ServeEnd, CoreOK, Buffer
  <2> QED
    BY <1>8, <1>d, <1>e, <2>1, <2>2, FrameServer DEF ServeEnd, WireOK
<1>9. CASE ServeRepeat
  <2>1. DownAgain
    BY <1>9, AtServer DEF ServeRepeat, ServerTakes
  <2>2. PICK block \in Block : core_buff = <<block>>
    BY <2>1 DEF DownAgain
  <2>3. to_client' \in Seq(Packet)
    BY <1>9, <2>2, ReplyType, PacketTypes DEF ServeRepeat
  <2>4. CoreOK'
    BY <1>9, <1>b DEF ServeRepeat, CoreOK, coreVars
  <2> QED
    BY <1>9, <1>d, <2>3, <2>4, FrameServer DEF ServeRepeat, WireOK
<1>10. CASE ServeGo
  <2>1. to_client' \in Seq(Packet)
    BY <1>10, <1>a DEF ServeGo
  <2>2. CoreOK'
    BY <1>10, <1>b, FlushedType, ClosedType DEF ServeGo, CoreOK
  <2> QED
    BY <1>10, <1>d, <2>1, <2>2, FrameServer DEF ServeGo, WireOK
<1>11. CASE ServeStop
  <2>1. copy' \in CopyRecord /\ faults' \in Nat /\ to_client' \in Seq(Packet)
    BY <1>11, <1>b, FinishCopyType DEF ServeStop
  <2> QED
    BY <1>11, <2>1, UnsetType, FrameServer DEF ServeStop, WireOK
<1>12. CASE ServeData
  <2>1. UpBlock
    BY <1>12, AtServer DEF ServeData, ServerTakes
  <2>2. to_client' \in Seq(Packet) /\ faults' \in Nat /\ copy' \in CopyRecord
    BY <1>12, <1>a, <1>d, <1>e DEF ServeData
  <2>3. CASE UNCHANGED <<coreVars, remote>>
    BY <1>12, <1>b, <2>2, <2>3, FrameServer DEF ServeData, WireOK, CoreOK, coreVars
  <2>4. CASE /\ fd' = Advance(fd, Head(to_server).arg)
             /\ remote' \in Written(remote, fd')
             /\ UNCHANGED <<status, dir, core_buff>>
    <3>1. Head(to_server).arg \in Chunk
      BY <2>1, OnePacket DEF UpBlock, ToServer, Send
    <3>2. fd' \in File /\ fd'.mode = fd.mode /\ fd'.file = fd.file
      BY <1>b, <2>4, <3>1, AdvanceType DEF CoreOK
    <3>3. fd.file \in RemoteFile /\ remote[fd.file] \in Seq(Chunk)
      BY <1>b, <2>1 DEF UpBlock, Uploading, CoreOK
    <3>4. remote' \in Disk(RemoteFile) /\ remote'[fd.file] \in Seq(Chunk)
      BY <1>b, <2>4, <3>2, <3>3, WrittenType DEF CoreOK
    <3>5. CoreOK'
      BY <1>b, <2>4, <3>2, <3>3, <3>4 DEF CoreOK
    <3> QED
      BY <1>12, <2>2, <3>5, FrameServer DEF ServeData, WireOK
  <2>5. UNCHANGED <<coreVars, remote>> \/
          (/\ fd' = Advance(fd, Head(to_server).arg)
           /\ remote' \in Written(remote, fd')
           /\ UNCHANGED <<status, dir, core_buff>>)
    BY <1>12, <2>1 DEF ServeData, UpBlock, Uploading, coreVars
  <2> QED
    BY <2>3, <2>4, <2>5
<1> QED
  BY <1>1, <1>2, <1>3, <1>4, <1>5, <1>6, <1>7, <1>8, <1>9, <1>10, <1>11, <1>12
     DEF ServerStep

LEMMA FrameClient ==
    ASSUME TypeOK, HandlesOK, NEW type, NEW option, ClientTakes(type, option)
    PROVE  /\ CoreOK'
           /\ to_client' \in Seq(Packet)
           /\ Head(to_client) \in Packet
           /\ link' \in {"open", "closed"}
           /\ now_command' \in Commands \cup {"NONE"}
           /\ file_name' \in LocalFile \cup {NULL}
           /\ client' \in {"up", "deaf", "exited"}
<1>1. UNCHANGED <<now_command, file_name, client, status, fd, dir, core_buff, remote, link>>
  BY DEF ClientTakes, coreVars
<1>2. CoreOK'
  BY <1>1, Sides DEF CoreOK
<1>3. to_client' \in Seq(Packet) /\ Head(to_client) \in Packet
  BY DEF ClientTakes, TypeOK
<1> QED
  BY <1>1, <1>2, <1>3 DEF TypeOK

LEMMA AnswerType ==
    ASSUME TypeOK, NEW packet \in Packet, Answer(packet)
    PROVE  to_server' \in Seq(Packet)
  BY DEF Answer, TypeOK

LEMMA ReadyType ==
    ASSUME TypeOK, HandlesOK, Ready
    PROVE  /\ now_status' \in {"READY", "WAITING", "TRANSFERING"}
           /\ file_fd' \in File
           /\ file_fd'.mode = "closed"
           /\ local' \in Disk(LocalFile)
  BY Sides, FlushedType, ClosedType DEF Ready, ClientOK

LEMMA ClientType ==
    ASSUME Inv, ClientStep
    PROVE  TypeOK' /\ HandlesOK'
<1> USE DEF Inv
<1> SUFFICES CoreOK' /\ WireOK' /\ ClientOK'
  BY Sides DEF TypeOK, HandlesOK, ClientOK, CoreOK, WireOK, Disk
<1>a. ClientOK /\ CoreOK /\ WireOK
  BY Sides
<1>b. \A option \in {"SUCCEED", "FAILED", "CONTINUE", "DONE", "REPEAT"} :
         Answer(Request(option, NULL)) => to_server' \in Seq(Packet)
  BY AnswerType, PacketTypes DEF Options
<1>c. ASSUME NoError PROVE faults' \in Nat /\ copy' \in CopyRecord
  BY <1>a, <1>c DEF NoError, WireOK
<1>d. ASSUME StdioError PROVE faults' \in Nat /\ copy' \in CopyRecord
  BY <1>a, <1>d, NoCopyType DEF StdioError, WireOK
<1>1. CASE to_client # <<>> /\ Unexpected(Head(to_client)) /\ Drop
  <2>1. to_client' \in Seq(Packet)
    BY <1>1 DEF Drop, TypeOK
  <2>2. ClientOK' /\ CoreOK'
    BY <1>1, <1>a DEF Drop, ClientOK, CoreOK, clientVars, coreVars
  <2> QED
    BY <1>1, <1>a, <2>1, <2>2 DEF Drop, WireOK
<1>2. CASE DealAnswered
  <2>1. ClientOK'
    BY <1>2, <1>a, ReadyType, FrameClient DEF DealAnswered, ClientOK
  <2> QED
    BY <1>2, <1>a, <2>1, FrameClient DEF DealAnswered, WireOK
<1>3. CASE DealListing
  <2>1. ClientOK'
    BY <1>3, <1>a, FrameClient DEF DealListing, ClientOK
  <2> QED
    BY <1>3, <1>a, <1>b, <2>1, FrameClient DEF DealListing, WireOK
<1>4. CASE DealOpen
  <2>1. Accepted
    BY <1>4, AtClient DEF DealOpen, ClientTakes
  <2>2. to_server' \in Seq(Packet) /\ faults' \in Nat
    BY <1>4, <1>a, <1>b DEF DealOpen, WireOK
  <2>3. CASE Ready /\ UNCHANGED copy
    <3>1. ClientOK'
      BY <1>4, <1>a, <2>3, ReadyType, FrameClient DEF DealOpen, ClientOK
    <3> QED
      BY <1>4, <1>a, <2>2, <2>3, <3>1, FrameClient DEF DealOpen, WireOK
  <2>4. CASE /\ now_command = "UPLOAD"
             /\ local[file_name] # NULL
             /\ file_fd' = Open("rb", file_name)
             /\ local' = Flushed(local, file_fd)
             /\ UNCHANGED <<now_status, copy>>
    <3>1. file_name \in LocalFile /\ file_fd = Closed
      BY <2>1, <2>4 DEF Accepted, Busy
    <3>2. local' = local /\ local[file_name] \in Seq(Chunk)
      BY <1>a, <2>4, <3>1, FlushedType, ClosedType DEF ClientOK, Disk
    <3>3. ClientOK'
      BY <1>4, <1>a, <2>4, <3>1, <3>2, OpenType, FrameClient DEF DealOpen, ClientOK
    <3> QED
      BY <1>4, <1>a, <2>2, <2>4, <3>3, FrameClient DEF DealOpen, WireOK
  <2>5. CASE /\ now_command = "DOWNLOAD"
             /\ file_fd' = Open("wb", file_name)
             /\ local' = [Flushed(local, file_fd) EXCEPT ![file_name] = <<>>]
             /\ copy' = BeginCopy("local", file_name, remote[fd.file])
             /\ UNCHANGED now_status
    <3>1. file_name \in LocalFile /\ fd.mode # "closed"
      BY <2>1, <2>5 DEF Accepted, Busy, Transfers
    <3>2. copy' \in CopyRecord
      BY <1>a, <2>5, <3>1, BeginCopyType DEF CoreOK
    <3>3. Flushed(local, file_fd) \in Disk(LocalFile)
      BY <1>a, FlushedType DEF ClientOK
    <3>4. local' \in Disk(LocalFile) /\ local'[file_name] \in Seq(Chunk)
      BY <2>5, <3>1, <3>3 DEF Disk
    <3>5. file_fd' \in File /\ file_fd'.file = file_name
      BY <2>5, <3>1, OpenType
    <3>6. ClientOK'
      BY <1>4, <1>a, <2>5, <3>1, <3>4, <3>5, FrameClient DEF DealOpen, ClientOK
    <3> QED
      BY <1>4, <1>a, <2>2, <2>5, <3>2, <3>6, FrameClient DEF DealOpen, WireOK
  <2> QED
    BY <1>4, <2>3, <2>4, <2>5 DEF DealOpen
<1>5. CASE DealContinue
  <2>1. UpNext
    BY <1>5, AtClient DEF DealContinue, ClientTakes
  <2>2. CASE /\ ~AtEnd(local, file_fd)
             /\ buff' = <<NextBlock(local, file_fd)>>
             /\ file_fd' = Advance(file_fd, NextBlock(local, file_fd))
             /\ Answer(Send("INTACT", NextBlock(local, file_fd)))
             /\ NoError
             /\ UNCHANGED <<now_status, local>>
    <3>1. PICK block \in Chunk : block = NextBlock(local, file_fd)
      BY <1>a, <2>1, <2>2, NextBlockIsChunk DEF UpNext, Uploading, ClientOK, File
    <3>2. ClientOK'
      BY <1>5, <1>a, <2>2, <3>1, AdvanceType, FrameClient
         DEF DealContinue, ClientOK, Buffer, Block
    <3>3. to_server' \in Seq(Packet)
      BY <2>2, <3>1, AnswerType, PacketTypes DEF Block
    <3> QED
      BY <1>5, <1>c, <2>2, <3>2, <3>3, FrameClient DEF DealContinue, WireOK
  <2>3. CASE /\ NoError \/ StdioError
             /\ buff' = <<>>
             /\ Answer(Request("DONE", NULL))
             /\ Ready
    <3>1. ClientOK'
      BY <1>5, <1>a, <2>3, ReadyType, FrameClient DEF DealContinue, ClientOK, Buffer
    <3> QED
      BY <1>5, <1>b, <1>c, <1>d, <2>3, <3>1, FrameClient DEF DealContinue, WireOK
  <2> QED
    BY <1>5, <2>1, <2>2, <2>3 DEF DealContinue, UpNext, Uploading
<1>6. CASE DealRepeat
  <2>1. UpAgain
    BY <1>6, AtClient DEF DealRepeat, ClientTakes
  <2>2. PICK block \in Chunk : buff = <<block>>
    BY <2>1 DEF UpAgain
  <2>3. to_server' \in Seq(Packet)
    BY <1>6, <2>2, AnswerType, PacketTypes DEF DealRepeat, Block
  <2>4. ClientOK'
    BY <1>6, <1>a, FrameClient DEF DealRepeat, ClientOK
  <2> QED
    BY <1>6, <1>c, <2>3, <2>4, FrameClient DEF DealRepeat, WireOK
<1>7. CASE DealEnd
  <2>1. copy' \in CopyRecord
    BY <1>7, <1>a, FinishCopyType DEF DealEnd, WireOK
  <2>2. ClientOK'
    BY <1>7, <1>a, ReadyType, FrameClient DEF DealEnd, ClientOK
  <2> QED
    BY <1>7, <1>a, <2>1, <2>2, FrameClient DEF DealEnd, WireOK
<1>8. CASE DealData
  <2>1. DownBlock
    BY <1>8, AtClient DEF DealData, ClientTakes
  <2>2. to_server' \in Seq(Packet) /\ faults' \in Nat /\ copy' \in CopyRecord
    BY <1>8, <1>b, <1>c, <1>d DEF DealData
  <2>3. CASE UNCHANGED <<file_fd, local>>
    <3>1. ClientOK'
      BY <1>8, <1>a, <2>3, FrameClient DEF DealData, ClientOK
    <3> QED
      BY <1>8, <2>2, <3>1, FrameClient DEF DealData, WireOK
  <2>4. CASE /\ now_command = "DOWNLOAD"
             /\ file_fd' = Advance(file_fd, Head(to_client).arg)
             /\ local' \in Written(local, file_fd')
    <3>1. Head(to_client).arg \in Chunk
      BY <2>1, <2>4, OnePacket DEF DownBlock, ToClient, Send, Sendable
    <3>2. file_fd' \in File /\ file_fd'.mode = file_fd.mode /\ file_fd'.file = file_fd.file
      BY <1>a, <2>4, <3>1, AdvanceType DEF ClientOK
    <3>3. file_fd.file \in LocalFile /\ local[file_fd.file] \in Seq(Chunk)
      BY <1>a, <2>1, <2>4 DEF DownBlock, Fetching, Listing, Downloading, ClientOK
    <3>4. local' \in Disk(LocalFile) /\ local'[file_fd.file] \in Seq(Chunk)
      BY <1>a, <2>4, <3>2, <3>3, WrittenType DEF ClientOK
    <3>5. ClientOK'
      BY <1>8, <1>a, <2>4, <3>2, <3>3, <3>4, FrameClient DEF DealData, ClientOK
    <3> QED
      BY <1>8, <2>2, <3>5, FrameClient DEF DealData, WireOK
  <2> QED
    BY <1>8, <2>3, <2>4 DEF DealData
<1> QED
  BY <1>1, <1>2, <1>3, <1>4, <1>5, <1>6, <1>7, <1>8 DEF ClientStep

LEMMA OtherType ==
    ASSUME Inv,
           Command \/ Corrupt \/ ServerClose \/ PipeBroken \/ ClientExit \/ UNCHANGED vars
    PROVE  TypeOK' /\ HandlesOK'
<1> USE DEF Inv
<1> SUFFICES CoreOK' /\ WireOK' /\ ClientOK'
  BY Sides DEF TypeOK, HandlesOK, ClientOK, CoreOK, WireOK, Disk
<1>a. ClientOK /\ CoreOK /\ WireOK
  BY Sides
<1>1. CASE Command
  <2>1. PICK command \in Commands, arg \in RemoteFile \cup {NULL} :
           Ask(command, arg) /\ file_name' \in LocalFile \cup {NULL}
    BY <1>1, <1>a DEF Command, Commands, Transfers, ClientOK
  <2>2. to_server' \in Seq(Packet)
    <3>1. Request(command, arg) \in Packet
      BY <2>1, PacketTypes DEF Options
    <3> QED
      BY <1>a, <2>1, <3>1 DEF Ask, WireOK
  <2> QED
    BY <1>a, <2>1, <2>2 DEF Ask, ClientOK, CoreOK, WireOK, coreVars
<1>2. CASE Corrupt
  <2>1. to_server' \in Seq(Packet) /\ to_client' \in Seq(Packet)
    <3>1. ASSUME NEW q \in Seq(Packet), q # <<>>, Head(q).type = "SEND"
          PROVE  <<[Head(q) EXCEPT !.option = "CORRUPT"]>> \o Tail(q) \in Seq(Packet)
      <4>1. [Head(q) EXCEPT !.option = "CORRUPT"] \in Packet /\ Tail(q) \in Seq(Packet)
        BY <3>1 DEF Packet
      <4> QED
        BY <4>1
    <3> QED
      BY <1>2, <1>a, <3>1 DEF Corrupt, WireOK
  <2> QED
    BY <1>2, <1>a, <2>1 DEF Corrupt, ClientOK, CoreOK, WireOK, clientVars, coreVars
<1>3. CASE ServerClose
  <2>1. CoreOK'
    BY <1>3, <1>a, FlushedType DEF ServerClose, CoreOK, coreVars
  <2> QED
    BY <1>3, <1>a, <2>1 DEF ServerClose, ClientOK, WireOK, clientVars
<1>4. CASE PipeBroken
  BY <1>4, <1>a DEF PipeBroken, ClientOK, CoreOK, WireOK, clientVars, coreVars
<1>5. CASE ClientExit
  <2>1. ClientOK'
    BY <1>5, <1>a, FlushedType DEF ClientExit, ClientOK, clientVars
  <2> QED
    BY <1>5, <1>a, <2>1 DEF ClientExit, CoreOK, WireOK, coreVars
<1>6. CASE UNCHANGED vars
  BY <1>6, <1>a DEF vars, ClientOK, CoreOK, WireOK, clientVars, coreVars
<1> QED
  BY <1>1, <1>2, <1>3, <1>4, <1>5, <1>6

-----------------------------------------------------------------------------
(* The invariant, and what follows from it. *)

LEMMA InvInit == Init => Inv
<1> SUFFICES ASSUME Init PROVE Inv
  OBVIOUS
<1>1. AtPrompt
  BY ClosedType DEF Init, AtPrompt, Idle
<1>2. local \in Disk(LocalFile) /\ remote \in Disk(RemoteFile)
  BY SessionAssumption DEF Init, Disk
<1>3. ClientOK /\ CoreOK
  BY <1>2, ClosedType DEF Init, ClientOK, CoreOK, Buffer, Block, NoDir
<1>4. WireOK
  BY NoCopyType DEF Init, WireOK
<1> QED
  BY <1>1, <1>3, <1>4, Sides DEF Inv, Phase

LEMMA InvNext == Inv /\ [Next]_vars => Inv'
  BY ServerPhase, ClientPhase, OtherPhase, ServerType, ClientType, OtherType
     DEF Inv, Next

(* In every state the conversation is in one of the twelve standings, and  *)
(* each open handle is on a file that is there (client.cpp deal_response,  *)
(* connection_info.cpp deal_request and deal_send).                        *)
THEOREM Invariant == Spec => []Inv
  BY InvInit, InvNext, PTL DEF Spec

(* Every variable keeps its type: both programs only ever put into the     *)
(* handles, the buffers and the packets what their declarations allow.     *)
THEOREM TypeCorrect == Spec => []TypeOK
  BY Invariant, PTL DEF Inv

(* Requests and answers stay paired (client.cpp now_command): from the     *)
(* phase alone, each of which has one packet under way that counts.        *)
THEOREM Pairing == Spec => []OneOutstanding
<1>1. Inv => OneOutstanding
  <2> SUFFICES ASSUME Inv PROVE OneOutstanding
    OBVIOUS
  <2>1. CASE AtPrompt
    <3>1. CASE to_server = <<>>
      BY <2>1, <3>1 DEF AtPrompt, OneOutstanding
    <3>2. ASSUME NEW p \in Farewell, to_server = <<p>>
          PROVE  OneOutstanding
      <4>1. Len(to_server) = 1 /\ Closing(to_server[1])
        BY <3>2 DEF Closing, Farewell, Request
      <4> QED
        BY <2>1, <4>1 DEF AtPrompt, OneOutstanding
    <3> QED
      BY <2>1, <3>1, <3>2 DEF AtPrompt
  <2>2. CASE Asked
    <3>1. now_status # "READY" /\ now_command \notin {"DONE", "FAILED"} /\ to_client = <<>>
      BY <2>2 DEF Asked, AskedFor, Busy, Commands, Transfers
    <3>2. PICK arg : \/ to_server = <<Request(now_command, arg)>>
                     \/ \E p \in Farewell : to_server = <<p, Request(now_command, arg)>>
      BY <2>2 DEF Asked, AskedFor
    <3>3. CASE to_server = <<Request(now_command, arg)>>
      BY <3>1, <3>3, OnePacket DEF OneOutstanding, Closing, Request
    <3>4. ASSUME NEW p \in Farewell, to_server = <<p, Request(now_command, arg)>>
          PROVE  OneOutstanding
      <4>1. Closing(to_server[1]) /\ ~Closing(to_server[2]) /\ Len(to_server) = 2
        BY <3>1, <3>4 DEF Closing, Request, Farewell
      <4> QED
        BY <3>1, <3>4, <4>1 DEF OneOutstanding
    <3> QED
      BY <3>2, <3>3, <3>4
  <2>3. CASE Accepted \/ Refused \/ UpNext \/ UpAgain \/ DownBlock \/ DownEnd
    BY <2>3, OnePacket
       DEF Accepted, Refused, UpNext, UpAgain, DownBlock, DownEnd, Uploading, Fetching, Listing,
           Downloading, ToClient, OneOutstanding, Busy
  <2>4. CASE UpGo \/ UpBlock \/ DownNext \/ DownAgain
    BY <2>4, OnePacket
       DEF UpGo, UpBlock, DownNext, DownAgain, Uploading, Fetching, Listing, Downloading,
           ToServer, OneOutstanding, Busy, Closing, Request, Send
  <2> QED
    BY <2>1, <2>2, <2>3, <2>4 DEF Inv, Phase
<1> QED
  BY <1>1, Invariant, PTL

(* The two ends agree on the transfer (deal_request, deal_send,            *)
(* deal_response): the packet at the head of a queue fixes the phase, and  *)
(* the phase says what state its receiver is in.                           *)
THEOREM Agreement == Spec => []InStep
<1>1. Inv => InStep
  <2> SUFFICES ASSUME Inv PROVE InStep
    OBVIOUS
  <2>1. ASSUME to_server # <<>>
        PROVE  LET packet == Head(to_server) IN
               /\ packet.type = "SEND" \/ packet.option = "SUCCEED"
                     => status = "UPLOADING" /\ fd.mode = "wb"
               /\ packet.type = "REQUEST" /\ packet.option \in {"CONTINUE", "REPEAT"}
                     => \/ status = "LISTING" /\ dir # NoDir
                        \/ status = "DOWNLOADING" /\ fd.mode = "rb"
               /\ packet.type = "REQUEST" /\ packet.option = "REPEAT"
                     => core_buff \notin {<<>>, <<NULL>>}
    <3> DEFINE packet == Head(to_server)
    <3>1. packet.type \in {"SEND", "REQUEST"}
      BY <2>1, OnePacket, TwoPackets
         DEF Inv, Phase, AtPrompt, Asked, AskedFor, Accepted, Refused, UpGo, UpNext, UpBlock,
             UpAgain, DownNext, DownBlock, DownAgain, DownEnd, ToServer, ToClient, Farewell,
             Request, Send
    <3>2. packet.type = "SEND" \/ packet.option = "SUCCEED"
             => status = "UPLOADING" /\ fd.mode = "wb"
      BY <2>1, <3>1, AtServer DEF Inv, UpGo, UpBlock, Uploading
    <3>3. packet.type = "REQUEST" /\ packet.option \in {"CONTINUE", "REPEAT"}
             => \/ status = "LISTING" /\ dir # NoDir
                \/ status = "DOWNLOADING" /\ fd.mode = "rb"
      BY <2>1, AtServer
         DEF Inv, DownNext, DownAgain, Fetching, Listing, Downloading, NoDir
    <3>4. packet.type = "REQUEST" /\ packet.option = "REPEAT"
             => core_buff \notin {<<>>, <<NULL>>}
      <4> SUFFICES ASSUME packet.type = "REQUEST", packet.option = "REPEAT"
                   PROVE  core_buff \notin {<<>>, <<NULL>>}
        OBVIOUS
      <4>1. PICK block \in Block : core_buff = <<block>> /\ Sendable(block)
        BY <2>1, AtServer DEF Inv, DownAgain
      <4>2. block # NULL
        BY <4>1, SessionAssumption DEF Sendable
      <4> QED
        BY <4>1, <4>2
    <3> QED
      BY <3>2, <3>3, <3>4
  <2>2. ASSUME to_client # <<>>
        PROVE  LET packet == Head(to_client) IN
               /\ packet.option \in {"CONTINUE", "REPEAT"}
                     => now_command = "UPLOAD" /\ file_fd.mode = "rb"
               /\ packet.option = "REPEAT" => buff # <<>>
               /\ packet.type = "SEND"
                     => \/ now_command = "LS"
                        \/ now_command = "DOWNLOAD" /\ file_fd.mode = "wb"
    <3> DEFINE packet == Head(to_client)
    <3>1. \/ packet.type = "RESPONSE"
          \/ packet.type = "SEND" /\ packet.option \in {"INTACT", "CORRUPT"}
      BY <2>2, OnePacket
         DEF Inv, Phase, AtPrompt, Asked, AskedFor, Accepted, Refused, UpGo, UpNext, UpBlock,
             UpAgain, DownNext, DownBlock, DownAgain, DownEnd, ToServer, ToClient,
             Response, Send
    <3>2. packet.option \in {"CONTINUE", "REPEAT"}
             => now_command = "UPLOAD" /\ file_fd.mode = "rb"
      BY <2>2, <3>1, AtClient DEF Inv, UpNext, UpAgain, Uploading
    <3>3. packet.option = "REPEAT" => buff # <<>>
      BY <2>2, <3>1, AtClient DEF Inv, UpAgain
    <3>4. packet.type = "SEND"
             => \/ now_command = "LS"
                \/ now_command = "DOWNLOAD" /\ file_fd.mode = "wb"
      BY <2>2, AtClient DEF Inv, DownBlock, Fetching, Listing, Downloading
    <3> QED
      BY <3>2, <3>3, <3>4
  <2> QED
    BY <2>1, <2>2 DEF InStep
<1> QED
  BY <1>1, Invariant, PTL

(* Nothing stays open when the prompt is back (set_status,                 *)
(* unsetWorkingStatus): the prompt means the phase AtPrompt.               *)
THEOREM Tidy == Spec => []NothingLeftOpen
<1>1. Inv => NothingLeftOpen
  BY DEF Inv, Phase, AtPrompt, Asked, AskedFor, Accepted, Refused, UpGo, UpNext, UpBlock, UpAgain,
         Uploading, DownNext, DownBlock, DownAgain, DownEnd, Fetching, Listing, Downloading, Busy,
         Idle, NothingLeftOpen
<1> QED
  BY <1>1, Invariant, PTL

-----------------------------------------------------------------------------
(* Upload and download implement FileCopy.  What is on the disk of the     *)
(* receiving side is an initial segment of what went through its handle,   *)
(* that is an initial segment of what the other side has read, and the     *)
(* difference between the two handles is the block on its way, if any.     *)

PrefixOf(s, t) == Promise!PrefixOf(s, t)

Copying(side) == copy.phase = "copying" /\ copy.side = side

(* The destination: on disk, through the handle, and at the source. *)
Stores(disk, file) ==
    /\ PrefixOf(disk[copy.file], copy.goal)
    /\ file.mode = "wb" => /\ file.file = copy.file
                           /\ PrefixOf(disk[copy.file], file.data)
                           /\ PrefixOf(file.data, copy.goal)
Reads(disk, file) ==
    /\ disk[file.file] = copy.goal
    /\ PrefixOf(file.data, copy.goal)

RemoteCopy ==
    /\ copy.file \in RemoteFile
    /\ remote[copy.file] \in Seq(Chunk)
    /\ Stores(remote, fd)
    /\ Accepted /\ now_command = "UPLOAD" => local[file_name] \in {NULL, copy.goal}
    /\ UpGo \/ UpNext => Reads(local, file_fd) /\ file_fd.data = fd.data
    /\ UpBlock \/ UpAgain => Reads(local, file_fd) /\ file_fd.data = Append(fd.data, buff[1])
    /\ to_server # <<>> /\ Head(to_server) = Request("DONE", NULL) =>
          fd.mode = "wb" /\ fd.data = copy.goal

LocalCopy ==
    /\ copy.file \in LocalFile
    /\ local[copy.file] \in Seq(Chunk)
    /\ Stores(local, file_fd)
    /\ ~Accepted
    /\ DownNext => Downloading /\ Reads(remote, fd) /\ fd.data = file_fd.data
    /\ DownBlock \/ DownAgain =>
          /\ Downloading
          /\ Reads(remote, fd)
          /\ fd.data = Append(file_fd.data, core_buff[1])
    /\ DownEnd => file_fd.mode = "wb" /\ file_fd.data = copy.goal

(* A finished copy is left alone until the next request is served. *)
FinishedCopy ==
    /\ IF copy.side = "remote"
       THEN copy.file \in RemoteFile /\ remote[copy.file] = copy.goal
       ELSE copy.file \in LocalFile /\ local[copy.file] = copy.goal
    /\ Idle
    /\ file_fd = Closed
    /\ to_client = <<>>
    /\ to_server # <<>> => Busy /\ \E arg \in RemoteFile \cup {NULL} :
                                   to_server = <<Request(now_command, arg)>>

CopyInv ==
    /\ copy.phase \in {"copying", "done"} => copy.side \in {"local", "remote"}
    /\ Copying("remote") => RemoteCopy
    /\ Copying("local") => LocalCopy
    /\ copy.phase = "done" => FinishedCopy

CopyStep == [Promise!Next]_(Promise!vars)

-----------------------------------------------------------------------------
(* Initial segments. *)

LEMMA PrefixRefl ==
    ASSUME NEW s \in Seq(Chunk)
    PROVE  PrefixOf(s, s)
  BY DEF PrefixOf, Promise!PrefixOf

LEMMA PrefixEmpty ==
    ASSUME NEW t \in Seq(Chunk)
    PROVE  PrefixOf(<<>>, t)
  BY DEF PrefixOf, Promise!PrefixOf

LEMMA PrefixTrans ==
    ASSUME NEW r \in Seq(Chunk), NEW s \in Seq(Chunk), NEW t \in Seq(Chunk),
           PrefixOf(r, s), PrefixOf(s, t)
    PROVE  PrefixOf(r, t)
  BY DEF PrefixOf, Promise!PrefixOf

LEMMA PrefixWhole ==
    ASSUME NEW s \in Seq(Chunk), NEW t \in Seq(Chunk), PrefixOf(s, t), Len(s) >= Len(t)
    PROVE  s = t
  BY SeqEqual DEF PrefixOf, Promise!PrefixOf

(* One more block of the source. *)
LEMMA PrefixGrows ==
    ASSUME NEW s \in Seq(Chunk), NEW t \in Seq(Chunk), PrefixOf(s, t), Len(s) < Len(t)
    PROVE  PrefixOf(Append(s, t[Len(s) + 1]), t)
  BY DEF PrefixOf, Promise!PrefixOf

LEMMA PrefixAppend ==
    ASSUME NEW s \in Seq(Chunk), NEW block \in Chunk
    PROVE  PrefixOf(s, Append(s, block))
  BY DEF PrefixOf, Promise!PrefixOf

(* What fwrite lets reach the disk is between what was there and the whole. *)
LEMMA PrefixBetween ==
    ASSUME NEW r \in Seq(Chunk), NEW s \in Seq(Chunk), PrefixOf(r, s),
           NEW n \in Len(r) .. Len(s)
    PROVE  /\ SubSeq(s, 1, n) \in Seq(Chunk)
           /\ PrefixOf(r, SubSeq(s, 1, n))
           /\ PrefixOf(SubSeq(s, 1, n), s)
<1>1. n \in 0 .. Len(s)
  OBVIOUS
<1>2. /\ SubSeq(s, 1, n) \in Seq(Chunk)
      /\ Len(SubSeq(s, 1, n)) = n
      /\ \A i \in 1 .. n : SubSeq(s, 1, n)[i] = s[i]
  BY <1>1
<1> QED
  BY <1>1, <1>2 DEF PrefixOf, Promise!PrefixOf

-----------------------------------------------------------------------------
(* The effect of a step on the copy. *)

(* The copy is dropped. *)
LEMMA Forgets ==
    ASSUME copy' \in {NoCopy, Spoiled}
    PROVE  CopyInv' /\ CopyStep
<1>1. copy'.phase \in {"none", "spoiled"} /\ copy'.goal = <<>>
  BY DEF NoCopy, Spoiled
<1>2. CopyInv'
  BY <1>1 DEF CopyInv, Copying
<1>3. Sink' = <<>>
  BY <1>1 DEF Sink
<1> QED
  BY <1>1, <1>2, <1>3 DEF CopyStep, Promise!Next, Promise!Forget

(* The copy is not touched, or its destination grows. *)
LEMMA Keeps ==
    ASSUME UNCHANGED copy,
           \/ copy.phase = "copying" /\ PrefixOf(Sink, Sink') /\ PrefixOf(Sink', copy.goal)
           \/ Sink' = Sink
    PROVE  CopyStep
  BY DEF CopyStep, Promise!Next, Promise!Extend, Promise!vars, PrefixOf

(* The packet on its way in each standing. *)
Marked ==
    /\ Accepted  => to_client = <<Response("SUCCEED")>>
    /\ UpNext    => to_client = <<Response("CONTINUE")>>
    /\ UpAgain   => to_client = <<Response("REPEAT")>>
    /\ DownEnd   => to_client = <<Response("DONE")>>
    /\ DownBlock => to_client # <<>> /\ Head(to_client).type = "SEND"
    /\ UpGo      => to_server = <<Request("SUCCEED", NULL)>>
    /\ DownNext  => to_server = <<Request("CONTINUE", NULL)>>
    /\ DownAgain => to_server = <<Request("REPEAT", NULL)>>
    /\ UpBlock   => to_server # <<>> /\ Head(to_server).type = "SEND"

LEMMA MarkedHolds == Marked
  BY OnePacket
     DEF Marked, Accepted, UpNext, UpAgain, DownEnd, DownBlock, UpGo, DownNext, DownAgain, UpBlock,
         ToServer, ToClient, Send

LEMMA MarkedNext == Marked'
  BY MarkedHolds, PTL

(* While a finished copy lies there, only a command can be under way. *)
LEMMA Unfinished ==
    ASSUME CopyInv, copy.phase = "done"
    PROVE  /\ to_client = <<>>
           /\ to_server # <<>> => /\ Head(to_server).type = "REQUEST"
                                  /\ Head(to_server).option \in Commands
  BY OnePacket DEF CopyInv, FinishedCopy, Busy, Request

-----------------------------------------------------------------------------
(* The server's steps. *)

LEMMA CopyServeBlock ==
    ASSUME Inv, Inv', CopyInv, ServeBlock
    PROVE  CopyInv' /\ CopyStep
<1>1. DownNext
  BY AtServer DEF Inv, ServeBlock, ServerTakes
<1>2. UNCHANGED <<copy, remote, local, file_fd, now_command, file_name, status, now_status>>
  BY DEF ServeBlock, ServerTakes, NoError, clientVars
<1>3. to_server' = <<>> /\ \E block : to_client' = <<Send("INTACT", block)>>
  BY <1>1, OnePacket DEF ServeBlock, ServerTakes, Reply, DownNext, ToServer
<1>4. CopyStep
  BY <1>2, Keeps DEF Sink
<1>5. /\ ~Accepted' /\ ~UpGo' /\ ~UpNext' /\ ~UpBlock' /\ ~UpAgain'
      /\ ~DownNext' /\ ~DownAgain' /\ ~DownEnd'
  <2>1. to_client' # <<>> /\ Head(to_client').type = "SEND"
    BY <1>3, OnePacket DEF Send
  <2> QED
    BY <1>3, <2>1, MarkedNext, OnePacket DEF Marked, Response, Request
<1>6. copy.phase # "done"
  BY <1>1, Unfinished, OnePacket DEF DownNext, ToServer, Request, Commands, Transfers
<1>7. CASE Copying("remote")
  <2>1. fd.mode # "wb" /\ fd'.mode = fd.mode
    BY <1>1, AdvanceKeeps, ClosedType
       DEF ServeBlock, DownNext, Fetching, Listing, Downloading, Inv, TypeOK
  <2>2. RemoteCopy'
    BY <1>2, <1>3, <1>5, <1>7, <2>1 DEF CopyInv, RemoteCopy, Stores
  <2> QED
    BY <1>2, <1>4, <1>7, <2>2 DEF CopyInv, Copying
<1>8. CASE Copying("local")
  <2>1. LocalCopy /\ Downloading /\ Reads(remote, fd) /\ fd.data = file_fd.data
    BY <1>1, <1>8 DEF CopyInv, LocalCopy
  <2>2. /\ ~AtEnd(remote, fd)
        /\ core_buff' = <<NextBlock(remote, fd)>>
        /\ fd' = Advance(fd, NextBlock(remote, fd))
        /\ dir' = dir
    BY <2>1 DEF ServeBlock, Downloading
  <2>3. PICK block \in Chunk : block = NextBlock(remote, fd)
    BY <2>1, <2>2, NextBlockIsChunk DEF Downloading, Inv, HandlesOK, TypeOK, File
  <2>4. /\ fd'.mode = fd.mode /\ fd'.file = fd.file
        /\ fd'.data = Append(file_fd.data, core_buff'[1])
        /\ fd'.data = Append(fd.data, copy.goal[Len(fd.data) + 1])
    <3>1. core_buff'[1] = block /\ block = copy.goal[Len(fd.data) + 1]
      BY <2>1, <2>2, <2>3 DEF Reads, NextBlock
    <3>2. /\ fd'.mode = fd.mode /\ fd'.file = fd.file
          /\ fd'.data = Append(fd.data, block)
      BY <2>2, <2>3, AdvanceType DEF Inv, TypeOK
    <3> QED
      BY <2>1, <3>1, <3>2
  <2>5. Downloading'
    BY <1>2, <2>1, <2>2, <2>4 DEF Downloading, Busy
  <2>6. Reads(remote, fd)'
    <3>1. fd.data \in Seq(Chunk) /\ copy.goal \in Seq(Chunk)
      BY DEF Inv, TypeOK, File, CopyRecord
    <3>2. Len(fd.data) < Len(copy.goal)
      BY <2>1, <2>2, <3>1 DEF AtEnd, Reads
    <3> QED
      BY <1>2, <2>1, <2>4, <3>1, <3>2, PrefixGrows DEF Reads
  <2>7. LocalCopy'
    BY <1>2, <1>5, <2>1, <2>4, <2>5, <2>6 DEF LocalCopy, Stores
  <2> QED
    BY <1>2, <1>4, <1>8, <2>7 DEF CopyInv, Copying
<1> QED
  BY <1>2, <1>4, <1>6, <1>7, <1>8 DEF CopyInv, Copying

LEMMA CopyServeEnd ==
    ASSUME Inv, Inv', CopyInv, ServeEnd
    PROVE  CopyInv' /\ CopyStep
<1>1. DownNext
  BY AtServer DEF Inv, ServeEnd, ServerTakes
<1>2. CASE StdioError
  BY <1>2, Forgets DEF StdioError
<1>3. CASE NoError /\ (status = "DOWNLOADING" /\ fd.mode = "rb" => AtEnd(remote, fd))
  <2>1. UNCHANGED <<copy, local, file_fd, now_command, file_name, now_status>>
    BY <1>3 DEF ServeEnd, ServerTakes, NoError, clientVars
  <2>2. UNCHANGED remote /\ fd' = Closed /\ fd'.mode = "closed"
    BY <1>1, ClosedType DEF ServeEnd, Flushed, DownNext, Fetching, Listing, Downloading
  <2>3. to_server' = <<>> /\ to_client' = <<Response("DONE")>>
    BY <1>1, OnePacket
       DEF ServeEnd, ServerTakes, Reply, DownNext, ToServer, Fetching, Listing, Downloading, NoDir
  <2>4. CopyStep
    BY <2>1, <2>2, Keeps DEF Sink
  <2>5. /\ ~Accepted' /\ ~UpGo' /\ ~UpNext' /\ ~UpBlock' /\ ~UpAgain'
        /\ ~DownNext' /\ ~DownAgain' /\ ~DownBlock'
    BY <2>3, MarkedNext, OnePacket DEF Marked, Response
  <2>6. copy.phase # "done"
    BY <1>1, Unfinished, OnePacket DEF DownNext, ToServer, Request, Commands, Transfers
  <2>7. CASE Copying("remote")
    <3>1. RemoteCopy'
      BY <2>1, <2>2, <2>3, <2>5, <2>7 DEF CopyInv, RemoteCopy, Stores
    <3> QED
      BY <2>1, <2>4, <2>7, <3>1 DEF CopyInv, Copying
  <2>8. CASE Copying("local")
    <3>1. LocalCopy /\ Downloading /\ Reads(remote, fd) /\ fd.data = file_fd.data
      BY <1>1, <2>8 DEF CopyInv, LocalCopy
    <3>2. fd.data = copy.goal
      <4>1. fd.data \in Seq(Chunk) /\ copy.goal \in Seq(Chunk)
        BY DEF Inv, TypeOK, File, CopyRecord
      <4>2. Len(fd.data) >= Len(copy.goal)
        BY <1>3, <3>1 DEF AtEnd, Reads, Downloading
      <4> QED
        BY <3>1, <4>1, <4>2, PrefixWhole DEF Reads
    <3>3. LocalCopy'
      BY <2>1, <2>2, <2>5, <3>1, <3>2 DEF LocalCopy, Stores, Downloading
    <3> QED
      BY <2>1, <2>4, <2>8, <3>3 DEF CopyInv, Copying
  <2> QED
    BY <2>1, <2>4, <2>6, <2>7, <2>8 DEF CopyInv, Copying
<1> QED
  BY <1>2, <1>3 DEF ServeEnd

LEMMA CopyServeRepeat ==
    ASSUME Inv, Inv', CopyInv, ServeRepeat
    PROVE  CopyInv' /\ CopyStep
<1>1. DownAgain
  BY AtServer DEF Inv, ServeRepeat, ServerTakes
<1>2. UNCHANGED <<copy, remote, local, file_fd, now_command, file_name, now_status,
                  status, fd, dir, core_buff>>
  BY DEF ServeRepeat, ServerTakes, NoError, clientVars, coreVars
<1>3. to_server' = <<>> /\ \E hash, block : to_client' = <<Send(hash, block)>>
  BY <1>1, OnePacket DEF ServeRepeat, ServerTakes, Reply, DownAgain, ToServer
<1>4. CopyStep
  BY <1>2, Keeps DEF Sink
<1>5. /\ ~Accepted' /\ ~UpGo' /\ ~UpNext' /\ ~UpBlock' /\ ~UpAgain'
      /\ ~DownNext' /\ ~DownAgain' /\ ~DownEnd'
  <2>1. to_client' # <<>> /\ Head(to_client').type = "SEND"
    BY <1>3, OnePacket DEF Send
  <2> QED
    BY <1>3, <2>1, MarkedNext, OnePacket DEF Marked, Response, Request
<1>6. copy.phase # "done"
  BY <1>1, Unfinished, OnePacket DEF DownAgain, ToServer, Request, Commands, Transfers
<1>7. CASE Copying("remote")
  <2>1. RemoteCopy'
    BY <1>2, <1>3, <1>5, <1>7 DEF CopyInv, RemoteCopy, Stores
  <2> QED
    BY <1>2, <1>4, <1>7, <2>1 DEF CopyInv, Copying
<1>8. CASE Copying("local")
  <2>1. LocalCopy /\ Downloading /\ Reads(remote, fd) /\ fd.data = Append(file_fd.data, core_buff[1])
    BY <1>1, <1>8 DEF CopyInv, LocalCopy
  <2>2. LocalCopy'
    BY <1>2, <1>5, <2>1 DEF LocalCopy, Stores, Reads, Downloading, Busy
  <2> QED
    BY <1>2, <1>4, <1>8, <2>2 DEF CopyInv, Copying
<1> QED
  BY <1>2, <1>4, <1>6, <1>7, <1>8 DEF CopyInv, Copying

LEMMA CopyServeUpload ==
    ASSUME Inv, Inv', CopyInv, ServeUpload
    PROVE  CopyInv' /\ CopyStep
<1> DEFINE arg == Head(to_server).arg
<1>1. CASE copy' = NoCopy
  BY <1>1, Forgets
<1>2. CASE /\ fd' = Open("wb", arg)
           /\ remote' = [Flushed(remote, fd) EXCEPT ![arg] = <<>>]
           /\ Reply(Response("SUCCEED"))
           /\ copy' = BeginCopy("remote", arg, local[file_name])
  <2>1. /\ arg \in RemoteFile /\ file_name \in LocalFile
        /\ to_server' = <<>> /\ to_client' = <<Response("SUCCEED")>>
        /\ UNCHANGED <<local, file_name>>
    <3>1. /\ to_server # <<>> /\ to_server' = Tail(to_server)
          /\ Head(to_server).type = "REQUEST" /\ Head(to_server).option = "UPLOAD"
          /\ UNCHANGED <<local, file_name>>
      BY DEF ServeUpload, ServerTakes, clientVars
    <3>2. PICK asked \in RemoteFile \cup {NULL} :
             AskedFor(asked) /\ to_server = <<Request(now_command, asked)>>
      BY <3>1, AtServer DEF Inv, Commands, Transfers
    <3>3. now_command = "UPLOAD" /\ arg = asked
      BY <3>1, <3>2, OnePacket DEF Request
    <3> QED
      BY <1>2, <3>1, <3>2, <3>3, OnePacket DEF AskedFor, Busy, Reply
  <2>2. local[file_name] \in {NULL} \cup Seq(Chunk)
    BY <2>1 DEF Inv, TypeOK
  <2>3. /\ copy'.phase = "copying" /\ copy'.side = "remote" /\ copy'.file = arg
        /\ copy'.goal \in Seq(Chunk)
        /\ local[file_name] \in {NULL, copy'.goal}
    BY <1>2, <2>1, <2>2, EmptySeq DEF BeginCopy
  <2>4. remote'[arg] = <<>>
    <3>1. Flushed(remote, fd) \in Disk(RemoteFile)
      BY FlushedType, Sides DEF Inv, CoreOK
    <3> QED
      BY <1>2, <2>1, <3>1 DEF Disk
  <2>5. fd'.mode = "wb" /\ fd'.file = arg /\ fd'.data = <<>>
    BY <1>2, <2>1, OpenType
  <2>6. RemoteCopy'
    <3>1. /\ ~UpGo' /\ ~UpNext' /\ ~UpBlock' /\ ~UpAgain'
      BY <2>1, MarkedNext, OnePacket DEF Marked, Response
    <3>2. Stores(remote, fd)'
      BY <2>3, <2>4, <2>5, PrefixEmpty, EmptySeq DEF Stores
    <3> QED
      BY <2>1, <2>3, <2>4, <2>5, <3>1, <3>2, EmptySeq DEF RemoteCopy
  <2>7. CopyInv'
    BY <2>3, <2>6 DEF CopyInv, Copying
  <2>8. Sink' = <<>>
    BY <2>3, <2>4 DEF Sink
  <2> QED
    BY <2>3, <2>7, <2>8 DEF CopyStep, Promise!Next, Promise!Begin
<1> QED
  BY <1>1, <1>2 DEF ServeUpload

LEMMA CopyServeGo ==
    ASSUME Inv, Inv', CopyInv, ServeGo
    PROVE  CopyInv' /\ CopyStep
<1>1. UpGo
  BY AtServer DEF Inv, ServeGo, ServerTakes
<1>2. UNCHANGED <<copy, remote, local, file_fd, now_command, file_name, now_status,
                  status, fd, dir, core_buff>>
  BY <1>1 DEF ServeGo, ServerTakes, NoError, clientVars, UpGo, Uploading
<1>3. to_server' = <<>> /\ to_client' = <<Response("CONTINUE")>>
  BY <1>1, OnePacket DEF ServeGo, ServerTakes, Reply, UpGo, Uploading, ToServer
<1>4. CopyStep
  BY <1>2, Keeps DEF Sink
<1>5. /\ ~Accepted' /\ ~UpGo' /\ ~UpBlock' /\ ~UpAgain'
      /\ ~DownNext' /\ ~DownBlock' /\ ~DownAgain' /\ ~DownEnd'
  BY <1>3, MarkedNext, OnePacket DEF Marked, Response
<1>6. copy.phase # "done"
  BY <1>1, Unfinished, OnePacket DEF UpGo, ToServer, Request, Commands, Transfers
<1>7. CASE Copying("remote")
  <2>1. RemoteCopy'
    BY <1>1, <1>2, <1>3, <1>5, <1>7 DEF CopyInv, RemoteCopy, Stores, Reads
  <2> QED
    BY <1>2, <1>4, <1>7, <2>1 DEF CopyInv, Copying
<1>8. CASE Copying("local")
  <2>1. LocalCopy'
    BY <1>2, <1>5, <1>8 DEF CopyInv, LocalCopy, Stores
  <2> QED
    BY <1>2, <1>4, <1>8, <2>1 DEF CopyInv, Copying
<1> QED
  BY <1>2, <1>4, <1>6, <1>7, <1>8 DEF CopyInv, Copying

LEMMA CopyServeStop ==
    ASSUME Inv, Inv', CopyInv, ServeStop
    PROVE  CopyInv' /\ CopyStep
<1> DEFINE p == Head(to_server)
<1>1. /\ to_server # <<>> /\ p.type = "REQUEST" /\ p.option \in {"DONE", "FAILED"}
      /\ to_server' = Tail(to_server)
  BY DEF ServeStop, ServerTakes
<1>2. /\ UNCHANGED <<local, file_fd, now_command, file_name, now_status, to_client>>
      /\ fd' = Closed /\ dir' = NoDir /\ status' = "READY" /\ remote' = Flushed(remote, fd)
  BY DEF ServeStop, ServerTakes, Unset, clientVars
<1>3. /\ file_fd = Closed /\ to_client = <<>> /\ p \in Farewell
      /\ to_server' # <<>> => Busy /\ \E arg \in RemoteFile \cup {NULL} :
                                   to_server' = <<Request(now_command, arg)>>
  <2>1. CASE AtPrompt /\ to_server = <<p>>
    BY <1>1, <2>1, OnePacket DEF AtPrompt
  <2>2. CASE \E arg \in RemoteFile \cup {NULL} :
               AskedFor(arg) /\ to_server = <<p, Request(now_command, arg)>>
    <3>1. PICK arg \in RemoteFile \cup {NULL} :
             AskedFor(arg) /\ to_server = <<p, Request(now_command, arg)>>
      BY <2>2
    <3>2. \E c \in Farewell : to_server = <<c, Request(now_command, arg)>>
      BY <3>1, OnePacket, TwoPackets DEF AskedFor
    <3> QED
      BY <1>1, <3>1, <3>2, TwoPackets DEF AskedFor
  <2> QED
    BY <1>1, <2>1, <2>2, AtServer DEF Inv
<1>4. copy.phase # "done"
  BY <1>1, Unfinished DEF Commands, Transfers
<1>5. /\ ~Accepted' /\ ~UpNext' /\ ~UpAgain' /\ ~DownBlock' /\ ~DownEnd'
      /\ ~UpGo' /\ ~UpBlock' /\ ~DownNext' /\ ~DownAgain'
      /\ to_server' # <<>> => Head(to_server') # Request("DONE", NULL)
  <2>1. to_server' # <<>> => /\ Head(to_server').type = "REQUEST"
                             /\ Head(to_server').option \in Commands
    BY <1>3, OnePacket DEF Busy, Request
  <2>2. to_client' = <<>>
    BY <1>2, <1>3
  <2> QED
    BY <2>1, <2>2, MarkedNext, OnePacket DEF Marked, Request, Commands, Transfers
<1>6. CASE Copying("remote")
  <2>1. /\ RemoteCopy /\ copy.goal \in Seq(Chunk) /\ copy \in CopyRecord
        /\ remote \in Disk(RemoteFile) /\ fd \in File
        /\ fd.mode # "closed" => fd.file \in RemoteFile
    BY <1>6, Sides DEF CopyInv, Inv, CoreOK, WireOK, CopyRecord
  <2>2. /\ PrefixOf(remote[copy.file], remote'[copy.file])
        /\ PrefixOf(remote'[copy.file], copy.goal)
        /\ remote'[copy.file] \in Seq(Chunk)
    <3>1. CASE fd.mode = "wb"
      BY <1>2, <2>1, <3>1, FlushedType DEF RemoteCopy, Stores, File
    <3>2. CASE fd.mode # "wb"
      BY <1>2, <2>1, <3>2, PrefixRefl DEF Flushed, RemoteCopy, Stores
    <3> QED
      BY <3>1, <3>2
  <2>3. CASE p.option = "FAILED"
    <3>1. UNCHANGED copy
      BY <2>3 DEF ServeStop, ServerTakes
    <3>2. CopyStep
      BY <1>6, <2>2, <3>1, Keeps DEF Copying, Sink
    <3>3. RemoteCopy'
      BY <1>2, <1>5, <2>1, <2>2, <3>1, ClosedType DEF RemoteCopy, Stores
    <3> QED
      BY <1>6, <3>1, <3>2, <3>3 DEF CopyInv, Copying
  <2>4. CASE p.option = "DONE"
    <3>1. copy' = [copy EXCEPT !.phase = "done"]
      BY <1>6, <2>4 DEF ServeStop, ServerTakes, FinishCopy, Copying
    <3>2. copy'.phase = "done" /\ copy'.side = "remote" /\ UNCHANGED <<copy.file, copy.goal>>
      BY <1>6, <2>1, <3>1 DEF Copying, CopyRecord
    <3>3. fd.mode = "wb" /\ fd.data = copy.goal
      BY <1>1, <1>3, <2>1, <2>4 DEF RemoteCopy, Farewell, Request
    <3>4. remote'[copy.file] = copy.goal
      BY <1>2, <2>1, <3>3, FlushedType DEF RemoteCopy, Stores
    <3>5. Idle' /\ Busy' = Busy
      BY <1>2 DEF Idle, Busy
    <3>6. FinishedCopy'
      BY <1>2, <1>3, <2>1, <3>2, <3>4, <3>5 DEF FinishedCopy, RemoteCopy
    <3>7. CopyStep
      BY <1>6, <3>2, <3>4 DEF CopyStep, Promise!Next, Promise!Finish, Sink, Copying
    <3> QED
      BY <3>2, <3>6, <3>7 DEF CopyInv, Copying
  <2> QED
    BY <1>1, <2>3, <2>4
<1>7. CASE ~Copying("remote")
  <2>1. UNCHANGED copy
    BY <1>7 DEF ServeStop, FinishCopy, Copying
  <2>2. CopyStep
    BY <1>2, <1>4, <1>7, <2>1, Keeps DEF Sink, Copying, CopyInv
  <2>3. Copying("local") => LocalCopy'
    BY <1>2, <1>5, <2>1 DEF CopyInv, LocalCopy, Stores
  <2> QED
    BY <1>4, <1>7, <2>1, <2>2, <2>3 DEF CopyInv, Copying
<1> QED
  BY <1>6, <1>7

LEMMA CopyServeData ==
    ASSUME Inv, Inv', CopyInv, ServeData
    PROVE  CopyInv' /\ CopyStep
<1>1. UpBlock
  BY AtServer DEF Inv, ServeData, ServerTakes
<1>2. PICK block \in Chunk : /\ \E hash : to_server = <<Send(hash, block)>>
                             /\ buff = <<block>> /\ buff[1] = block
                             /\ Head(to_server).arg = block
  <2>1. PICK hash \in {"INTACT", "CORRUPT"}, block \in Chunk : to_server = <<Send(hash, block)>> /\ buff = <<block>>
    BY <1>1 DEF UpBlock, ToServer
  <2>2. Head(to_server).arg = block /\ buff[1] = block
    BY <2>1, OnePacket DEF Send
  <2> QED
    BY <2>1, <2>2
<1>3. /\ UNCHANGED <<local, file_fd, now_command, file_name, now_status, buff, status, dir>>
      /\ to_server' = <<>>
  BY <1>1, <1>2, OnePacket DEF ServeData, ServerTakes, clientVars, coreVars
<1>4. copy.phase # "done"
  BY <1>2, Unfinished, OnePacket DEF Send
<1>5. CASE copy' = Spoiled
  BY <1>5, Forgets
<1>6. CASE UNCHANGED <<copy, fd, remote>> /\ Reply(Response("REPEAT"))
  <2>1. to_client' = <<Response("REPEAT")>>
    BY <1>1, <1>6, OnePacket DEF Reply, UpBlock, ToServer
  <2>2. CopyStep
    BY <1>3, <1>6, Keeps DEF Sink
  <2>3. /\ ~Accepted' /\ ~UpGo' /\ ~UpNext' /\ ~UpBlock'
        /\ ~DownNext' /\ ~DownBlock' /\ ~DownAgain' /\ ~DownEnd'
    BY <1>3, <2>1, MarkedNext, OnePacket DEF Marked, Response
  <2>4. Copying("remote") => RemoteCopy'
    BY <1>1, <1>3, <1>6, <2>3 DEF CopyInv, RemoteCopy, Stores, Reads
  <2>5. Copying("local") => LocalCopy'
    BY <1>3, <1>6, <2>3 DEF CopyInv, LocalCopy, Stores
  <2> QED
    BY <1>4, <1>6, <2>2, <2>4, <2>5 DEF CopyInv, Copying
<1>7. CASE /\ UNCHANGED copy
           /\ Reply(Response("CONTINUE"))
           /\ fd' = Advance(fd, block)
           /\ remote' \in Written(remote, fd')
  <2>1. to_client' = <<Response("CONTINUE")>>
    BY <1>1, <1>7, OnePacket DEF Reply, UpBlock, ToServer
  <2>2. /\ ~Accepted' /\ ~UpGo' /\ ~UpAgain' /\ ~UpBlock'
        /\ ~DownNext' /\ ~DownBlock' /\ ~DownAgain' /\ ~DownEnd'
    BY <1>3, <2>1, MarkedNext, OnePacket DEF Marked, Response
  <2>3. CASE Copying("remote")
    <3>1. /\ RemoteCopy /\ copy.goal \in Seq(Chunk) /\ fd.data \in Seq(Chunk)
          /\ remote \in Disk(RemoteFile) /\ fd \in File
          /\ fd.mode = "wb" /\ fd.file = copy.file
      BY <1>1, <2>3, Sides
         DEF CopyInv, Inv, CoreOK, WireOK, CopyRecord, File, UpBlock, Uploading, RemoteCopy, Stores
    <3>2. /\ fd' \in File /\ fd'.mode = "wb" /\ fd'.file = copy.file
          /\ fd'.data = Append(fd.data, block) /\ fd'.data \in Seq(Chunk)
      <4>1. Append(fd.data, block) \in Seq(Chunk)
        BY <3>1
      <4> QED
        BY <1>7, <3>1, <4>1, AdvanceType
    <3>3. Reads(local, file_fd) /\ file_fd.data = Append(fd.data, block)
      BY <1>1, <1>2, <3>1 DEF RemoteCopy
    <3>4. PrefixOf(fd'.data, copy.goal)
      BY <3>2, <3>3 DEF Reads
    <3>5. PrefixOf(remote[copy.file], fd'.data) /\ remote[copy.file] \in Seq(Chunk)
      <4>1. remote[copy.file] \in Seq(Chunk) /\ PrefixOf(remote[copy.file], fd.data)
        BY <3>1 DEF RemoteCopy, Stores
      <4>2. PrefixOf(fd.data, Append(fd.data, block))
        BY <3>1, PrefixAppend
      <4> QED
        BY <3>1, <3>2, <4>1, <4>2, PrefixTrans
    <3>6. PICK n \in Len(remote[copy.file]) .. Len(fd'.data) :
             remote'[copy.file] = SubSeq(fd'.data, 1, n)
      <4>1. copy.file \in RemoteFile
        BY <3>1 DEF RemoteCopy
      <4> DEFINE file == fd'
      <4>2. /\ file \in File /\ file.file = copy.file /\ file.file \in RemoteFile
            /\ remote[file.file] \in Seq(Chunk) /\ remote' \in Written(remote, file)
        BY <1>7, <3>2, <3>5, <4>1
      <4> HIDE DEF file
      <4>3. remote \in Disk(RemoteFile)
        BY DEF Inv, TypeOK, Disk
      <4>4. \E n \in Len(remote[file.file]) .. Len(file.data) :
               remote'[file.file] = SubSeq(file.data, 1, n)
        BY <4>2, <4>3, WrittenPart, Zenon
      <4> QED
        BY <4>2, <4>4 DEF file
    <3>7. /\ remote'[copy.file] \in Seq(Chunk)
          /\ PrefixOf(remote[copy.file], remote'[copy.file])
          /\ PrefixOf(remote'[copy.file], fd'.data)
      BY <3>2, <3>5, <3>6, PrefixBetween
    <3>8. PrefixOf(remote'[copy.file], copy.goal)
      BY <3>1, <3>2, <3>4, <3>7, PrefixTrans
    <3>9. RemoteCopy'
      <4>1. Stores(remote, fd)' /\ Reads(local, file_fd)'
        BY <1>3, <1>7, <3>2, <3>3, <3>4, <3>7, <3>8 DEF Stores, Reads
      <4> QED
        BY <1>3, <1>7, <2>2, <3>1, <3>2, <3>3, <3>7, <4>1 DEF RemoteCopy
    <3>10. CopyStep
      BY <1>7, <2>3, <3>7, <3>8, Keeps DEF Sink, Copying
    <3> QED
      BY <1>7, <2>3, <3>9, <3>10 DEF CopyInv, Copying
  <2>4. CASE ~Copying("remote")
    <3>1. CopyStep
      BY <1>3, <1>4, <1>7, <2>4, Keeps DEF Sink, Copying, CopyInv
    <3>2. Copying("local") => LocalCopy'
      BY <1>3, <1>7, <2>2 DEF CopyInv, LocalCopy, Stores
    <3> QED
      BY <1>4, <1>7, <2>4, <3>1, <3>2 DEF CopyInv, Copying
  <2> QED
    BY <2>3, <2>4
<1> QED
  BY <1>1, <1>2, <1>5, <1>6, <1>7
     DEF ServeData, UpBlock, Uploading, NoError, StdioError, coreVars

LEMMA CopyServer ==
    ASSUME Inv, Inv', CopyInv, ServerStep
    PROVE  CopyInv' /\ CopyStep
<1>1. CASE ServeLs \/ ServeDownload \/ ServeRm \/ ServeRmdir \/ ServeDirectory
  BY <1>1, Forgets DEF ServeLs, ServeDownload, ServeRm, ServeRmdir, ServeDirectory
<1> QED
  BY <1>1, CopyServeBlock, CopyServeEnd, CopyServeRepeat, CopyServeUpload, CopyServeGo,
     CopyServeStop, CopyServeData
     DEF ServerStep

-----------------------------------------------------------------------------
(* The client's steps. *)

LEMMA CopyDealAnswer ==
    ASSUME Inv, Inv', CopyInv, DealAnswered \/ DealListing
    PROVE  CopyInv' /\ CopyStep
<1>1. Accepted /\ now_command \notin {"UPLOAD", "DOWNLOAD"}
  BY AtClient DEF Inv, DealAnswered, DealListing, ClientTakes, Transfers
<1>2. UNCHANGED <<copy, remote, fd, status, dir, now_command, file_name>>
  BY DEF DealAnswered, DealListing, ClientTakes, coreVars
<1>3. UNCHANGED local /\ file_fd' = Closed
  BY <1>1, ClosedType DEF DealAnswered, DealListing, Ready, Flushed, Accepted
<1>4. /\ to_client' = <<>>
      /\ to_server' \in {<<>>, <<Request("CONTINUE", NULL)>>}
  BY <1>1, OnePacket
     DEF DealAnswered, DealListing, ClientTakes, Answer, Accepted, ToClient
<1>5. CopyStep
  BY <1>2, <1>3, Keeps DEF Sink
<1>6. copy.phase # "done" /\ ~Copying("local")
  BY <1>1, Unfinished, OnePacket DEF Accepted, ToClient, CopyInv, LocalCopy
<1>7. /\ ~Accepted' /\ ~UpGo' /\ ~UpNext' /\ ~UpBlock' /\ ~UpAgain'
      /\ to_server' # <<>> => Head(to_server') # Request("DONE", NULL)
  BY <1>4, MarkedNext, OnePacket DEF Marked, Response, Request
<1>8. Copying("remote") => RemoteCopy'
  BY <1>2, <1>3, <1>7 DEF CopyInv, RemoteCopy, Stores
<1> QED
  BY <1>2, <1>5, <1>6, <1>8 DEF CopyInv, Copying

LEMMA CopyDealOpen ==
    ASSUME Inv, Inv', CopyInv, DealOpen
    PROVE  CopyInv' /\ CopyStep
<1>1. Accepted /\ file_fd = Closed /\ file_name \in LocalFile
  BY AtClient DEF Inv, DealOpen, ClientTakes, Accepted, Busy
<1>2. UNCHANGED <<remote, fd, status, dir, now_command, file_name>> /\ to_client' = <<>>
  BY <1>1, OnePacket DEF DealOpen, ClientTakes, coreVars, Accepted, ToClient
<1>3. copy.phase # "done" /\ ~Copying("local")
  BY <1>1, Unfinished, OnePacket DEF Accepted, ToClient, CopyInv, LocalCopy
<1>4. Flushed(local, file_fd) = local
  BY <1>1, ClosedType DEF Flushed
<1>5. ~Accepted' /\ ~UpNext' /\ ~UpAgain' /\ ~DownBlock' /\ ~DownEnd'
  BY <1>2, MarkedNext, OnePacket DEF Marked
<1>6. CASE /\ now_command = "UPLOAD"
           /\ local[file_name] # NULL
           /\ file_fd' = Open("rb", file_name)
           /\ Answer(Request("SUCCEED", NULL))
           /\ UNCHANGED <<copy, local>>
  <2>1. to_server' = <<Request("SUCCEED", NULL)>>
    BY <1>1, <1>6, OnePacket DEF Answer, Accepted, ToClient
  <2>2. CopyStep
    BY <1>2, <1>6, Keeps DEF Sink
  <2>3. ~UpBlock' /\ Head(to_server') # Request("DONE", NULL)
    BY <2>1, MarkedNext, OnePacket DEF Marked, Request
  <2>4. Copying("remote") => RemoteCopy'
    <3> SUFFICES ASSUME Copying("remote") PROVE RemoteCopy'
      OBVIOUS
    <3>1. RemoteCopy /\ fd.data = <<>> /\ local[file_name] = copy.goal
      BY <1>1, <1>6 DEF CopyInv, RemoteCopy, Accepted, Transfers
    <3>2. /\ file_fd'.file = file_name /\ file_fd'.data = <<>>
          /\ copy.goal \in Seq(Chunk)
      BY <1>1, <1>6, OpenType DEF Inv, TypeOK, CopyRecord
    <3>3. Reads(local, file_fd)'
      BY <1>6, <3>1, <3>2, PrefixEmpty DEF Reads
    <3> QED
      BY <1>2, <1>5, <1>6, <2>3, <3>1, <3>2, <3>3 DEF RemoteCopy, Stores
  <2> QED
    BY <1>3, <1>6, <2>2, <2>4 DEF CopyInv, Copying
<1>7. CASE /\ now_command = "DOWNLOAD"
           /\ file_fd' = Open("wb", file_name)
           /\ local' = [local EXCEPT ![file_name] = <<>>]
           /\ Answer(Request("CONTINUE", NULL))
           /\ copy' = BeginCopy("local", file_name, remote[fd.file])
  <2>1. to_server' = <<Request("CONTINUE", NULL)>>
    BY <1>1, <1>7, OnePacket DEF Answer, Accepted, ToClient
  <2>2. /\ fd.mode = "rb" /\ fd.data = <<>> /\ remote[fd.file] \in Seq(Chunk)
    BY <1>1, <1>7 DEF Accepted, Inv, HandlesOK, Transfers
  <2>3. DownNext' /\ Downloading'
    <3>1. UNCHANGED now_status
      BY <1>7 DEF DealOpen, Answer, Ready, Request
    <3>2. file_fd'.mode = "wb"
      BY <1>1, <1>7, OpenType
    <3> QED
      BY <1>1, <1>2, <1>7, <2>1, <3>1, <3>2
         DEF DownNext, Fetching, Downloading, Accepted, Busy, ToServer, Transfers
  <2>4. /\ file_fd'.mode = "wb" /\ file_fd'.file = file_name /\ file_fd'.data = <<>>
        /\ copy'.phase = "copying" /\ copy'.side = "local" /\ copy'.file = file_name
        /\ copy'.goal = remote[fd.file] /\ copy'.goal \in Seq(Chunk)
        /\ local'[file_name] = <<>>
    <3>1. local \in [LocalFile -> {NULL} \cup Seq(Chunk)] /\ remote[fd.file] # NULL
      BY <2>2, SessionAssumption DEF Inv, TypeOK
    <3> QED
      BY <1>1, <1>7, <2>2, <3>1, OpenType DEF BeginCopy
  <2>5. LocalCopy'
    <3>1. Stores(local, file_fd)'
      BY <2>4, PrefixEmpty, EmptySeq DEF Stores
    <3>2. Reads(remote, fd)'
      BY <1>2, <2>2, <2>4, PrefixEmpty DEF Reads
    <3>3. ~DownAgain'
      BY <2>1, MarkedNext, OnePacket DEF Marked, Request
    <3> QED
      BY <1>1, <1>2, <1>5, <2>2, <2>3, <2>4, <3>1, <3>2, <3>3, EmptySeq DEF LocalCopy
  <2>6. CopyInv'
    BY <2>4, <2>5 DEF CopyInv, Copying
  <2>7. Sink' = <<>>
    BY <2>4 DEF Sink
  <2> QED
    BY <2>4, <2>6, <2>7 DEF CopyStep, Promise!Next, Promise!Begin
<1>8. CASE Ready /\ Answer(Request("FAILED", NULL)) /\ UNCHANGED copy
  <2>1. to_server' = <<Request("FAILED", NULL)>>
    BY <1>1, <1>8, OnePacket DEF Answer, Accepted, ToClient
  <2>2. UNCHANGED local
    BY <1>4, <1>8 DEF Ready
  <2>3. CopyStep
    BY <1>2, <1>8, <2>2, Keeps DEF Sink
  <2>4. ~UpGo' /\ ~UpBlock' /\ Head(to_server') # Request("DONE", NULL)
    BY <2>1, MarkedNext, OnePacket DEF Marked, Request
  <2>5. Copying("remote") => RemoteCopy'
    BY <1>2, <1>5, <1>8, <2>4 DEF CopyInv, RemoteCopy, Stores
  <2> QED
    BY <1>3, <1>8, <2>3, <2>5 DEF CopyInv, Copying
<1> QED
  BY <1>4, <1>6, <1>7, <1>8 DEF DealOpen
LEMMA CopyDealContinue ==
    ASSUME Inv, Inv', CopyInv, DealContinue
    PROVE  CopyInv' /\ CopyStep
<1>1. UpNext /\ now_command = "UPLOAD" /\ file_fd.mode = "rb"
  BY AtClient DEF Inv, DealContinue, ClientTakes, UpNext, Uploading
<1>2. UNCHANGED <<remote, fd, status, dir, now_command, file_name>> /\ to_client' = <<>>
  BY <1>1, OnePacket DEF DealContinue, ClientTakes, coreVars, UpNext, ToClient
<1>3. copy.phase # "done"
  BY <1>1, Unfinished, OnePacket DEF UpNext, ToClient
<1>4. ~Accepted' /\ ~UpNext' /\ ~UpAgain' /\ ~DownBlock' /\ ~DownEnd'
  BY <1>2, MarkedNext, OnePacket DEF Marked
<1>5. CASE StdioError
  BY <1>5, Forgets DEF StdioError
<1>6. CASE /\ ~AtEnd(local, file_fd)
           /\ buff' = <<NextBlock(local, file_fd)>>
           /\ file_fd' = Advance(file_fd, NextBlock(local, file_fd))
           /\ Answer(Send("INTACT", NextBlock(local, file_fd)))
           /\ UNCHANGED <<copy, local>>
  <2>1. PICK block \in Chunk : block = NextBlock(local, file_fd)
    BY <1>1, <1>6, NextBlockIsChunk DEF Inv, HandlesOK, TypeOK, File
  <2>2. to_server' = <<Send("INTACT", block)>>
    BY <1>1, <1>6, <2>1, OnePacket DEF Answer, UpNext, ToClient
  <2>3. CopyStep
    BY <1>2, <1>6, Keeps DEF Sink
  <2>4. ~UpGo' /\ ~DownNext' /\ ~DownAgain' /\ Head(to_server') # Request("DONE", NULL)
    <3>1. to_server' # <<>> /\ Head(to_server').type = "SEND"
      BY <2>2, OnePacket DEF Send
    <3> QED
      BY <3>1, MarkedNext, OnePacket DEF Marked, Request
  <2>5. /\ file_fd'.mode = "rb" /\ file_fd'.file = file_fd.file
        /\ file_fd'.data = Append(file_fd.data, block)
        /\ buff'[1] = block
    <3>1. buff'[1] = block
      BY <1>6, <2>1
    <3>2. /\ file_fd'.mode = "rb" /\ file_fd'.file = file_fd.file
          /\ file_fd'.data = Append(file_fd.data, block)
      BY <1>1, <1>6, <2>1, AdvanceType DEF Inv, TypeOK
    <3> QED
      BY <3>1, <3>2
  <2>6. ASSUME Copying("remote") PROVE RemoteCopy'
    <3>1. RemoteCopy /\ Reads(local, file_fd) /\ file_fd.data = fd.data
      BY <1>1, <2>6 DEF CopyInv, RemoteCopy
    <3>2. Reads(local, file_fd)'
      <4>1. file_fd.data \in Seq(Chunk) /\ copy.goal \in Seq(Chunk)
        BY DEF Inv, TypeOK, File, CopyRecord
      <4>2. Len(file_fd.data) < Len(copy.goal) /\ block = copy.goal[Len(file_fd.data) + 1]
        BY <1>6, <2>1, <3>1, <4>1 DEF AtEnd, NextBlock, Reads
      <4> QED
        BY <1>6, <2>5, <3>1, <4>1, <4>2, PrefixGrows DEF Reads
    <3>3. file_fd'.data = Append(fd'.data, buff'[1])
      BY <1>2, <2>5, <3>1
    <3> QED
      BY <1>2, <1>4, <1>6, <2>4, <3>1, <3>2, <3>3 DEF RemoteCopy, Stores
  <2>7. Copying("local") => LocalCopy'
    BY <1>2, <1>4, <1>6, <2>4, <2>5 DEF CopyInv, LocalCopy, Stores
  <2> QED
    BY <1>3, <1>6, <2>3, <2>6, <2>7 DEF CopyInv, Copying
<1>7. CASE /\ AtEnd(local, file_fd)
           /\ Answer(Request("DONE", NULL))
           /\ Ready
           /\ UNCHANGED copy
  <2>1. to_server' = <<Request("DONE", NULL)>>
    BY <1>1, <1>7, OnePacket DEF Answer, UpNext, ToClient
  <2>2. UNCHANGED local /\ file_fd' = Closed
    BY <1>1, <1>7 DEF Ready, Flushed
  <2>3. CopyStep
    BY <1>2, <1>7, <2>2, Keeps DEF Sink
  <2>4. ~UpGo' /\ ~UpBlock' /\ ~DownNext' /\ ~DownAgain'
    BY <2>1, MarkedNext, OnePacket DEF Marked, Request
  <2>5. ASSUME Copying("remote") PROVE RemoteCopy'
    <3>1. RemoteCopy /\ Reads(local, file_fd) /\ file_fd.data = fd.data /\ fd.mode = "wb"
      BY <1>1, <2>5 DEF CopyInv, RemoteCopy, UpNext, Uploading
    <3>2. fd.data = copy.goal
      <4>1. file_fd.data \in Seq(Chunk) /\ copy.goal \in Seq(Chunk)
        BY DEF Inv, TypeOK, File, CopyRecord
      <4>2. Len(file_fd.data) >= Len(copy.goal)
        BY <1>7, <3>1 DEF AtEnd, Reads
      <4> QED
        BY <3>1, <4>1, <4>2, PrefixWhole DEF Reads
    <3> QED
      BY <1>2, <1>4, <1>7, <2>4, <3>1, <3>2 DEF RemoteCopy, Stores
  <2>6. Copying("local") => LocalCopy'
    BY <1>2, <1>4, <1>7, <2>2, <2>4, ClosedType DEF CopyInv, LocalCopy, Stores
  <2> QED
    BY <1>3, <1>7, <2>3, <2>5, <2>6 DEF CopyInv, Copying
<1> QED
  BY <1>1, <1>5, <1>6, <1>7 DEF DealContinue, NoError

LEMMA CopyDealRepeat ==
    ASSUME Inv, Inv', CopyInv, DealRepeat
    PROVE  CopyInv' /\ CopyStep
<1>1. UpAgain
  BY AtClient DEF Inv, DealRepeat, ClientTakes
<1>2. UNCHANGED <<copy, remote, local, fd, file_fd, buff, status, dir, now_command, file_name>>
  BY DEF DealRepeat, ClientTakes, NoError, coreVars
<1>3. to_client' = <<>> /\ \E block \in Chunk : to_server' = <<Send("INTACT", block)>>
  <2>1. PICK block \in Chunk : buff = <<block>> /\ to_server = <<>> /\ to_client = <<Response("REPEAT")>>
    BY <1>1 DEF UpAgain, ToClient
  <2>2. buff # <<>> /\ buff[1] = block
    BY <2>1, OnePacket
  <2> QED
    BY <2>1, <2>2, OnePacket DEF DealRepeat, ClientTakes, Answer
<1>4. CopyStep
  BY <1>2, Keeps DEF Sink
<1>5. /\ ~Accepted' /\ ~UpGo' /\ ~UpNext' /\ ~UpAgain'
      /\ ~DownNext' /\ ~DownBlock' /\ ~DownAgain' /\ ~DownEnd'
      /\ Head(to_server') # Request("DONE", NULL)
  <2>1. to_server' # <<>> /\ Head(to_server').type = "SEND"
    BY <1>3, OnePacket DEF Send
  <2> QED
    BY <1>3, <2>1, MarkedNext, OnePacket DEF Marked, Request
<1>6. copy.phase # "done"
  BY <1>1, Unfinished, OnePacket DEF UpAgain, ToClient
<1>7. Copying("remote") => RemoteCopy'
  BY <1>1, <1>2, <1>5 DEF CopyInv, RemoteCopy, Stores, Reads
<1>8. Copying("local") => LocalCopy'
  BY <1>2, <1>5 DEF CopyInv, LocalCopy, Stores
<1> QED
  BY <1>2, <1>4, <1>6, <1>7, <1>8 DEF CopyInv, Copying

LEMMA CopyDealEnd ==
    ASSUME Inv, Inv', CopyInv, DealEnd
    PROVE  CopyInv' /\ CopyStep
<1>1. /\ to_client # <<>> /\ Head(to_client).type = "RESPONSE"
      /\ Head(to_client).option \in {"DONE", "FAILED"}
  BY DEF DealEnd, ClientTakes
<1>2. /\ Refused \/ DownEnd
      /\ Idle /\ to_server = <<>>
      /\ Head(to_client).option = "DONE" => DownEnd
      /\ Head(to_client).option = "FAILED" => Refused
  BY <1>1, AtClient DEF Inv, Refused, DownEnd, ToClient
<1>3. /\ UNCHANGED <<remote, fd, status, dir, now_command, file_name, to_server>>
      /\ file_fd' = Closed /\ local' = Flushed(local, file_fd)
      /\ to_client' = <<>>
  BY <1>2, OnePacket DEF DealEnd, ClientTakes, Ready, coreVars, Refused, DownEnd, ToClient
<1>4. copy.phase # "done"
  BY <1>1, Unfinished
<1>5. /\ ~Accepted' /\ ~UpNext' /\ ~UpAgain' /\ ~DownBlock' /\ ~DownEnd'
      /\ ~UpGo' /\ ~UpBlock' /\ ~DownNext' /\ ~DownAgain'
  BY <1>2, <1>3, MarkedNext, OnePacket DEF Marked
<1>6. CASE Copying("local")
  <2>1. /\ LocalCopy /\ copy.goal \in Seq(Chunk) /\ copy \in CopyRecord
        /\ local \in Disk(LocalFile) /\ file_fd \in File
        /\ file_fd.mode # "closed" => file_fd.file \in LocalFile
    BY <1>6, Sides DEF CopyInv, Inv, ClientOK, WireOK, CopyRecord
  <2>2. /\ PrefixOf(local[copy.file], local'[copy.file])
        /\ PrefixOf(local'[copy.file], copy.goal)
        /\ local'[copy.file] \in Seq(Chunk)
    <3>1. CASE file_fd.mode = "wb"
      BY <1>3, <2>1, <3>1, FlushedType DEF LocalCopy, Stores, File
    <3>2. CASE file_fd.mode # "wb"
      BY <1>3, <2>1, <3>2, PrefixRefl DEF Flushed, LocalCopy, Stores
    <3> QED
      BY <3>1, <3>2
  <2>3. CASE Head(to_client).option = "FAILED"
    <3>1. UNCHANGED copy
      BY <2>3 DEF DealEnd, ClientTakes
    <3>2. CopyStep
      BY <1>6, <2>2, <3>1, Keeps DEF Copying, Sink
    <3>3. LocalCopy'
      BY <1>3, <1>5, <2>1, <2>2, <3>1, ClosedType DEF LocalCopy, Stores
    <3> QED
      BY <1>6, <3>1, <3>2, <3>3 DEF CopyInv, Copying
  <2>4. CASE Head(to_client).option = "DONE"
    <3>1. copy' = [copy EXCEPT !.phase = "done"]
      BY <1>6, <2>4 DEF DealEnd, ClientTakes, FinishCopy, Copying
    <3>2. copy'.phase = "done" /\ copy'.side = "local" /\ UNCHANGED <<copy.file, copy.goal>>
      BY <1>6, <2>1, <3>1 DEF Copying, CopyRecord
    <3>3. file_fd.mode = "wb" /\ file_fd.data = copy.goal
      BY <1>2, <2>1, <2>4 DEF LocalCopy
    <3>4. local'[copy.file] = copy.goal
      BY <1>3, <2>1, <3>3, FlushedType DEF LocalCopy, Stores
    <3>5. Idle'
      BY <1>2, <1>3 DEF Idle
    <3>6. FinishedCopy'
      BY <1>2, <1>3, <2>1, <3>2, <3>4, <3>5 DEF FinishedCopy, LocalCopy
    <3>7. CopyStep
      BY <1>6, <3>2, <3>4 DEF CopyStep, Promise!Next, Promise!Finish, Sink, Copying
    <3> QED
      BY <3>2, <3>6, <3>7 DEF CopyInv, Copying
  <2> QED
    BY <1>1, <2>3, <2>4
<1>7. CASE ~Copying("local")
  <2>1. UNCHANGED copy
    BY <1>7 DEF DealEnd, FinishCopy, Copying
  <2>2. CopyStep
    BY <1>3, <1>4, <1>7, <2>1, Keeps DEF Sink, Copying, CopyInv
  <2>3. Copying("remote") => RemoteCopy'
    BY <1>2, <1>3, <1>5, <2>1 DEF CopyInv, RemoteCopy, Stores
  <2> QED
    BY <1>4, <1>7, <2>1, <2>2, <2>3 DEF CopyInv, Copying
<1> QED
  BY <1>6, <1>7

LEMMA CopyDealData ==
    ASSUME Inv, Inv', CopyInv, DealData
    PROVE  CopyInv' /\ CopyStep
<1>1. DownBlock
  BY AtClient DEF Inv, DealData, ClientTakes
<1>2. PICK block \in Block : /\ core_buff[1] = block
                             /\ Head(to_client).arg = block
                             /\ Sendable(block)
  <2>1. PICK hash \in {"INTACT", "CORRUPT"}, block \in Block :
           to_client = <<Send(hash, block)>> /\ core_buff = <<block>> /\ Sendable(block)
    BY <1>1 DEF DownBlock, ToClient
  <2>2. Head(to_client).arg = block /\ core_buff[1] = block
    BY <2>1, OnePacket DEF Send
  <2> QED
    BY <2>1, <2>2
<1>3. /\ UNCHANGED <<remote, fd, now_command, file_name, now_status, core_buff, status, dir>>
      /\ to_client' = <<>> /\ to_server = <<>>
  BY <1>1, OnePacket DEF DealData, ClientTakes, coreVars, DownBlock, ToClient
<1>4. copy.phase # "done"
  BY <1>1, Unfinished, OnePacket DEF DownBlock, ToClient
<1>5. ~Accepted' /\ ~UpNext' /\ ~UpAgain' /\ ~DownBlock' /\ ~DownEnd'
  BY <1>3, MarkedNext, OnePacket DEF Marked
<1>6. CASE copy' = Spoiled
  BY <1>6, Forgets
<1>7. CASE UNCHANGED <<copy, file_fd, local>> /\ Answer(Request("REPEAT", NULL))
  <2>1. to_server' = <<Request("REPEAT", NULL)>>
    BY <1>3, <1>7, OnePacket DEF Answer
  <2>2. CopyStep
    BY <1>3, <1>7, Keeps DEF Sink
  <2>3. ~UpGo' /\ ~UpBlock' /\ ~DownNext' /\ Head(to_server') # Request("DONE", NULL)
    BY <2>1, MarkedNext, OnePacket DEF Marked, Request
  <2>4. Copying("remote") => RemoteCopy'
    BY <1>3, <1>5, <1>7, <2>3 DEF CopyInv, RemoteCopy, Stores
  <2>5. Copying("local") => LocalCopy'
    BY <1>1, <1>3, <1>5, <1>7, <2>3 DEF CopyInv, LocalCopy, Stores, Reads, Downloading, Busy
  <2> QED
    BY <1>4, <1>7, <2>2, <2>4, <2>5 DEF CopyInv, Copying
<1>8. CASE now_command = "LS" /\ UNCHANGED <<copy, file_fd, local>>
           /\ Answer(Request("CONTINUE", NULL))
  <2>1. to_server' = <<Request("CONTINUE", NULL)>>
    BY <1>3, <1>8, OnePacket DEF Answer
  <2>2. CopyStep
    BY <1>3, <1>8, Keeps DEF Sink
  <2>3. ~UpGo' /\ ~UpBlock' /\ Head(to_server') # Request("DONE", NULL)
    BY <2>1, MarkedNext, OnePacket DEF Marked, Request
  <2>4. Copying("remote") => RemoteCopy'
    BY <1>3, <1>5, <1>8, <2>3 DEF CopyInv, RemoteCopy, Stores
  <2>5. ~Copying("local")
    BY <1>1, <1>8 DEF CopyInv, LocalCopy, Downloading
  <2> QED
    BY <1>4, <1>8, <2>2, <2>4, <2>5 DEF CopyInv, Copying
<1>9. CASE /\ now_command = "DOWNLOAD" /\ file_fd.mode = "wb"
           /\ UNCHANGED copy
           /\ Answer(Request("CONTINUE", NULL))
           /\ file_fd' = Advance(file_fd, block)
           /\ local' \in Written(local, file_fd')
  <2>1. to_server' = <<Request("CONTINUE", NULL)>>
    BY <1>3, <1>9, OnePacket DEF Answer
  <2>2. ~UpGo' /\ ~UpBlock' /\ ~DownAgain' /\ Head(to_server') # Request("DONE", NULL)
    BY <2>1, MarkedNext, OnePacket DEF Marked, Request
  <2>3. CASE Copying("local")
    <3>1. /\ LocalCopy /\ copy.goal \in Seq(Chunk) /\ file_fd.data \in Seq(Chunk)
          /\ local \in Disk(LocalFile) /\ file_fd \in File
          /\ file_fd.mode = "wb" /\ file_fd.file = copy.file
          /\ block \in Chunk
      BY <1>2, <1>9, <2>3, Sides
         DEF CopyInv, Inv, ClientOK, WireOK, CopyRecord, File, LocalCopy, Stores, Sendable
    <3>2. /\ file_fd' \in File /\ file_fd'.mode = "wb" /\ file_fd'.file = copy.file
          /\ file_fd'.data = Append(file_fd.data, block) /\ file_fd'.data \in Seq(Chunk)
      <4>1. Append(file_fd.data, block) \in Seq(Chunk)
        BY <3>1
      <4> QED
        BY <1>9, <3>1, <4>1, AdvanceType
    <3>3. Downloading /\ Reads(remote, fd) /\ fd.data = Append(file_fd.data, block)
      BY <1>1, <1>2, <3>1 DEF LocalCopy
    <3>4. PrefixOf(file_fd'.data, copy.goal)
      BY <3>2, <3>3 DEF Reads
    <3>5. PrefixOf(local[copy.file], file_fd'.data) /\ local[copy.file] \in Seq(Chunk)
      <4>1. local[copy.file] \in Seq(Chunk) /\ PrefixOf(local[copy.file], file_fd.data)
        BY <3>1 DEF LocalCopy, Stores
      <4>2. PrefixOf(file_fd.data, Append(file_fd.data, block))
        BY <3>1, PrefixAppend
      <4> QED
        BY <3>1, <3>2, <4>1, <4>2, PrefixTrans
    <3>6. PICK n \in Len(local[copy.file]) .. Len(file_fd'.data) :
             local'[copy.file] = SubSeq(file_fd'.data, 1, n)
      <4>1. copy.file \in LocalFile
        BY <3>1 DEF LocalCopy
      <4> DEFINE file == file_fd'
      <4>2. /\ file \in File /\ file.file = copy.file /\ file.file \in LocalFile
            /\ local[file.file] \in Seq(Chunk) /\ local' \in Written(local, file)
        BY <1>9, <3>2, <3>5, <4>1
      <4> HIDE DEF file
      <4>3. local \in Disk(LocalFile)
        BY DEF Inv, TypeOK, Disk
      <4>4. \E n \in Len(local[file.file]) .. Len(file.data) :
               local'[file.file] = SubSeq(file.data, 1, n)
        BY <4>2, <4>3, WrittenPart, Zenon
      <4> QED
        BY <4>2, <4>4 DEF file
    <3>7. /\ local'[copy.file] \in Seq(Chunk)
          /\ PrefixOf(local[copy.file], local'[copy.file])
          /\ PrefixOf(local'[copy.file], file_fd'.data)
      BY <3>2, <3>5, <3>6, PrefixBetween
    <3>8. PrefixOf(local'[copy.file], copy.goal)
      BY <3>1, <3>2, <3>4, <3>7, PrefixTrans
    <3>9. LocalCopy'
      <4>1. Stores(local, file_fd)' /\ Reads(remote, fd)'
        BY <1>3, <1>9, <3>2, <3>3, <3>4, <3>7, <3>8 DEF Stores, Reads
      <4>2. Downloading'
        BY <1>3, <3>2, <3>3 DEF Downloading, Busy
      <4>3. fd'.data = file_fd'.data
        BY <1>3, <3>2, <3>3
      <4> QED
        BY <1>5, <1>9, <2>2, <3>1, <3>7, <4>1, <4>2, <4>3 DEF LocalCopy
    <3>10. CopyStep
      BY <1>9, <2>3, <3>7, <3>8, Keeps DEF Sink, Copying
    <3> QED
      BY <1>9, <2>3, <3>9, <3>10 DEF CopyInv, Copying
  <2>4. CASE ~Copying("local")
    <3>1. CopyStep
      BY <1>3, <1>4, <1>9, <2>4, Keeps DEF Sink, Copying, CopyInv
    <3>2. Copying("remote") => RemoteCopy'
      BY <1>3, <1>5, <1>9, <2>2 DEF CopyInv, RemoteCopy, Stores
    <3> QED
      BY <1>4, <1>9, <2>4, <3>1, <3>2 DEF CopyInv, Copying
  <2> QED
    BY <2>3, <2>4
<1> QED
  BY <1>1, <1>2, <1>6, <1>7, <1>8, <1>9, ClosedType
     DEF DealData, DownBlock, Fetching, Listing, Downloading, NoError, StdioError

LEMMA CopyClient ==
    ASSUME Inv, Inv', CopyInv, ClientStep
    PROVE  CopyInv' /\ CopyStep
<1>1. to_client # <<>> => ~Unexpected(Head(to_client))
  BY Expected DEF Inv
<1> QED
  BY <1>1, CopyDealAnswer, CopyDealOpen, CopyDealContinue, CopyDealRepeat, CopyDealEnd, CopyDealData
     DEF ClientStep

-----------------------------------------------------------------------------
(* The rest: the prompt, the wire and the ends of the connection. *)

LEMMA CopyCommand ==
    ASSUME Inv, Inv', CopyInv, Command
    PROVE  CopyInv' /\ CopyStep
<1>1. PICK command \in Commands, arg \in RemoteFile \cup {NULL} : Ask(command, arg)
  BY DEF Command, Commands, Transfers
<1>2. AtPrompt
  BY <1>1
     DEF Ask, Inv, Phase, Asked, AskedFor, Accepted, Refused, UpGo, UpNext, UpBlock, UpAgain,
         Uploading, DownNext, DownBlock, DownAgain, DownEnd, Fetching, Listing, Downloading, Busy
<1>3. /\ UNCHANGED <<copy, local, remote, fd, file_fd, status, dir, to_client>>
      /\ to_client' = <<>> /\ file_fd = Closed
      /\ now_command' = command /\ now_status' # "READY"
  BY <1>1, <1>2 DEF Ask, coreVars, AtPrompt
<1>4. \/ to_server = <<>> /\ to_server' = <<Request(command, arg)>>
      \/ \E p \in Farewell : to_server = <<p>> /\ to_server' = <<p, Request(command, arg)>>
  <2>1. to_server' = Append(to_server, Request(command, arg))
    BY <1>1 DEF Ask
  <2>2. CASE to_server = <<>>
    BY <2>1, <2>2, OnePacket
  <2>3. ASSUME NEW p \in Farewell, to_server = <<p>>
        PROVE  to_server' = <<p, Request(command, arg)>>
    BY <2>1, <2>3, TwoPackets
  <2> QED
    BY <1>2, <2>2, <2>3 DEF AtPrompt
<1>5. CopyStep
  BY <1>3, Keeps DEF Sink
<1>6. /\ ~Accepted' /\ ~UpGo' /\ ~UpNext' /\ ~UpBlock' /\ ~UpAgain'
      /\ ~DownNext' /\ ~DownBlock' /\ ~DownAgain' /\ ~DownEnd'
      /\ to_server' # <<>>
      /\ Head(to_server') = Request("DONE", NULL) => to_server # <<>> /\ Head(to_server) = Request("DONE", NULL)
  <2>1. /\ to_server' # <<>> /\ Head(to_server').type = "REQUEST"
        /\ Head(to_server').option \in Commands \cup {"DONE", "FAILED"}
        /\ Head(to_server') = Request("DONE", NULL) => to_server # <<>> /\ Head(to_server) = Request("DONE", NULL)
    BY <1>4, OnePacket, TwoPackets DEF Request, Farewell, Commands, Transfers
  <2> QED
    BY <1>3, <2>1, MarkedNext, OnePacket DEF Marked, Request, Commands, Transfers
<1>7. Copying("remote") => RemoteCopy'
  BY <1>3, <1>6 DEF CopyInv, RemoteCopy, Stores
<1>8. Copying("local") => LocalCopy'
  BY <1>3, <1>6 DEF CopyInv, LocalCopy, Stores
<1>9. ASSUME copy.phase = "done" PROVE FinishedCopy'
  <2>1. FinishedCopy /\ to_server = <<>>
    BY <1>2, <1>9 DEF CopyInv, FinishedCopy, AtPrompt, Busy
  <2>2. to_server' = <<Request(now_command', arg)>>
    BY <1>3, <1>4, <2>1, OnePacket
  <2>3. Busy'
    BY <1>3 DEF Inv, Phase, AtPrompt, Asked, AskedFor, Accepted, Refused, UpGo, UpNext, UpBlock,
           UpAgain, Uploading, DownNext, DownBlock, DownAgain, DownEnd, Fetching, Listing, Downloading
  <2> QED
    BY <1>3, <2>1, <2>2, <2>3 DEF FinishedCopy, Idle
<1> QED
  BY <1>3, <1>5, <1>7, <1>8, <1>9 DEF CopyInv, Copying

LEMMA CopyCorrupt ==
    ASSUME Inv, Inv', CopyInv, Corrupt
    PROVE  CopyInv' /\ CopyStep
<1>1. UNCHANGED <<copy, remote, local, fd, file_fd, buff, core_buff, status, dir,
                  now_command, now_status, file_name>>
  BY DEF Corrupt, clientVars, coreVars
<1>2. CopyStep
  BY <1>1, Keeps DEF Sink
<1>3. CASE /\ to_server # <<>> /\ Head(to_server).type = "SEND"
           /\ to_server' = <<[Head(to_server) EXCEPT !.option = "CORRUPT"]>> \o Tail(to_server)
           /\ to_client' = to_client
  <2>1. UpBlock /\ copy.phase # "done"
    BY <1>3, AtServer, Unfinished DEF Inv
  <2>2. to_client' = <<>> /\ \E block \in Chunk : to_server' = <<Send("CORRUPT", block)>>
    <3>1. PICK hash \in {"INTACT", "CORRUPT"}, block \in Chunk : ToServer(Send(hash, block))
      BY <2>1 DEF UpBlock
    <3> QED
      BY <1>3, <3>1, OnePacket DEF ToServer, Send
  <2>3. to_server' # <<>> /\ Head(to_server').type = "SEND"
    BY <2>2, OnePacket DEF Send
  <2>4. /\ ~Accepted' /\ ~UpGo' /\ ~UpNext' /\ ~UpAgain'
        /\ ~DownNext' /\ ~DownBlock' /\ ~DownAgain' /\ ~DownEnd'
        /\ Head(to_server') # Request("DONE", NULL)
    BY <2>2, <2>3, MarkedNext, OnePacket DEF Marked, Request
  <2>5. Copying("remote") => RemoteCopy'
    BY <1>1, <2>1, <2>4 DEF CopyInv, RemoteCopy, Stores, Reads
  <2>6. Copying("local") => LocalCopy'
    BY <1>1, <2>4 DEF CopyInv, LocalCopy, Stores
  <2> QED
    BY <1>1, <1>2, <2>1, <2>5, <2>6 DEF CopyInv, Copying
<1>4. CASE /\ to_client # <<>> /\ Head(to_client).type = "SEND"
           /\ to_client' = <<[Head(to_client) EXCEPT !.option = "CORRUPT"]>> \o Tail(to_client)
           /\ to_server' = to_server
  <2>1. DownBlock /\ copy.phase # "done"
    BY <1>4, AtClient, Unfinished DEF Inv
  <2>2. to_server' = <<>> /\ \E block \in Block : to_client' = <<Send("CORRUPT", block)>>
    <3>1. PICK hash \in {"INTACT", "CORRUPT"}, block \in Block : ToClient(Send(hash, block))
      BY <2>1 DEF DownBlock
    <3> QED
      BY <1>4, <3>1, OnePacket DEF ToClient, Send
  <2>3. to_client' # <<>> /\ Head(to_client').type = "SEND"
    BY <2>2, OnePacket DEF Send
  <2>4. /\ ~Accepted' /\ ~UpGo' /\ ~UpNext' /\ ~UpBlock' /\ ~UpAgain'
        /\ ~DownNext' /\ ~DownAgain' /\ ~DownEnd'
    BY <2>2, <2>3, MarkedNext, OnePacket DEF Marked, Response
  <2>5. Copying("remote") => RemoteCopy'
    BY <1>1, <2>2, <2>4 DEF CopyInv, RemoteCopy, Stores
  <2>6. Copying("local") => LocalCopy'
    BY <1>1, <2>1, <2>4 DEF CopyInv, LocalCopy, Stores, Reads, Downloading, Busy
  <2> QED
    BY <1>1, <1>2, <2>1, <2>5, <2>6 DEF CopyInv, Copying
<1> QED
  BY <1>3, <1>4 DEF Corrupt

LEMMA CopyServerClose ==
    ASSUME Inv, Inv', CopyInv, ServerClose
    PROVE  CopyInv' /\ CopyStep
<1>1. /\ UNCHANGED <<copy, local, clientVars, coreVars, to_server, to_client>>
      /\ remote' \in {remote, Flushed(remote, fd)}
  BY DEF ServerClose
<1>2. UNCHANGED <<Accepted, UpGo, UpNext, UpBlock, UpAgain,
                  DownNext, DownBlock, DownAgain, DownEnd, Downloading>>
  BY <1>1
     DEF Accepted, UpGo, UpNext, UpBlock, UpAgain, DownNext, DownBlock, DownAgain, DownEnd,
         Uploading, Fetching, Listing, Downloading, Busy, Idle, Sendable, ToServer, ToClient,
         clientVars, coreVars
<1>3. fd.mode # "wb" => UNCHANGED remote
  BY <1>1 DEF Flushed
<1>4. CASE Copying("remote")
  <2>1. /\ RemoteCopy /\ copy.goal \in Seq(Chunk)
        /\ remote \in Disk(RemoteFile) /\ fd \in File /\ fd.data \in Seq(Chunk)
        /\ fd.mode # "closed" => fd.file \in RemoteFile
    BY <1>4, Sides DEF CopyInv, Inv, CoreOK, WireOK, CopyRecord, File
  <2>2. /\ PrefixOf(remote[copy.file], remote'[copy.file])
        /\ PrefixOf(remote'[copy.file], copy.goal)
        /\ remote'[copy.file] \in Seq(Chunk)
        /\ fd.mode = "wb" => PrefixOf(remote'[copy.file], fd.data)
    <3>1. CASE UNCHANGED remote
      BY <2>1, <3>1, PrefixRefl DEF RemoteCopy, Stores
    <3>2. CASE remote' = Flushed(remote, fd) /\ fd.mode = "wb"
      BY <2>1, <3>2, FlushedType, PrefixRefl DEF RemoteCopy, Stores
    <3> QED
      BY <1>1, <1>3, <3>1, <3>2
  <2>3. RemoteCopy'
    BY <1>1, <1>2, <2>1, <2>2 DEF RemoteCopy, Stores, Reads, clientVars, coreVars
  <2>4. CopyStep
    BY <1>1, <1>4, <2>2, Keeps DEF Sink, Copying
  <2> QED
    BY <1>1, <1>4, <2>3, <2>4 DEF CopyInv, Copying
<1>5. CASE Copying("local")
  <2>1. LocalCopy'
    BY <1>1, <1>2, <1>3, <1>5 DEF CopyInv, LocalCopy, Stores, Reads, Downloading, clientVars, coreVars
  <2>2. CopyStep
    BY <1>1, <1>5, Keeps DEF Sink, Copying
  <2> QED
    BY <1>1, <1>5, <2>1, <2>2 DEF CopyInv, Copying
<1>6. CASE copy.phase = "done"
  <2>1. UNCHANGED remote
    BY <1>3, <1>6, ClosedType DEF CopyInv, FinishedCopy, Idle
  <2>2. FinishedCopy'
    BY <1>1, <1>6, <2>1 DEF CopyInv, FinishedCopy, Idle, Busy, clientVars, coreVars
  <2>3. CopyStep
    BY <1>1, <2>1, Keeps DEF Sink
  <2> QED
    BY <1>1, <1>6, <2>2, <2>3 DEF CopyInv, Copying
<1>7. CASE copy.phase \notin {"copying", "done"}
  BY <1>1, <1>7, Keeps DEF Sink, CopyInv, Copying
<1> QED
  BY <1>4, <1>5, <1>6, <1>7 DEF CopyInv, Copying

LEMMA CopyClientExit ==
    ASSUME Inv, Inv', CopyInv, ClientExit
    PROVE  CopyInv' /\ CopyStep
<1>1. /\ UNCHANGED <<copy, remote, clientVars, coreVars, to_server, to_client>>
      /\ local' \in {local, Flushed(local, file_fd)}
  BY DEF ClientExit
<1>2. UNCHANGED <<Accepted, UpGo, UpNext, UpBlock, UpAgain,
                  DownNext, DownBlock, DownAgain, DownEnd, Downloading>>
  BY <1>1
     DEF Accepted, UpGo, UpNext, UpBlock, UpAgain, DownNext, DownBlock, DownAgain, DownEnd,
         Uploading, Fetching, Listing, Downloading, Busy, Idle, Sendable, ToServer, ToClient,
         clientVars, coreVars
<1>3. file_fd.mode # "wb" => UNCHANGED local
  BY <1>1 DEF Flushed
<1>4. CASE Copying("local")
  <2>1. /\ LocalCopy /\ copy.goal \in Seq(Chunk)
        /\ local \in Disk(LocalFile) /\ file_fd \in File /\ file_fd.data \in Seq(Chunk)
        /\ file_fd.mode # "closed" => file_fd.file \in LocalFile
    BY <1>4, Sides DEF CopyInv, Inv, ClientOK, WireOK, CopyRecord, File
  <2>2. /\ PrefixOf(local[copy.file], local'[copy.file])
        /\ PrefixOf(local'[copy.file], copy.goal)
        /\ local'[copy.file] \in Seq(Chunk)
        /\ file_fd.mode = "wb" => PrefixOf(local'[copy.file], file_fd.data)
    <3>1. CASE UNCHANGED local
      BY <2>1, <3>1, PrefixRefl DEF LocalCopy, Stores
    <3>2. CASE local' = Flushed(local, file_fd) /\ file_fd.mode = "wb"
      BY <2>1, <3>2, FlushedType, PrefixRefl DEF LocalCopy, Stores
    <3> QED
      BY <1>1, <1>3, <3>1, <3>2
  <2>3. LocalCopy'
    BY <1>1, <1>2, <2>1, <2>2 DEF LocalCopy, Stores, Reads, clientVars, coreVars
  <2>4. CopyStep
    BY <1>1, <1>4, <2>2, Keeps DEF Sink, Copying
  <2> QED
    BY <1>1, <1>4, <2>3, <2>4 DEF CopyInv, Copying
<1>5. CASE Copying("remote")
  <2>1. Accepted \/ UpGo \/ UpNext \/ UpBlock \/ UpAgain => file_fd.mode # "wb"
    BY ClosedType DEF Accepted, UpGo, UpNext, UpBlock, UpAgain, Uploading
  <2>2. RemoteCopy'
    BY <1>1, <1>2, <1>3, <1>5, <2>1 DEF CopyInv, RemoteCopy, Stores, Reads, clientVars, coreVars
  <2>3. CopyStep
    BY <1>1, <1>5, Keeps DEF Sink, Copying
  <2> QED
    BY <1>1, <1>5, <2>2, <2>3 DEF CopyInv, Copying
<1>6. CASE copy.phase = "done"
  <2>1. UNCHANGED local
    BY <1>3, <1>6, ClosedType DEF CopyInv, FinishedCopy
  <2>2. FinishedCopy'
    BY <1>1, <1>6, <2>1 DEF CopyInv, FinishedCopy, Idle, Busy, clientVars, coreVars
  <2>3. CopyStep
    BY <1>1, <2>1, Keeps DEF Sink
  <2> QED
    BY <1>1, <1>6, <2>2, <2>3 DEF CopyInv, Copying
<1>7. CASE copy.phase \notin {"copying", "done"}
  BY <1>1, <1>7, Keeps DEF Sink, CopyInv, Copying
<1> QED
  BY <1>4, <1>5, <1>6, <1>7 DEF CopyInv, Copying

LEMMA CopyIdle ==
    ASSUME CopyInv, PipeBroken \/ UNCHANGED vars
    PROVE  CopyInv' /\ CopyStep
<1>1. UNCHANGED <<copy, local, remote, clientVars, coreVars, to_server, to_client>>
  BY DEF PipeBroken, vars
<1>2. UNCHANGED <<Accepted, UpGo, UpNext, UpBlock, UpAgain,
                  DownNext, DownBlock, DownAgain, DownEnd, Downloading>>
  BY <1>1
     DEF Accepted, UpGo, UpNext, UpBlock, UpAgain, DownNext, DownBlock, DownAgain, DownEnd,
         Uploading, Fetching, Listing, Downloading, Busy, Idle, Sendable, ToServer, ToClient,
         clientVars, coreVars
<1>3. UNCHANGED <<Copying("remote"), Copying("local"), FinishedCopy, Sink>>
  BY <1>1 DEF Copying, FinishedCopy, Idle, Busy, Sink, clientVars, coreVars
<1>4. UNCHANGED RemoteCopy
  BY <1>1, <1>2 DEF RemoteCopy, Stores, Reads, clientVars, coreVars
<1>5. UNCHANGED LocalCopy
  BY <1>1, <1>2 DEF LocalCopy, Stores, Reads, clientVars, coreVars
<1> QED
  BY <1>1, <1>3, <1>4, <1>5, Keeps DEF CopyInv

-----------------------------------------------------------------------------

LEMMA CopyInit == Init => CopyInv /\ Promise!Init
  BY DEF Init, CopyInv, Copying, NoCopy, Promise!Init, Sink

LEMMA CopyNext == Inv /\ Inv' /\ CopyInv /\ [Next]_vars => CopyInv' /\ CopyStep
  BY CopyServer, CopyClient, CopyCommand, CopyCorrupt, CopyServerClose, CopyClientExit, CopyIdle
     DEF Next

(* Whatever the network corrupts, whatever is called off and whenever the  *)
(* connection goes, upload and download copy files as FileCopy promises    *)
(* (connection_core and client.cpp: prepareData, getData, setData).        *)
THEOREM Faithful == Spec => CopyIsFaithful
<1>1. Inv /\ CopyInv /\ [Next]_vars => Inv' /\ CopyInv' /\ CopyStep
  BY InvNext, CopyNext
<1> QED
  BY InvInit, CopyInit, <1>1, PTL DEF Spec, CopyIsFaithful, Promise!Spec, CopyStep

=============================================================================
