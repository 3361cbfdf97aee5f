------------------------------- MODULE Framing -------------------------------
(***************************************************************************)
(* receive_packet: packets out of a stream of bytes, of which each recv    *)
(* returns what has arrived, in as many parts as the network makes.        *)
(*                                                                         *)
(* A packet's length is spread over bytes, the lowest first, as it is in   *)
(* memory; base and number of the bytes are parameters.  When the header   *)
(* comes in parts, the second part goes to pack + len, which is len        *)
(* packets further on and not len bytes.                                   *)
(***************************************************************************)
EXTENDS Integers, Sequences, SequencesExt

CONSTANTS
    BASE,             (* values of a byte, 256 in the code                  *)
    LengthBytes,      (* bytes of packet::length, 4 in the code             *)
    MAX_PACKET_SIZE,  (* bytes of packet::data                              *)
    Padding,          (* sizeof(packet) is rounded up by so many bytes      *)
    Packet,           (* packets sent, [type, data]                         *)
    MaxPackets        (* bound: number of packets sent                      *)

Byte == 0 .. BASE - 1
PACKET_HEADER_SIZE == LengthBytes + 1
SizeofPacket == PACKET_HEADER_SIZE + MAX_PACKET_SIZE + Padding

(* What a one in byte i + 1 of the length stands for: BASE ^ i.            *)
Weight[i \in 0 .. LengthBytes] == IF i = 0 THEN 1 ELSE BASE * Weight[i - 1]

ASSUME FramingAssumption ==
    /\ BASE \in Nat /\ BASE > 1
    /\ LengthBytes \in Nat \ {0}
    /\ MAX_PACKET_SIZE \in Nat /\ Padding \in Nat /\ MaxPackets \in Nat
    /\ PACKET_HEADER_SIZE + MAX_PACKET_SIZE < Weight[LengthBytes]
    /\ Packet \subseteq [type : Byte \ {0}, data : Seq(Byte)]
    /\ \A p \in Packet : Len(p.data) <= MAX_PACKET_SIZE

VARIABLES
    sent,      (* history: packets sent                                     *)
    stream,    (* bytes sent and not read                                   *)
    missing,   (* bytes of the last packet that send has still to put in    *)
               (* the stream; whatever ends the sender, they never come then *)
    end,       (* sender: "open", "closed", or "reset", which throws away   *)
               (* what was not read and makes the next recv fail; "broken"  *)
               (* after that                                                *)
    at,        (* receiver: "poll", "header", "data" in receive_packet, and *)
               (* "closed" after it returned false, "crashed"               *)
    len,       (* its variable len                                          *)
    header,    (* pack->length and pack->type, as bytes                     *)
    data,      (* pack->data, as far as bytes were put there                *)
    received,  (* history: packets returned                                 *)
    overrun    (* history: recv has written outside of *pack                *)

vars == <<sent, stream, missing, end, at, len, header, data, received, overrun>>

-----------------------------------------------------------------------------
(* A packet in memory. *)

LengthByte(n, i) == (n \div Weight[i - 1]) % BASE
Bytes(p) == LET n == PACKET_HEADER_SIZE + Len(p.data)
            IN  [i \in 1 .. LengthBytes |-> LengthByte(n, i)] \o <<p.type>> \o p.data

Zeros(n) == [i \in 1 .. n |-> 0]
Length(h) == LET upTo[i \in 0 .. LengthBytes] ==
                     IF i = 0 THEN 0 ELSE upTo[i - 1] + (h[i] * Weight[i - 1])
             IN  upTo[LengthBytes]

(* Mutant: the length taken for that of the data. *)
DataSizeLong(h) == Length(h)

(* Mutant: off by one. *)
DataSizeShort(h) == Length(h) - PACKET_HEADER_SIZE - 1

DataSize(h) == Length(h) - PACKET_HEADER_SIZE
Put(memory, from, bytes) ==
    [i \in DOMAIN memory |-> IF i \in from + 1 .. from + Len(bytes)
                             THEN bytes[i - from] ELSE memory[i]]

-----------------------------------------------------------------------------
(* The sender. *)

(* send of a packet: the bytes that fit go to the stream, all or some of   *)
(* them; the sender waits with the others, and may be ended there.         *)
Send(p) ==
    /\ end = "open" /\ missing = <<>> /\ Len(sent) < MaxPackets
    /\ sent' = Append(sent, p)
    /\ \E k \in 1 .. Len(Bytes(p)) :
          /\ stream' = stream \o SubSeq(Bytes(p), 1, k)
          /\ missing' = SubSeq(Bytes(p), k + 1, Len(Bytes(p)))
    /\ UNCHANGED <<end, at, len, header, data, received, overrun>>

(* send goes on. *)
SendRest ==
    /\ end = "open" /\ missing # <<>>
    /\ stream' = stream \o missing
    /\ missing' = <<>>
    /\ UNCHANGED <<sent, end, at, len, header, data, received, overrun>>

CloseEnd ==
    /\ end = "open"
    /\ end' = "closed"
    /\ UNCHANGED <<sent, stream, missing, at, len, header, data, received, overrun>>

Reset ==
    /\ end = "open"
    /\ end' = "reset"
    /\ stream' = <<>>
    /\ UNCHANGED <<sent, missing, at, len, header, data, received, overrun>>

-----------------------------------------------------------------------------
(* receive_packet. *)

Start ==
    /\ at = "poll"
    /\ stream # <<>> \/ end # "open"
    /\ at' = "header"
    /\ len' = 0
    /\ header' = Zeros(PACKET_HEADER_SIZE)
    /\ data' = <<>>
    /\ UNCHANGED <<sent, stream, missing, end, received, overrun>>

(* What recv(.., want, 0) may return.                                      *)
Got(want) == {k \in 1 .. want : k <= Len(stream)}
Take(k) == stream' = SubSeq(stream, k + 1, Len(stream))

Return(h, d) ==
    /\ received' = Append(received, [type |-> h[PACKET_HEADER_SIZE], data |-> d])
    /\ at' = "poll"

(* Mutant: the length is not tested. *)
HeadedUntested(h) ==
    IF DataSize(h) <= 0 THEN Return(h, <<>>) ELSE at' = "data" /\ UNCHANGED received

(* After the header: the length is tested, and one that is smaller than    *)
(* the header leaves nothing to read.                                      *)
Headed(h) ==
    CASE Length(h) > SizeofPacket -> at' = "closed" /\ UNCHANGED received
      [] DataSize(h) <= 0         -> Return(h, <<>>)
      [] OTHER                    -> at' = "data" /\ UNCHANGED received

(* Some bytes of the header.  All but the first part go outside of *pack;  *)
(* the server goes on with what else is in the header, 0, if it can.       *)
RecvHeader ==
    /\ at = "header"
    /\ \E k \in Got(PACKET_HEADER_SIZE - len) :
        LET h == IF len = 0 THEN Put(header, 0, SubSeq(stream, 1, k)) ELSE header
            n == len + k
        IN  /\ Take(k)
            /\ header' = h
            /\ overrun' = (overrun \/ len > 0)
            /\ len' = IF n = PACKET_HEADER_SIZE THEN 0 ELSE n
            /\ \/ IF n = PACKET_HEADER_SIZE THEN Headed(h) ELSE UNCHANGED <<at, received>>
               \/ len > 0 /\ at' = "crashed" /\ UNCHANGED received
    /\ UNCHANGED <<sent, missing, end, data>>

(* Mutant: each part goes to the beginning of pack->data. *)
RecvDataAgain ==
    /\ at = "data"
    /\ \E k \in Got(DataSize(header) - len) :
        LET d == Put(data \o Zeros(len + k - Len(data)), 0, SubSeq(stream, 1, k))
        IN  /\ Take(k)
            /\ data' = d
            /\ len' = len + k
            /\ IF len' = DataSize(header) THEN Return(header, d) ELSE UNCHANGED <<at, received>>
    /\ UNCHANGED <<sent, missing, end, header, overrun>>

RecvData ==
    /\ at = "data"
    /\ \E k \in Got(DataSize(header) - len) :
        LET d == SubSeq(data, 1, len) \o SubSeq(stream, 1, k)
        IN  /\ Take(k)
            /\ data' = d
            /\ len' = len + k
            /\ IF len' = DataSize(header) THEN Return(header, d) ELSE UNCHANGED <<at, received>>
    /\ UNCHANGED <<sent, missing, end, header, overrun>>

(* Mutant: < for <=, as in the second loop. *)
RecvEndNegative ==
    /\ at = "header" /\ len < 0
    /\ stream = <<>> /\ end \in {"closed", "broken"}
    /\ at' = "closed"
    /\ UNCHANGED <<sent, stream, missing, end, len, header, data, received, overrun>>

(* recv returns 0 at the end of the stream.  The first recv of a packet    *)
(* makes receive_packet return false; any other changes nothing, and the   *)
(* loop calls it again.                                                    *)
RecvEnd ==
    /\ at = "header" /\ len = 0
    /\ stream = <<>> /\ end \in {"closed", "broken"}
    /\ at' = "closed"
    /\ UNCHANGED <<sent, stream, missing, end, len, header, data, received, overrun>>

(* recv returns -1, once, and is at the end of the stream then.  It takes  *)
(* one off len.                                                            *)
RecvError ==
    /\ at \in {"header", "data"} /\ end = "reset"
    /\ end' = "broken"
    /\ len' = len - 1
    /\ at' = IF len' < 0 \/ (at = "header" /\ len' = 0) THEN "closed" ELSE at
    /\ UNCHANGED <<sent, stream, missing, header, data, received, overrun>>

Init ==
    /\ sent = <<>> /\ stream = <<>> /\ missing = <<>> /\ end = "open"
    /\ at = "poll" /\ len = 0
    /\ header = Zeros(PACKET_HEADER_SIZE) /\ data = <<>>
    /\ received = <<>> /\ overrun = FALSE

Receiver == Start \/ RecvHeader \/ RecvData \/ RecvEnd \/ RecvError

Next == (\E p \in Packet : Send(p)) \/ SendRest \/ CloseEnd \/ Reset \/ Receiver

Spec == Init /\ [][Next]_vars
(* The main thread runs whenever recv can return.                          *)
FairSpec == Spec /\ WF_vars(Receiver)

-----------------------------------------------------------------------------
(* Properties. *)

TypeOK ==
    /\ sent \in Seq(Packet)
    /\ stream \in Seq(Byte)
    /\ missing \in Seq(Byte)
    /\ end \in {"open", "closed", "reset", "broken"}
    /\ at \in {"poll", "header", "data", "closed", "crashed"}
    /\ header \in [1 .. PACKET_HEADER_SIZE -> Byte]
    /\ data \in Seq(Byte)
    /\ len \in -1 .. SizeofPacket
    /\ received \in Seq([type : Byte, data : Seq(Byte)])
    /\ overrun \in BOOLEAN

(* However the stream is cut, the packets are those that were sent, whole  *)
(* and in order, unless a header came in parts.                            *)
AsSent == overrun \/ IsPrefix(received, sent)

(* Whatever a header holds, after one that came in parts anything, recv    *)
(* puts nothing behind the packet.                                         *)
DataInside == PACKET_HEADER_SIZE + Len(data) <= SizeofPacket

(* No packet is given out before all of it was sent; with AsSent: what is  *)
(* missing of the packets sent is in the stream, or still with the sender, *)
(* or was reset.                                                           *)
NothingLost ==
    ~overrun /\ at = "poll" /\ end = "open" =>
        stream \o missing =
            FlattenSeq([i \in 1 .. Len(sent) - Len(received) |->
                           Bytes(sent[Len(received) + i])])

(* The stream has ended inside of a packet: the loop runs for ever.        *)
Spinning == end \in {"closed", "broken"} /\ stream = <<>> /\ at \in {"header", "data"}
               /\ (at = "header" => len > 0)

(* The sender is inside of a packet, and the receiver waits for the rest.  *)
Stalled == end = "open" /\ missing # <<>> /\ stream = <<>>

(* receive_packet returns, unless the stream ends inside of a packet, the  *)
(* sender stays inside of one for ever, or a header came in parts: then it *)
(* waits for bytes that nobody sends.                                      *)
Returns ==
    \/ <>[]Stalled
    \/ at \in {"header", "data"} ~>
          at \in {"poll", "closed", "crashed"} \/ Spinning \/ overrun

(* A sender who closes his end after whole packets does not leave the      *)
(* receiver in the loop: only a reset does, one who is ended inside of a   *)
(* packet, or a header that came in parts.                                 *)
CleanEnd == Spinning /\ end = "closed" => overrun \/ missing # <<>>

=============================================================================
