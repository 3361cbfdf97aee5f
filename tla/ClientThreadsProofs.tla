------------------------- MODULE ClientThreadsProofs -------------------------
(***************************************************************************)
(* What holds of the client's threads for any number of packets and        *)
(* SIGINTs: the types, that a command finds the one before it settled, and *)
(* that only SIGINT leaves the lock taken.                                 *)
(***************************************************************************)
EXTENDS ClientThreads, SequenceTheorems, TLAPS

Holding == {"receive", "ready", "fclose", "send"}
Pack == {"more", "last", "KEEPALIVE", "end"}

(* Whoever is where only the lock lets him has it.  A receiver that SIGINT *)
(* has ended may keep it.                                                  *)
LockOK ==
    /\ lock = "main" <=> main = "command"
    /\ receiver \in Holding => lock = "receiver"
    /\ lock = "receiver" => receiver \in Holding \cup {"ended"}
    /\ receiver \in {"lock", "receive"} => to_client # <<>>
    /\ main = "input" => receiver = "none" /\ lock = NONE
    /\ "receiver" \in handler => receiver # "none"

(* No packet of an answer follows the last one, none is on its way when    *)
(* the receiver is about to set the status, or when it is set.             *)
AnswerOK ==
    /\ \A i, j \in 1 .. Len(to_client) :
          to_client[i] = "last" /\ i # j => to_client[j] # "last"
                                            /\ (i < j => to_client[j] # "more")
    /\ asked => \A i \in 1 .. Len(to_client) : to_client[i] # "last"
    /\ now_status = "READY" \/ receiver = "ready" =>
          ~asked /\ \A i \in 1 .. Len(to_client) :
                       to_client[i] \notin {"more", "last"}

(* What the last command has left behind, and who is still to deal with it.*)
LeftOK ==
    /\ main # "busy" => now_status = "READY"
    /\ file_fd /\ now_status = "READY" =>
          lock = "receiver" /\ receiver \in {"fclose", "ended"}
    /\ owes => lock = "receiver" /\ receiver \in {"fclose", "send", "ended"}
    /\ receiver \in {"fclose", "send"} => now_status = "READY"
    /\ receiver = "ready" => now_status = "WAITING"
    /\ handler # {} => signals > 0

Inv == TypeOK /\ LockOK /\ AnswerOK /\ LeftOK /\ LockLeft

-----------------------------------------------------------------------------
(* The queue of packets. *)

LEMMA Appended ==
    ASSUME TypeOK, NEW p \in Pack, Arrives(p)
    PROVE  /\ to_client' \in Seq(Pack) /\ to_client' # <<>>
           /\ Len(to_client) \in Nat /\ Len(to_client') = Len(to_client) + 1
           /\ to_client'[Len(to_client) + 1] = p
           /\ \A i \in 1 .. Len(to_client) : to_client'[i] = to_client[i]
<1>1. to_client \in Seq(Pack) /\ to_client' = Append(to_client, p)
  BY DEF TypeOK, Pack, Arrives
<1>2. /\ to_client' \in Seq(Pack)
      /\ Len(to_client) \in Nat /\ Len(to_client') = Len(to_client) + 1
  BY <1>1, AppendProperties, LenProperties
<1>3. /\ to_client'[Len(to_client) + 1] = p
      /\ \A i \in 1 .. Len(to_client) : to_client'[i] = to_client[i]
  BY <1>1, AppendProperties
<1>4. to_client' # <<>>
  BY <1>2
<1> QED
  BY <1>2, <1>3, <1>4

LEMMA Taken ==
    ASSUME TypeOK, to_client # <<>>, to_client' = Tail(to_client)
    PROVE  /\ to_client' \in Seq(Pack)
           /\ Len(to_client') \in Nat /\ Len(to_client) = Len(to_client') + 1
           /\ Head(to_client) = to_client[1] /\ Head(to_client) \in Pack
           /\ \A i \in 1 .. Len(to_client') : to_client'[i] = to_client[i + 1]
<1>1. to_client \in Seq(Pack)
  BY DEF TypeOK, Pack
<1>2. /\ to_client' \in Seq(Pack) /\ Head(to_client) \in Pack
      /\ Len(to_client') = Len(to_client) - 1
      /\ \A i \in 1 .. Len(to_client') : to_client'[i] = to_client[i + 1]
  BY <1>1, HeadTailProperties
<1>3. Head(to_client) = to_client[1]
  BY <1>1
<1> QED
  BY <1>1, <1>2, <1>3, LenProperties

-----------------------------------------------------------------------------

LEMMA InitInv == Init => Inv
<1> SUFFICES ASSUME Init PROVE Inv
  OBVIOUS
<1>1. TypeOK
  <2>1. 0 \in 0 .. MaxMore /\ 0 \in 0 .. MaxKeepAlive /\ 0 \in 0 .. MaxSignal
    BY ClientThreadsAssumption
  <2>2. to_client \in Seq({"more", "last", "KEEPALIVE", "end"})
    BY DEF Init
  <2> QED
    BY <2>1, <2>2 DEF Init, TypeOK
<1>2. LockOK /\ LeftOK /\ LockLeft
  BY ClientThreadsAssumption DEF Init, LockOK, LeftOK, LockLeft, Holding
<1>3. AnswerOK
  BY DEF Init, AnswerOK
<1> QED
  BY <1>1, <1>2, <1>3 DEF Inv

LEMMA StepInv == Inv /\ [Next]_vars => Inv'
<1> SUFFICES ASSUME Inv, [Next]_vars PROVE Inv'
  OBVIOUS
<1>1. ASSUME ClientStart PROVE Inv'
  <2>1. TypeOK'
    BY <1>1 DEF ClientStart, Inv, TypeOK, env
  <2>2. LockOK'
    BY <1>1 DEF ClientStart, Inv, LockOK, Holding
  <2>3. AnswerOK'
    BY <1>1 DEF ClientStart, Inv, AnswerOK, env
  <2>4. LeftOK'
    BY <1>1 DEF ClientStart, Inv, LockOK, LeftOK
  <2>5. LockLeft'
    BY <1>1 DEF ClientStart, Inv, LockLeft
  <2> QED
    BY <2>1, <2>2, <2>3, <2>4, <2>5 DEF Inv
<1>2. ASSUME Started PROVE Inv'
  <2>1. TypeOK'
    BY <1>2 DEF Started, Inv, TypeOK, env
  <2>2. LockOK'
    BY <1>2 DEF Started, Inv, LockOK, env
  <2>3. AnswerOK'
    BY <1>2 DEF Started, Inv, AnswerOK, LeftOK, env
  <2>4. LeftOK'
    BY <1>2 DEF Started, Inv, LeftOK
  <2>5. LockLeft'
    BY <1>2 DEF Started, Inv, LockLeft
  <2> QED
    BY <2>1, <2>2, <2>3, <2>4, <2>5 DEF Inv
<1>3. ASSUME Waited PROVE Inv'
  <2>1. TypeOK'
    BY <1>3 DEF Waited, Inv, TypeOK, env
  <2>2. LockOK'
    BY <1>3 DEF Waited, Inv, LockOK, env
  <2>3. AnswerOK'
    BY <1>3 DEF Waited, Inv, AnswerOK, env
  <2>4. LeftOK'
    BY <1>3 DEF Waited, Inv, LeftOK
  <2>5. LockLeft'
    BY <1>3 DEF Waited, Inv, LockLeft
  <2> QED
    BY <2>1, <2>2, <2>3, <2>4, <2>5 DEF Inv
<1>4. ASSUME Type PROVE Inv'
  <2>1. TypeOK'
    BY <1>4 DEF Type, Inv, TypeOK, env
  <2>2. LockOK'
    BY <1>4 DEF Type, Inv, LockOK, env
  <2>3. AnswerOK'
    BY <1>4 DEF Type, Inv, AnswerOK, env
  <2>4. LeftOK'
    BY <1>4 DEF Type, Inv, LeftOK
  <2>5. LockLeft'
    BY <1>4 DEF Type, Inv, LockLeft
  <2> QED
    BY <2>1, <2>2, <2>3, <2>4, <2>5 DEF Inv
<1>5. ASSUME ExitCommand PROVE Inv'
  <2>1. TypeOK'
    BY <1>5 DEF ExitCommand, Inv, TypeOK, env
  <2>2. LockOK'
    BY <1>5 DEF ExitCommand, Inv, LockOK, env
  <2>3. AnswerOK'
    BY <1>5 DEF ExitCommand, Inv, AnswerOK, env
  <2>4. LeftOK'
    BY <1>5 DEF ExitCommand, Inv, LeftOK
  <2>5. LockLeft'
    BY <1>5 DEF ExitCommand, Inv, LockLeft
  <2> QED
    BY <2>1, <2>2, <2>3, <2>4, <2>5 DEF Inv
<1>6. ASSUME MainLock PROVE Inv'
  <2>1. TypeOK'
    BY <1>6 DEF MainLock, Inv, TypeOK, env
  <2>2. LockOK'
    BY <1>6, ClientThreadsAssumption DEF MainLock, Inv, LockOK, env
  <2>3. AnswerOK'
    BY <1>6 DEF MainLock, Inv, AnswerOK, env
  <2>4. LeftOK'
    BY <1>6, ClientThreadsAssumption DEF MainLock, Inv, LeftOK
  <2>5. LockLeft'
    BY <1>6 DEF MainLock, Inv, LockLeft
  <2> QED
    BY <2>1, <2>2, <2>3, <2>4, <2>5 DEF Inv
<1>7. ASSUME Request PROVE Inv'
  <2>0. 0 \in 0 .. MaxMore
    BY ClientThreadsAssumption
  <2>1. TypeOK'
    BY <1>7, <2>0 DEF Request, Inv, TypeOK
  <2>2. LockOK'
    BY <1>7, <2>0, ClientThreadsAssumption DEF Request, Inv, LockOK
  <2>3. AnswerOK'
    BY <1>7, <2>0 DEF Request, Inv, AnswerOK, LeftOK
  <2>4. LeftOK'
    BY <1>7, <2>0 DEF Request, Inv, LockOK, LeftOK, Holding
  <2>5. LockLeft'
    BY <1>7, <2>0, ClientThreadsAssumption DEF Request, Inv, LockLeft
  <2> QED
    BY <2>1, <2>2, <2>3, <2>4, <2>5 DEF Inv
<1>8. ASSUME ReceiverPoll PROVE Inv'
  <2>1. TypeOK'
    BY <1>8 DEF ReceiverPoll, Inv, TypeOK, env
  <2>2. LockOK'
    BY <1>8 DEF ReceiverPoll, Inv, LockOK, Holding, env
  <2>3. AnswerOK'
    BY <1>8 DEF ReceiverPoll, Inv, AnswerOK, env
  <2>4. LeftOK'
    BY <1>8 DEF ReceiverPoll, Inv, LeftOK
  <2>5. LockLeft'
    BY <1>8 DEF ReceiverPoll, Inv, LockLeft
  <2> QED
    BY <2>1, <2>2, <2>3, <2>4, <2>5 DEF Inv
<1>9. ASSUME ReceiverLock PROVE Inv'
  <2>1. TypeOK'
    BY <1>9 DEF ReceiverLock, Inv, TypeOK, LockOK, env
  <2>2. LockOK'
    BY <1>9, ClientThreadsAssumption
       DEF ReceiverLock, Inv, LockOK, Holding, env
  <2>3. AnswerOK'
    BY <1>9 DEF ReceiverLock, Inv, AnswerOK, env
  <2>4. LeftOK'
    BY <1>9 DEF ReceiverLock, Inv, LeftOK
  <2>5. LockLeft'
    BY <1>9 DEF ReceiverLock, Inv, LockLeft
  <2> QED
    BY <2>1, <2>2, <2>3, <2>4, <2>5 DEF Inv
<1>10. ASSUME Receive PROVE Inv'
  <2>0. /\ to_client' \in Seq(Pack)
        /\ Len(to_client') \in Nat /\ Len(to_client) = Len(to_client') + 1
        /\ Head(to_client) = to_client[1] /\ Head(to_client) \in Pack
        /\ \A i \in 1 .. Len(to_client') : to_client'[i] = to_client[i + 1]
    BY <1>10, Taken DEF Inv, TypeOK, Receive
  <2>1. TypeOK'
    <3>1. to_client' \in Seq({"more", "last", "KEEPALIVE", "end"})
      BY <2>0 DEF Pack
    <3>2. /\ receiver' \in {"ready", "ended", "poll"} /\ lock' \in {lock, NONE}
          /\ file_fd' \in BOOLEAN
      BY <1>10 DEF Receive, Inv, TypeOK
    <3> QED
      BY <1>10, <3>1, <3>2 DEF Receive, Inv, TypeOK
  <2>2. LockOK'
    BY <1>10, <2>0, ClientThreadsAssumption DEF Receive, Inv, LockOK, Holding
  <2>3. AnswerOK'
    <3>1. ASSUME NEW i \in 1 .. Len(to_client'), NEW j \in 1 .. Len(to_client')
          PROVE  to_client'[i] = "last" /\ i # j =>
                    to_client'[j] # "last" /\ (i < j => to_client'[j] # "more")
      <4>1. /\ i + 1 \in 1 .. Len(to_client) /\ j + 1 \in 1 .. Len(to_client)
            /\ to_client'[i] = to_client[i + 1] /\ to_client'[j] = to_client[j + 1]
            /\ (i # j => i + 1 # j + 1) /\ (i < j => i + 1 < j + 1)
        BY <2>0
      <4> QED
        BY <4>1 DEF Inv, AnswerOK
    <3>2. ASSUME NEW i \in 1 .. Len(to_client'), ~asked \/ Head(to_client) # "last"
          PROVE  /\ asked => to_client'[i] # "last"
                 /\ now_status = "READY" => to_client'[i] \notin {"more", "last"}
      <4>1. i + 1 \in 1 .. Len(to_client) /\ to_client'[i] = to_client[i + 1]
        BY <2>0
      <4> QED
        BY <4>1 DEF Inv, AnswerOK
    <3>3. CASE Head(to_client) = "last"
      <4>1. ASSUME NEW i \in 1 .. Len(to_client')
            PROVE  to_client'[i] \notin {"more", "last"}
        <5>1. /\ 1 \in 1 .. Len(to_client) /\ i + 1 \in 1 .. Len(to_client)
              /\ to_client'[i] = to_client[i + 1] /\ 1 < i + 1 /\ to_client[1] = "last"
          BY <2>0, <3>3
        <5> QED
          BY <5>1 DEF Inv, AnswerOK
      <4>2. ~asked
        <5>1. 1 \in 1 .. Len(to_client) /\ to_client[1] = "last"
          BY <2>0, <3>3
        <5> QED
          BY <5>1 DEF Inv, AnswerOK
      <4> QED
        BY <1>10, <3>1, <4>1, <4>2 DEF Receive, AnswerOK
    <3>4. CASE Head(to_client) # "last"
      <4>1. receiver' # "ready" /\ asked' = asked /\ now_status' = now_status
        BY <1>10, <3>4 DEF Receive
      <4> QED
        BY <3>1, <3>2, <3>4, <4>1 DEF Inv, AnswerOK
    <3> QED
      BY <3>3, <3>4
  <2>4. LeftOK'
    BY <1>10, <2>0 DEF Receive, Inv, TypeOK, AnswerOK, LeftOK
  <2>5. LockLeft'
    BY <1>10, <2>0, ClientThreadsAssumption DEF Receive, Inv, LockLeft
  <2> QED
    BY <2>1, <2>2, <2>3, <2>4, <2>5 DEF Inv
<1>11. ASSUME SetReady PROVE Inv'
  <2>1. TypeOK'
    BY <1>11 DEF SetReady, Inv, TypeOK, env
  <2>2. LockOK'
    BY <1>11 DEF SetReady, Inv, LockOK, Holding
  <2>3. AnswerOK'
    BY <1>11 DEF SetReady, Inv, AnswerOK, env
  <2>4. LeftOK'
    BY <1>11 DEF SetReady, Inv, LockOK, LeftOK, Holding
  <2>5. LockLeft'
    BY <1>11 DEF SetReady, Inv, LockLeft
  <2> QED
    BY <2>1, <2>2, <2>3, <2>4, <2>5 DEF Inv
<1>12. ASSUME CloseFile PROVE Inv'
  <2>1. TypeOK'
    BY <1>12 DEF CloseFile, Inv, TypeOK, env
  <2>2. LockOK'
    BY <1>12 DEF CloseFile, Inv, LockOK, Holding
  <2>3. AnswerOK'
    BY <1>12 DEF CloseFile, Inv, AnswerOK, env
  <2>4. LeftOK'
    BY <1>12 DEF CloseFile, Inv, LeftOK
  <2>5. LockLeft'
    BY <1>12 DEF CloseFile, Inv, LockLeft
  <2> QED
    BY <2>1, <2>2, <2>3, <2>4, <2>5 DEF Inv
<1>13. ASSUME SendDone PROVE Inv'
  <2>1. TypeOK'
    BY <1>13 DEF SendDone, Inv, TypeOK, env
  <2>2. LockOK'
    BY <1>13, ClientThreadsAssumption DEF SendDone, Inv, LockOK, Holding
  <2>3. AnswerOK'
    BY <1>13 DEF SendDone, Inv, AnswerOK, env
  <2>4. LeftOK'
    BY <1>13 DEF SendDone, Inv, LeftOK
  <2>5. LockLeft'
    BY <1>13 DEF SendDone, Inv, LockLeft
  <2> QED
    BY <2>1, <2>2, <2>3, <2>4, <2>5 DEF Inv
<1>14. ASSUME MainStops PROVE Inv'
  <2>1. TypeOK'
    BY <1>14 DEF MainStops, Inv, TypeOK, env
  <2>2. LockOK'
    BY <1>14 DEF MainStops, Inv, LockOK, Holding, connected, env
  <2>3. AnswerOK'
    BY <1>14 DEF MainStops, Inv, AnswerOK, env
  <2>4. LeftOK'
    BY <1>14 DEF MainStops, Inv, LeftOK
  <2>5. LockLeft'
    BY <1>14 DEF MainStops, Inv, LeftOK, LockLeft
  <2> QED
    BY <2>1, <2>2, <2>3, <2>4, <2>5 DEF Inv
<1>15. ASSUME ReceiverStops PROVE Inv'
  <2>1. TypeOK'
    BY <1>15 DEF ReceiverStops, Inv, TypeOK, env
  <2>2. LockOK'
    BY <1>15 DEF ReceiverStops, Inv, LockOK, Holding, connected, env
  <2>3. AnswerOK'
    BY <1>15 DEF ReceiverStops, Inv, AnswerOK, env
  <2>4. LeftOK'
    BY <1>15 DEF ReceiverStops, Inv, LeftOK
  <2>5. LockLeft'
    BY <1>15 DEF ReceiverStops, Inv, LeftOK, LockLeft
  <2> QED
    BY <2>1, <2>2, <2>3, <2>4, <2>5 DEF Inv
<1>16. ASSUME Answer PROVE Inv'
  <2>0. ASSUME NEW p \in Pack, Arrives(p)
        PROVE  /\ to_client' \in Seq(Pack) /\ to_client' # <<>>
               /\ Len(to_client) \in Nat /\ Len(to_client') = Len(to_client) + 1
               /\ to_client'[Len(to_client) + 1] = p
               /\ \A i \in 1 .. Len(to_client) : to_client'[i] = to_client[i]
    BY <2>0, Appended DEF Inv
  <2>1. TypeOK'
    <3>1. /\ to_client' \in Seq({"more", "last", "KEEPALIVE", "end"})
          /\ to_client' # <<>>
      BY <1>16, <2>0 DEF Answer, Pack
    <3>2. asked' \in BOOLEAN
      BY <1>16 DEF Answer, Inv, TypeOK
    <3>3. more' \in 0 .. MaxMore
      <4>1. more \in 0 .. MaxMore
        BY DEF Inv, TypeOK
      <4>2. UNCHANGED more \/ (more < MaxMore /\ more' = more + 1)
        BY <1>16, Zenon DEF Answer
      <4> QED
        BY <4>1, <4>2, ClientThreadsAssumption
    <3> QED
      BY <1>16, <3>1, <3>2, <3>3 DEF Answer, Inv, TypeOK
  <2>2. LockOK'
    <3>1. CASE asked' = FALSE /\ Arrives("last") /\ UNCHANGED more
      BY <1>16, <2>0, <3>1 DEF Answer, Inv, LockOK, Arrives
    <3>2. CASE more < MaxMore /\ more' = more + 1 /\ Arrives("more") /\ UNCHANGED asked
      BY <1>16, <2>0, <3>2 DEF Answer, Inv, LockOK, Arrives
    <3> QED
      BY <1>16, <3>1, <3>2 DEF Answer
  <2>3. AnswerOK'
    <3>1. CASE asked' = FALSE /\ Arrives("last") /\ UNCHANGED more
      BY <1>16, <2>0, <3>1 DEF Answer, Inv, AnswerOK, Pack
    <3>2. CASE more < MaxMore /\ more' = more + 1 /\ Arrives("more") /\ UNCHANGED asked
      BY <1>16, <2>0, <3>2 DEF Answer, Inv, AnswerOK, Pack
    <3> QED
      BY <1>16, <3>1, <3>2 DEF Answer
  <2>4. LeftOK'
    BY <1>16, <2>0 DEF Answer, Inv, LeftOK
  <2>5. LockLeft'
    BY <1>16, <2>0 DEF Answer, Inv, LockLeft
  <2> QED
    BY <2>1, <2>2, <2>3, <2>4, <2>5 DEF Inv
<1>17. ASSUME KeepAlive PROVE Inv'
  <2>0. /\ to_client' \in Seq(Pack) /\ to_client' # <<>>
        /\ Len(to_client) \in Nat /\ Len(to_client') = Len(to_client) + 1
        /\ to_client'[Len(to_client) + 1] = "KEEPALIVE"
        /\ \A i \in 1 .. Len(to_client) : to_client'[i] = to_client[i]
    BY <1>17, Appended DEF Inv, KeepAlive, Pack
  <2>1. TypeOK'
    BY <1>17, <2>0, ClientThreadsAssumption DEF KeepAlive, Inv, TypeOK, Pack
  <2>2. LockOK'
    BY <1>17, <2>0 DEF KeepAlive, Inv, LockOK
  <2>3. AnswerOK'
    BY <1>17, <2>0 DEF KeepAlive, Inv, AnswerOK, LeftOK, Pack
  <2>4. LeftOK'
    BY <1>17, <2>0 DEF KeepAlive, Inv, LeftOK
  <2>5. LockLeft'
    BY <1>17, <2>0 DEF KeepAlive, Inv, LockLeft
  <2> QED
    BY <2>1, <2>2, <2>3, <2>4, <2>5 DEF Inv
<1>18. ASSUME Disconnect PROVE Inv'
  <2>0. /\ to_client' \in Seq(Pack) /\ to_client' # <<>>
        /\ Len(to_client) \in Nat /\ Len(to_client') = Len(to_client) + 1
        /\ to_client'[Len(to_client) + 1] = "end"
        /\ \A i \in 1 .. Len(to_client) : to_client'[i] = to_client[i]
    BY <1>18, Appended DEF Inv, Disconnect, Pack
  <2>1. TypeOK'
    BY <1>18, <2>0 DEF Disconnect, Inv, TypeOK, Pack
  <2>2. LockOK'
    BY <1>18, <2>0 DEF Disconnect, Inv, LockOK
  <2>3. AnswerOK'
    BY <1>18, <2>0, ClientThreadsAssumption DEF Disconnect, Inv, AnswerOK, Pack
  <2>4. LeftOK'
    BY <1>18, <2>0 DEF Disconnect, Inv, LeftOK
  <2>5. LockLeft'
    BY <1>18, <2>0 DEF Disconnect, Inv, LockLeft
  <2> QED
    BY <2>1, <2>2, <2>3, <2>4, <2>5 DEF Inv
<1>19. ASSUME NEW thread \in {"main", "receiver"}, Interrupt(thread) PROVE Inv'
  <2>1. TypeOK'
    BY <1>19, ClientThreadsAssumption DEF Interrupt, Inv, TypeOK, env
  <2>2. LockOK'
    BY <1>19 DEF Interrupt, Inv, LockOK, env
  <2>3. AnswerOK'
    BY <1>19 DEF Interrupt, Inv, AnswerOK, env
  <2>4. LeftOK'
    BY <1>19 DEF Interrupt, Inv, TypeOK, LeftOK
  <2>5. LockLeft'
    BY <1>19 DEF Interrupt, Inv, TypeOK, LockLeft
  <2> QED
    BY <2>1, <2>2, <2>3, <2>4, <2>5 DEF Inv
<1>20. ASSUME UNCHANGED vars PROVE Inv'
  BY <1>20
     DEF vars, env, Inv, TypeOK, LockOK, AnswerOK, LeftOK, LockLeft, Holding
<1> QED
  BY <1>1, <1>2, <1>3, <1>4, <1>5, <1>6, <1>7, <1>8, <1>9, <1>10, <1>11, <1>12,
     <1>13, <1>14, <1>15, <1>16, <1>17, <1>18, <1>19, <1>20
     DEF Next, MainStep, ReceiverStep

-----------------------------------------------------------------------------

LEMMA InvAlways == Spec => []Inv
  BY InitInv, StepInv, PTL DEF Spec

(* The variables keep their types, and process_packet is called with a     *)
(* packet to deal with (client.cpp, the receiver's loop).                  *)
THEOREM TypeCorrect == Spec => []TypeOK
<1>1. Inv => TypeOK
  BY DEF Inv
<1> QED
  BY <1>1, InvAlways, PTL

(* Whatever the receiver has still to do after it has set the status, main *)
(* begins its next command only after that: the lock the receiver keeps    *)
(* until then sees to it, for answers of any length.                       *)
THEOREM SettledAlways == Spec => []Settled
<1>1. Inv => Settled
  BY ClientThreadsAssumption
     DEF Inv, TypeOK, LockOK, AnswerOK, LeftOK, Settled, Holding
<1> QED
  BY <1>1, InvAlways, PTL

(* No way out of the receiver's loop, "pipe broken" either, keeps the      *)
(* lock: only a thread that SIGINT has ended has it for ever.              *)
THEOREM LockLeftAlways == Spec => []LockLeft
<1>1. Inv => LockLeft
  BY DEF Inv
<1> QED
  BY <1>1, InvAlways, PTL

=============================================================================
