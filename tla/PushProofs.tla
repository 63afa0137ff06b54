----------------------------- MODULE PushProofs -----------------------------
(***************************************************************************)
(* The client's send side and the node's push path for any number of       *)
(* messages and workers and any capacities.  The client alone: what is     *)
(* queued is written in the order it was queued, nothing is lost while the *)
(* writer runs, and an online client has its writer.  The push path: it    *)
(* treats the client as ClientSend says, so that all this holds there;     *)
(* readSubMsg has room when it pushes; and workers overtake only those at  *)
(* work at the same time.                                                  *)
(***************************************************************************)
EXTENDS Push, SequenceTheorems, TLAPS

\* Leaves that Zenon cannot do name SMT.
USE Zenon

-----------------------------------------------------------------------------
(* The client alone *)

\* A sequence is what its continuation begins with.
LEMMA PrefixOfConcat ==
  ASSUME NEW S, NEW s \in Seq(S), NEW t \in Seq(S)
  PROVE  Len(s) <= Len(s \o t) /\ s = SubSeq(s \o t, 1, Len(s))
<1>1. Len(s) <= Len(s \o t) /\ Len(s) \in Nat
  BY SMT, ConcatProperties, LenProperties
<1> QED
  BY SMT, <1>1, SubSeqOfConcat1, SubSeqFull, LenProperties

\* What a sequence begins with, the sequence with one element more begins with.
LEMMA PrefixOfAppend ==
  ASSUME NEW S, NEW s \in Seq(S), NEW t \in Seq(S), NEW e \in S,
         Len(s) <= Len(t), s = SubSeq(t, 1, Len(s))
  PROVE  Len(s) <= Len(Append(t, e)) /\ s = SubSeq(Append(t, e), 1, Len(s))
<1>1. Append(t, e) = t \o <<e>> /\ <<e>> \in Seq(S)
  BY SMT, AppendIsConcat
<1>2. Len(s) \in Nat /\ Len(t) \in Nat
  BY LenProperties
<1>3. SubSeq(t \o <<e>>, 1, Len(s)) = SubSeq(t, 1, Len(s))
  BY SMT, <1>1, <1>2, SubSeqOfConcat1
<1> QED
  BY SMT, <1>1, <1>2, <1>3, ConcatProperties

\* A sequence is its head followed by its tail.
LEMMA HeadOfConcat ==
  ASSUME NEW S, NEW s \in Seq(S), s # << >>
  PROVE  /\ Head(s) \in S /\ Tail(s) \in Seq(S)
         /\ s = <<Head(s)>> \o Tail(s)
<1>1. /\ Head(s) \in S /\ Tail(s) \in Seq(S) /\ Head(s) = s[1]
      /\ Len(s) \in Nat /\ Len(Tail(s)) = Len(s) - 1
      /\ \A i \in 1 .. Len(Tail(s)) : Tail(s)[i] = s[i + 1]
  BY SMT, HeadTailProperties, LenProperties
<1>2. <<Head(s)>> \in Seq(S) /\ Len(<<Head(s)>>) = 1 /\ <<Head(s)>>[1] = Head(s)
  BY SMT, <1>1
<1> DEFINE t == <<Head(s)>> \o Tail(s)
<1>3. /\ t \in Seq(S) /\ Len(t) = Len(s)
      /\ \A i \in 1 .. Len(t) : t[i] = IF i <= 1 THEN <<Head(s)>>[i] ELSE Tail(s)[i - 1]
  BY SMT, <1>1, <1>2, ConcatProperties
<1>4. ASSUME NEW i \in 1 .. Len(s) PROVE t[i] = s[i]
  BY SMT, <1>1, <1>2, <1>3
<1> HIDE DEF t
<1>5. s = t
  BY <1>3, <1>4, SeqEqual
<1> QED
  BY <1>1, <1>5 DEF t

\* The inductive invariant.  SendMsgLoop holds a message exactly where it writes.
IInv ==
  /\ TypeOK
  /\ loop = "write" => held \in Msgs
  /\ QueueConserved /\ WrittenInOrder /\ OnlineHasWriter

\* Every step keeps the variables in their types.
LEMMA SendTypeStep ==
  ASSUME IInv, [Next]_vars
  PROVE  TypeOK' /\ (loop = "write" => held \in Msgs)'
<1> USE DEF TypeOK, IInv, sockVars, chanVars, loopVars, Close, Return
<1>1. ASSUME NEW m \in Msgs, SafeSendMsg(m, "sync") \/ SafeSendMsg(m, "async")
      PROVE  TypeOK' /\ (loop = "write" => held \in Msgs)'
  BY <1>1 DEF SafeSendMsg
<1>2. ASSUME NEW m \in Msgs, SendStep(m)
      PROVE  TypeOK' /\ (loop = "write" => held \in Msgs)'
  <2>1. CASE SyncWrite(m) \/ SendFull(m) \/ SendRecover(m)
    BY <2>1 DEF SyncWrite, SendFull, SendRecover
  <2>2. CASE AsyncSend(m)
    <3>1. sendChan' \in Seq(Msgs) /\ queued' \in Seq(Msgs)
      <4>1. Append(sendChan, m) \in Seq(Msgs) /\ Append(queued, m) \in Seq(Msgs)
        BY AppendProperties
      <4> QED
        BY <2>2, <4>1, Zenon DEF AsyncSend
    <3>2. pc' \in [Msgs -> {"new", "sync", "async", "full", "panic", "done"}]
      BY <2>2 DEF AsyncSend
    <3> QED
      BY <2>2, <3>1, <3>2 DEF AsyncSend
  <2> QED
    BY <1>2, <2>1, <2>2 DEF SendStep
<1>3. CASE LoopStep
  <2>1. CASE LoopReceive
    <3>1. sendChan' \in Seq(Msgs) /\ held' \in Msgs \cup {Nil}
          /\ (loop' = "write" => held' \in Msgs)
      BY <2>1, HeadTailProperties, ZenonT(40) DEF LoopReceive
    <3> QED
      BY <2>1, <3>1 DEF LoopReceive
  <2>2. CASE LoopWrite
    <3>1. wire' \in Seq(Msgs)
      <4>1. held \in Msgs
        BY <2>2 DEF LoopWrite
      <4>2. Append(wire, held) \in Seq(Msgs)
        BY <4>1, AppendProperties
      <4> QED
        BY <2>2, <4>2, Zenon DEF LoopWrite
    <3> QED
      BY <2>2, <3>1 DEF LoopWrite
  <2>3. CASE LoopClose
    BY <2>3 DEF LoopClose
  <2> QED
    BY <1>3, <2>1, <2>2, <2>3 DEF LoopStep
<1>4. CASE ReaderStep \/ SocketFails
  BY <1>4 DEF ReaderStep, OnClose, CloseSendChan, SocketFails
<1>5. CASE UNCHANGED vars
  BY <1>5 DEF vars
<1> QED
  BY <1>1, <1>2, <1>3, <1>4, <1>5 DEF Next

\* A step that leaves the queue, the writer and the histories alone keeps the
\* two statements about them.
LEMMA SendQuiet ==
  ASSUME IInv, UNCHANGED <<sendChan, loop, held, queued, wire>>
  PROVE  QueueConserved' /\ WrittenInOrder'
BY DEF IInv, QueueConserved, WrittenInOrder

\* SafeSendMsg appends to the channel and to the history alike.
LEMMA AsyncKeeps ==
  ASSUME IInv, NEW m \in Msgs, AsyncSend(m)
  PROVE  QueueConserved' /\ WrittenInOrder'
<1> USE DEF IInv, TypeOK
<1>1. CASE UNCHANGED <<sendChan, queued>>
  BY <1>1, SendQuiet DEF AsyncSend, loopVars
<1>2. CASE sendChan' = Append(sendChan, m) /\ queued' = Append(queued, m)
  <2>1. WrittenInOrder'
    BY <1>2, PrefixOfAppend DEF AsyncSend, WrittenInOrder
  <2>2. QueueConserved'
    <3> DEFINE w == IF loop = "write" THEN <<held>> ELSE << >>
    <3> SUFFICES ASSUME loop \in {"range", "write"}
                 PROVE  Append(queued, m) = (wire \o w) \o Append(sendChan, m)
      BY <1>2 DEF QueueConserved, AsyncSend, loopVars
    <3>1. w \in Seq(Msgs) /\ <<m>> \in Seq(Msgs)
      BY SMT
    <3>2. queued = (wire \o w) \o sendChan /\ wire \o w \in Seq(Msgs)
      BY <3>1, ConcatProperties DEF QueueConserved
    <3> HIDE DEF w
    <3>3. Append(queued, m) = ((wire \o w) \o sendChan) \o <<m>>
      BY <3>2, AppendIsConcat
    <3>4. ((wire \o w) \o sendChan) \o <<m>> = (wire \o w) \o (sendChan \o <<m>>)
      BY SMTT(30), <3>1, <3>2, ConcatAssociative
    <3> QED
      BY <3>3, <3>4, AppendIsConcat
  <2> QED
    BY <2>1, <2>2
<1> QED
  BY <1>1, <1>2 DEF AsyncSend

\* SendMsgLoop moves the oldest message to its hand, and from there to the wire.
LEMMA LoopKeeps ==
  ASSUME IInv, LoopStep
  PROVE  QueueConserved' /\ WrittenInOrder'
<1> USE DEF IInv, TypeOK
<1>1. CASE LoopReceive
  <2>1. WrittenInOrder'
    BY <1>1 DEF LoopReceive, WrittenInOrder
  <2>2. CASE sendChan # << >> /\ loop' = "write" /\ held' = Head(sendChan)
             /\ sendChan' = Tail(sendChan)
    <3>1. queued = (wire \o << >>) \o sendChan
      BY <1>1 DEF LoopReceive, QueueConserved
    <3>2. /\ Head(sendChan) \in Msgs /\ Tail(sendChan) \in Seq(Msgs)
          /\ sendChan = <<Head(sendChan)>> \o Tail(sendChan)
      BY <2>2, HeadOfConcat
    <3>3. queued = wire \o (<<Head(sendChan)>> \o Tail(sendChan))
      BY <3>1, <3>2, ConcatEmptySeq
    <3>4. queued = (wire \o <<Head(sendChan)>>) \o Tail(sendChan)
      BY SMT, <3>2, <3>3, ConcatAssociative
    <3> QED
      BY <1>1, <2>1, <2>2, <3>4 DEF LoopReceive, QueueConserved
  <2> QED
    BY <1>1, <2>1, <2>2 DEF LoopReceive, QueueConserved
<1>2. CASE LoopWrite
  <2>1. queued = (wire \o <<held>>) \o sendChan /\ held \in Msgs
    BY <1>2 DEF LoopWrite, QueueConserved
  <2>2. CASE wire' = Append(wire, held) /\ loop' = "range"
    <3>1. wire' = wire \o <<held>> /\ wire' \in Seq(Msgs)
      BY SMT, <2>1, <2>2, AppendIsConcat, AppendProperties
    <3>2. queued = (wire' \o << >>) \o sendChan
      BY <2>1, <3>1, ConcatEmptySeq
    <3>3. Len(wire') <= Len(queued) /\ wire' = SubSeq(queued, 1, Len(wire'))
      BY <2>1, <3>1, PrefixOfConcat
    <3> QED
      BY <1>2, <2>2, <3>2, <3>3 DEF LoopWrite, chanVars, QueueConserved, WrittenInOrder
  <2> QED
    BY <1>2, <2>2 DEF LoopWrite, QueueConserved, WrittenInOrder
<1>3. CASE LoopClose
  BY <1>3 DEF LoopClose, QueueConserved, WrittenInOrder
<1> QED
  BY <1>1, <1>2, <1>3 DEF LoopStep

\* Only the last step of SendMsgLoop ends it, and that step closes the client.
LEMMA WriterKeeps ==
  ASSUME IInv, [Next]_vars
  PROVE  OnlineHasWriter'
<1> USE DEF IInv, TypeOK, OnlineHasWriter, sockVars, loopVars, Close
<1>1. ASSUME NEW m \in Msgs,
             SafeSendMsg(m, "sync") \/ SafeSendMsg(m, "async") \/ SendStep(m)
      PROVE  OnlineHasWriter'
  BY <1>1 DEF SafeSendMsg, SendStep, SyncWrite, AsyncSend, SendFull, SendRecover
<1>2. CASE LoopStep
  BY <1>2 DEF LoopStep, LoopReceive, LoopWrite, LoopClose
<1>3. CASE ReaderStep \/ SocketFails
  BY <1>3 DEF ReaderStep, OnClose, CloseSendChan, SocketFails
<1>4. CASE UNCHANGED vars
  BY <1>4 DEF vars
<1> QED
  BY <1>1, <1>2, <1>3, <1>4 DEF Next

\* The invariant holds at the start and is kept by every step of the client.
THEOREM SendInvariant == Spec => []IInv
<1>1. Init => IInv
  <2> SUFFICES ASSUME Init PROVE IInv
    OBVIOUS
  <2>1. TypeOK
    BY ClientSendAssumption, EmptySeq DEF Init, TypeOK
  <2>2. QueueConserved /\ WrittenInOrder
    <3>1. << >> \in Seq(Msgs) /\ << >> \o << >> = << >>
      BY SMT, ConcatEmptySeq
    <3>2. Len(<< >>) <= Len(<< >>) /\ << >> = SubSeq(<< >>, 1, Len(<< >>))
      BY <3>1, PrefixOfConcat
    <3> QED
      BY <3>1, <3>2 DEF Init, QueueConserved, WrittenInOrder
  <2> QED
    BY <2>1, <2>2 DEF Init, IInv, OnlineHasWriter
<1>2. IInv /\ [Next]_vars => IInv'
  <2> SUFFICES ASSUME IInv, [Next]_vars PROVE QueueConserved' /\ WrittenInOrder'
    BY SendTypeStep, WriterKeeps DEF IInv
  <2>1. ASSUME NEW m \in Msgs, SafeSendMsg(m, "sync") \/ SafeSendMsg(m, "async")
        PROVE  QueueConserved' /\ WrittenInOrder'
    BY <2>1, SendQuiet DEF SafeSendMsg, chanVars, loopVars
  <2>2. ASSUME NEW m \in Msgs, SyncWrite(m) \/ SendFull(m) \/ SendRecover(m)
        PROVE  QueueConserved' /\ WrittenInOrder'
    BY <2>2, SendQuiet DEF SyncWrite, SendFull, SendRecover, chanVars, loopVars
  <2>3. ASSUME NEW m \in Msgs, AsyncSend(m) PROVE QueueConserved' /\ WrittenInOrder'
    BY <2>3, AsyncKeeps
  <2>4. CASE LoopStep
    BY <2>4, LoopKeeps
  <2>5. CASE ReaderStep \/ SocketFails
    BY <2>5, SendQuiet
    DEF ReaderStep, OnClose, CloseSendChan, SocketFails, chanVars, loopVars
  <2>6. CASE UNCHANGED vars
    BY <2>6, SendQuiet DEF vars
  <2> QED
    BY <2>1, <2>2, <2>3, <2>4, <2>5, <2>6 DEF Next, SendStep
<1> QED
  BY <1>1, <1>2, PTL DEF Spec

-----------------------------------------------------------------------------
(* The push path *)

\* What the workers took is in their hands or was dealt with by SafeSendMsg.
TakenCared == \A i \in DOMAIN taken : taken[i] \in working \/ pc[taken[i]] = "done"

\* The inductive invariant of the queue; readSubMsg holds a message where it pushes.
QueueInv ==
  /\ Q!TypeOK
  /\ subReader \in {"push", "timed"} => payload \in Pushes
  /\ PushHasRoom
  /\ TakenCared

\* A step of the queue that concerns no client keeps the queue's types, and the
\* reader has room where it pushes without a timer: nobody else fills the channel.
LEMMA QueueStepKeeps ==
  ASSUME QueueInv, QueueStep
  PROVE  /\ Q!TypeOK' /\ PushHasRoom'
         /\ (subReader \in {"push", "timed"} => payload \in Pushes)'
<1> USE PushAssumption DEF QueueInv, Q!TypeOK, Q!Payloads, Q!chanVars, Pushes, PushHasRoom, Q!PushHasRoom
<1>1. CASE Q!Publish
  <2>1. published + 1 \in 1..MaxMsgs
    BY SMT, <1>1 DEF Q!Publish
  <2>2. Append(stream, published + 1) \in Seq(1..MaxMsgs)
    BY <2>1, AppendProperties
  <2> QED
    BY SMT, <1>1, <2>1, <2>2 DEF Q!Publish
<1>2. CASE Q!CheckContext
  BY <1>2 DEF Q!CheckContext
<1>3. CASE Q!ReceiveMessage
  <2>1. Head(stream) \in 1..MaxMsgs /\ Tail(stream) \in Seq(1..MaxMsgs)
    BY <1>3, HeadTailProperties DEF Q!ReceiveMessage
  <2>2. Append(received, Head(stream)) \in Seq(1..MaxMsgs)
    BY <2>1, AppendProperties
  <2>3. Len(MsgChan) \in Nat
    BY LenProperties
  <2>4. stream' \in Seq(1..MaxMsgs) /\ received' \in Seq(1..MaxMsgs)
    BY <1>3, <2>1, <2>2, Zenon DEF Q!ReceiveMessage
  <2>5. /\ payload' \in 1..MaxMsgs /\ UNCHANGED MsgChan
        /\ subReader' = "timed" \/ (subReader' = "push" /\ Len(MsgChan) < msgChanMaxLen)
    BY SMT, <1>3, <2>1, <2>3 DEF Q!ReceiveMessage, Q!Full
  <2> QED
    BY <1>3, <2>4, <2>5 DEF Q!ReceiveMessage
<1>4. CASE Q!ReceiveError
  <2>1. << >> \in Seq(1..MaxMsgs)
    BY SMT
  <2> QED
    BY <1>4, <2>1 DEF Q!ReceiveError
<1>5. CASE Q!PushMsg
  <2>1. Append(MsgChan, payload) \in Seq(1..MaxMsgs)
    BY <1>5, AppendProperties DEF Q!PushMsg
  <2> QED
    BY <1>5, <2>1 DEF Q!PushMsg
<1>6. CASE Q!PushTimeout
  BY <1>6 DEF Q!PushTimeout
<1>7. CASE Q!PushPanic
  BY <1>7 DEF Q!PushPanic
<1>8. CASE Q!Take
  <2>1. Head(MsgChan) \in 1..MaxMsgs /\ Tail(MsgChan) \in Seq(1..MaxMsgs)
        /\ Len(Tail(MsgChan)) = Len(MsgChan) - 1 /\ Len(MsgChan) \in Nat
    BY <1>8, HeadTailProperties, LenProperties DEF Q!Take
  <2>2. Append(taken, Head(MsgChan)) \in Seq(1..MaxMsgs)
    BY <2>1, AppendProperties
  <2>3. MsgChan' \in Seq(1..MaxMsgs) /\ taken' \in Seq(1..MaxMsgs)
    BY <1>8, <2>1, <2>2, Zenon DEF Q!Take
  <2>4. working' \subseteq 1..MaxMsgs
    BY <1>8, <2>1 DEF Q!Take
  <2>5. PushHasRoom'
    <3>1. Len(MsgChan') = Len(MsgChan) - 1 /\ subReader' = subReader
      BY <1>8, <2>1 DEF Q!Take
    <3> QED
      BY SMT, <2>1, <3>1
  <2> HIDE DEF PushHasRoom
  <2> QED
    BY <1>8, <2>3, <2>4, <2>5 DEF Q!Take
<1>9. CASE Q!Cancel
  BY <1>9 DEF Q!Cancel
<1>10. CASE Q!StopWorkerM
  BY <1>10 DEF Q!StopWorkerM
<1>11. CASE Q!RePushMsg
  <2>1. Head(MsgChan) \in 1..MaxMsgs /\ Tail(MsgChan) \in Seq(1..MaxMsgs)
        /\ Len(Tail(MsgChan)) = Len(MsgChan) - 1 /\ Len(MsgChan) \in Nat
    BY <1>11, HeadTailProperties, LenProperties DEF Q!RePushMsg
  <2>2. MsgChan' \in Seq(1..MaxMsgs) /\ dropped' \subseteq 1..MaxMsgs
    BY <1>11, <2>1 DEF Q!RePushMsg
  <2>3. PushHasRoom'
    <3>1. Len(MsgChan') = Len(MsgChan) - 1 /\ subReader' = subReader
      BY <1>11, <2>1 DEF Q!RePushMsg
    <3> QED
      BY SMT, <2>1, <3>1
  <2> HIDE DEF PushHasRoom
  <2> QED
    BY <1>11, <2>2, <2>3 DEF Q!RePushMsg
<1> QED
  BY <1>1, <1>2, <1>3, <1>4, <1>5, <1>6, <1>7, <1>8, <1>9, <1>10, <1>11
  DEF QueueStep, Q!ReaderStep

\* SafeSendMsg never starts again for a message it is done with.
LEMMA DoneStays ==
  ASSUME TypeOK, [Next]_vars, NEW m \in Msgs, pc[m] = "done"
  PROVE  pc'[m] = "done"
<1> USE DEF TypeOK, Return
<1>1. ASSUME NEW k \in Msgs,
             SafeSendMsg(k, "sync") \/ SafeSendMsg(k, "async") \/ SendStep(k)
      PROVE  pc'[m] = "done"
  BY <1>1 DEF SafeSendMsg, SendStep, SyncWrite, AsyncSend, SendFull, SendRecover
<1>2. CASE LoopStep \/ ReaderStep \/ SocketFails
  BY <1>2 DEF LoopStep, LoopReceive, LoopWrite, LoopClose, ReaderStep, OnClose,
              CloseSendChan, SocketFails
<1>3. CASE UNCHANGED vars
  BY <1>3 DEF vars
<1> QED
  BY <1>1, <1>2, <1>3 DEF Next

\* For its client, every step of the node is a step of ClientSend or none.
LEMMA PushStepIsClientStep ==
  ASSUME [PushNext]_pushVars
  PROVE  [Next]_vars
<1> USE PushAssumption
<1>1. CASE QueueStep
  BY <1>1 DEF QueueStep
<1>2. CASE ClientStep
  BY <1>2 DEF ClientStep, Next, Others
<1>3. ASSUME NEW m \in Pushes, HandleStarts(m) \/ HandleReturns(m) PROVE [Next]_vars
  BY <1>3 DEF HandleStarts, HandleReturns, Next
<1>4. CASE UNCHANGED pushVars
  BY <1>4 DEF pushVars
<1> QED
  BY <1>1, <1>2, <1>3, <1>4 DEF PushNext

\* The push path uses the client only as ClientSend allows: its behaviours are
\* behaviours of ClientSend, whatever readSubMsg and the workers do.
THEOREM PushDrivesClient == PushSpec => Spec
<1>1. PushInit => Init
  BY DEF PushInit
<1>2. [PushNext]_pushVars => [Next]_vars
  BY PushStepIsClientStep
<1> QED
  BY <1>1, <1>2, PTL DEF PushSpec, Spec

\* The workers' part of the invariant: a worker lets go of a message only after
\* SafeSendMsg has returned.
LEMMA CaredKeeps ==
  ASSUME TypeOK, QueueInv, [PushNext]_pushVars
  PROVE  TakenCared'
<1> USE PushAssumption DEF QueueInv, Q!TypeOK, Q!Payloads, Pushes
<1>0. \A m \in 1..MaxMsgs : pc[m] = "done" => pc'[m] = "done"
  BY PushStepIsClientStep, DoneStays
<1>1. CASE Q!Take /\ QueueStep
  <2>1. Head(MsgChan) \in 1..MaxMsgs
    BY <1>1, HeadTailProperties DEF Q!Take
  <2>2. /\ Len(taken') = Len(taken) + 1 /\ Len(taken) \in Nat
        /\ taken' \in Seq(1..MaxMsgs)
        /\ \A i \in 1..Len(taken) : taken'[i] = taken[i]
        /\ taken'[Len(taken) + 1] = Head(MsgChan)
    BY SMT, <1>1, <2>1, AppendProperties DEF Q!Take
  <2>3. DOMAIN taken' = 1..(Len(taken) + 1) /\ DOMAIN taken = 1..Len(taken)
        /\ \A i \in 1..Len(taken) : taken[i] \in 1..MaxMsgs
    BY <2>2, LenProperties, ElementOfSeq
  <2> SUFFICES ASSUME NEW i \in 1..(Len(taken) + 1)
               PROVE  taken'[i] \in working' \/ pc'[taken'[i]] = "done"
    BY <2>3 DEF TakenCared
  <2>4. CASE i \in 1..Len(taken)
    BY <1>0, <1>1, <2>2, <2>3, <2>4 DEF TakenCared, Q!Take
  <2>5. CASE i = Len(taken) + 1
    BY <1>1, <2>2, <2>5 DEF Q!Take
  <2> QED
    BY SMT, <2>2, <2>4, <2>5
<1>2. ASSUME UNCHANGED taken,
             \A m \in 1..MaxMsgs : m \in working => m \in working' \/ pc'[m] = "done"
      PROVE  TakenCared'
  <2>1. \A i \in DOMAIN taken : taken[i] \in 1..MaxMsgs
    BY ElementOfSeq, LenProperties
  <2> QED
    BY <1>0, <1>2, <2>1 DEF TakenCared
<1>3. CASE QueueStep /\ ~Q!Take
  BY <1>2, <1>3
  DEF QueueStep, Q!ReaderStep, Q!CheckContext, Q!ReceiveMessage, Q!ReceiveError, Q!PushMsg,
      Q!PushTimeout, Q!PushPanic, Q!Publish, Q!Cancel, Q!StopWorkerM, Q!RePushMsg
<1>4. CASE ClientStep
  BY <1>2, <1>4 DEF ClientStep, queueVars
<1>5. ASSUME NEW m \in Pushes, HandleStarts(m) PROVE TakenCared'
  BY <1>2, <1>5 DEF HandleStarts, queueVars
<1>6. ASSUME NEW m \in Pushes, HandleReturns(m) PROVE TakenCared'
  BY <1>0, <1>2, <1>6 DEF HandleReturns, Q!HandleSubMsg
<1>7. CASE UNCHANGED pushVars
  BY <1>2, <1>7 DEF pushVars, queueVars
<1> QED
  BY <1>1, <1>3, <1>4, <1>5, <1>6, <1>7 DEF PushNext

\* The queue's invariant holds along the push path.
THEOREM PushInvariant == PushSpec => [](TypeOK /\ QueueInv)
<1>1. PushInit => QueueInv
  <2> SUFFICES ASSUME PushInit PROVE QueueInv
    OBVIOUS
  <2>1. Q!TypeOK
    <3>1. << >> \in Seq(1..MaxMsgs) /\ 0 \in 0..MaxMsgs
      BY SMT, PushAssumption
    <3> QED
      BY <3>1 DEF PushInit, Q!Init, Q!TypeOK, Q!Payloads
  <2>2. taken = << >> /\ subReader = "top"
    BY DEF PushInit, Q!Init
  <2> QED
    BY SMT, <2>1, <2>2 DEF QueueInv, PushHasRoom, Q!PushHasRoom, TakenCared
<1>2. TypeOK /\ QueueInv /\ [PushNext]_pushVars => QueueInv'
  <2> SUFFICES ASSUME TypeOK, QueueInv, [PushNext]_pushVars
               PROVE  /\ Q!TypeOK' /\ PushHasRoom'
                      /\ (subReader \in {"push", "timed"} => payload \in Pushes)'
    BY CaredKeeps DEF QueueInv
  <2>1. CASE QueueStep
    BY <2>1, QueueStepKeeps
  <2>2. CASE UNCHANGED queueVars
    BY <2>2 DEF QueueInv, queueVars, Q!TypeOK, PushHasRoom, Q!PushHasRoom
  <2>3. ASSUME NEW m \in Pushes, HandleReturns(m)
        PROVE  /\ Q!TypeOK' /\ PushHasRoom'
               /\ (subReader \in {"push", "timed"} => payload \in Pushes)'
    BY <2>3 DEF HandleReturns, Q!HandleSubMsg, Q!chanVars, QueueInv, Q!TypeOK, Q!Payloads, Pushes,
                PushHasRoom, Q!PushHasRoom
  <2> QED
    BY <2>1, <2>2, <2>3 DEF PushNext, ClientStep, HandleStarts, pushVars
<1>3. PushSpec => []TypeOK
  <2>1. IInv => TypeOK
    BY DEF IInv
  <2> QED
    BY <2>1, PushDrivesClient, SendInvariant, PTL
<1> QED
  BY <1>1, <1>2, <1>3, PTL DEF PushSpec

-----------------------------------------------------------------------------
\* The variables of queue and client keep their types.
THEOREM PushTypesHold == PushSpec => []PushTypeOK
<1>1. TypeOK /\ QueueInv => PushTypeOK
  BY DEF PushTypeOK, QueueInv
<1> QED
  BY <1>1, PushInvariant, PTL

\* readSubMsg's PushMsg without a timer never blocks, for any capacity of MsgChan.
THEOREM PushesHaveRoom == PushSpec => []PushHasRoom
<1>1. TypeOK /\ QueueInv => PushHasRoom
  BY DEF QueueInv
<1> QED
  BY <1>1, PushInvariant, PTL

\* While SendMsgLoop runs nothing queued for the client is lost, repeated or
\* overtaken.
THEOREM SendChanConserves == PushSpec => []QueueConserved
<1>1. IInv => QueueConserved
  BY DEF IInv
<1> QED
  BY <1>1, PushDrivesClient, SendInvariant, PTL

\* The peer receives what was queued in the order it was queued.
THEOREM PeerSeesOrder == PushSpec => []WrittenInOrder
<1>1. IInv => WrittenInOrder
  BY DEF IInv
<1> QED
  BY <1>1, PushDrivesClient, SendInvariant, PTL

\* A client that counts as online has its SendMsgLoop.
THEOREM OnlineClientHasWriter == PushSpec => []OnlineHasWriter
<1>1. IInv => OnlineHasWriter
  BY DEF IInv
<1> QED
  BY <1>1, PushDrivesClient, SendInvariant, PTL

\* A push overtakes only pushes that another worker has in its hands.
THEOREM WorkersOvertakeFew == PushSpec => OvertakesFew
<1> DEFINE Step == \A m \in Pushes : queued' = Append(queued, m) =>
                     \A i, j \in DOMAIN taken :
                       i < j /\ taken[j] = m => pc[taken[i]] = "done" \/ taken[i] \in working
<1>1. TypeOK /\ QueueInv => [Step]_pushVars
  BY DEF QueueInv, TakenCared
<1>2. [][Step]_pushVars => OvertakesFew
  BY DEF OvertakesFew
<1> HIDE DEF Step
<1> QED
  BY <1>1, <1>2, PushInvariant, PTL

-----------------------------------------------------------------------------
(* The order of the pushes from Redis to the workers *)

\* A message after all others of a sequence extends it in order.
LEMMA ExtendLine ==
  ASSUME NEW s \in Seq(Pushes), NEW e \in Pushes
  PROVE  LET t == s \o <<e>> IN
         /\ t \in Seq(Pushes)
         /\ Q!Elems(t) = Q!Elems(s) \cup {e}
         /\ Q!Increasing(t) <=> Q!Increasing(s) /\ \A x \in Q!Elems(s) : x < e
<1> DEFINE t == s \o <<e>>
<1>1. <<e>> \in Seq(Pushes) /\ Len(<<e>>) = 1 /\ <<e>>[1] = e
  BY SMT
<1>2. /\ t \in Seq(Pushes) /\ Len(t) = Len(s) + 1 /\ Len(s) \in Nat
      /\ \A i \in 1..(Len(s) + 1) : t[i] = IF i <= Len(s) THEN s[i] ELSE <<e>>[i - Len(s)]
  BY SMT, <1>1, ConcatProperties, LenProperties
<1>3. /\ \A i \in 1..Len(s) : t[i] = s[i]
      /\ t[Len(s) + 1] = e
  BY SMT, <1>1, <1>2
<1>4. DOMAIN t = 1..(Len(s) + 1) /\ DOMAIN s = 1..Len(s)
  BY <1>2, LenProperties
<1> HIDE DEF t
<1>5. /\ \A i \in 1..(Len(s) + 1) : i \in 1..Len(s) \/ i = Len(s) + 1
      /\ \A i \in 1..Len(s) : i \in 1..(Len(s) + 1)
      /\ Len(s) + 1 \in 1..(Len(s) + 1)
  BY SMT, <1>2
<1>6. Q!Elems(t) = Q!Elems(s) \cup {e}
  BY <1>3, <1>4, <1>5 DEF Q!Elems
<1>7. ASSUME Q!Increasing(t) PROVE Q!Increasing(s) /\ \A x \in Q!Elems(s) : x < e
  BY SMT, <1>2, <1>3, <1>4, <1>7 DEF Q!Elems, Q!Increasing
<1>8. ASSUME Q!Increasing(s), \A x \in Q!Elems(s) : x < e PROVE Q!Increasing(t)
  BY SMT, <1>2, <1>3, <1>4, <1>8 DEF Q!Elems, Q!Increasing
<1> QED
  BY <1>2, <1>6, <1>7, <1>8 DEF t

\* A sequence without its head keeps the order, and the head came before the rest.
LEMMA ShortenStream ==
  ASSUME NEW s \in Seq(Pushes), s # << >>, Q!Increasing(s)
  PROVE  /\ Head(s) \in Q!Elems(s) /\ Head(s) \in Pushes
         /\ Tail(s) \in Seq(Pushes) /\ Q!Increasing(Tail(s))
         /\ Q!Elems(Tail(s)) \subseteq Q!Elems(s)
         /\ \A x \in Q!Elems(Tail(s)) : Head(s) < x
<1>1. /\ Head(s) \in Pushes /\ Tail(s) \in Seq(Pushes) /\ Head(s) = s[1]
      /\ Len(s) \in Nat /\ Len(Tail(s)) = Len(s) - 1 /\ Len(s) > 0
      /\ \A i \in 1 .. Len(Tail(s)) : Tail(s)[i] = s[i + 1]
  BY SMT, HeadTailProperties, LenProperties, EmptySeq
<1>2. DOMAIN s = 1..Len(s) /\ DOMAIN Tail(s) = 1..(Len(s) - 1)
  BY <1>1, LenProperties
<1>3. ASSUME NEW i \in 1..(Len(s) - 1)
      PROVE  i + 1 \in 1..Len(s) /\ 1 < i + 1 /\ Tail(s)[i] = s[i + 1]
  BY SMT, <1>1, <1>3
<1>4. 1 \in DOMAIN s
  BY SMT, <1>1, <1>2
<1>5. Q!Elems(Tail(s)) \subseteq Q!Elems(s)
  BY <1>2, <1>3 DEF Q!Elems
<1>6. \A x \in Q!Elems(Tail(s)) : Head(s) < x
  BY <1>1, <1>2, <1>3, <1>4 DEF Q!Elems, Q!Increasing
<1>7. Q!Increasing(Tail(s))
  BY SMT, <1>1, <1>2 DEF Q!Increasing
<1> QED
  BY <1>1, <1>4, <1>5, <1>6, <1>7 DEF Q!Elems

\* For the queue, every step of the node is a step of ProxyQueue or none.
LEMMA PushStepIsQueueStep ==
  ASSUME [PushNext]_pushVars
  PROVE  [Q!Next]_(Q!vars)
<1>1. CASE QueueStep
  BY <1>1 DEF QueueStep, Q!Next
<1>2. CASE UNCHANGED queueVars
  BY <1>2 DEF queueVars, Q!vars
<1>3. ASSUME NEW m \in Pushes, HandleReturns(m) PROVE [Q!Next]_(Q!vars)
  BY <1>3 DEF HandleReturns, Q!Next, Q!Payloads, Pushes
<1> QED
  BY <1>1, <1>2, <1>3 DEF PushNext, ClientStep, HandleStarts, pushVars

\* The push path uses the queue only as ProxyQueue allows, whatever the client does.
THEOREM PushDrivesQueue == PushSpec => Q!Spec
<1>1. PushInit => Q!Init
  BY DEF PushInit
<1>2. [PushNext]_pushVars => [Q!Next]_(Q!vars)
  BY PushStepIsQueueStep
<1> QED
  BY <1>1, <1>2, PTL DEF PushSpec, Q!Spec

\* What is received was published, and before what is still to be received.
StreamInv ==
  /\ Q!Increasing(stream)
  /\ \A x \in Q!Elems(stream) : x <= published
  /\ \A x \in Q!Elems(received) : x <= published /\ \A y \in Q!Elems(stream) : x < y

\* The inductive invariant behind TakenInOrder.
OrderInv ==
  /\ StreamInv
  /\ subReader \notin {"push", "timed"} => payload = Nil
  /\ ~MsgChanClosed => dropped \subseteq Q!Elems(received)
  /\ TakenInOrder

\* Messages are published with increasing numbers, and received in that order.
LEMMA StreamKeeps ==
  ASSUME Q!TypeOK, StreamInv, [Q!Next]_(Q!vars)
  PROVE  StreamInv'
<1> USE PushAssumption DEF Q!TypeOK, Q!Payloads, Pushes
<1>0. /\ \A x \in Q!Elems(stream) : x \in Pushes
      /\ \A x \in Q!Elems(received) : x \in Pushes
      /\ published \in Nat
  BY SMT, ElementOfSeq, LenProperties DEF Q!Elems
<1>1. CASE Q!Publish
  <2>1. published + 1 \in Pushes /\ published' = published + 1 /\ UNCHANGED received
    BY SMT, <1>1 DEF Q!Publish
  <2>2. stream' = stream \o <<published + 1>>
    BY <1>1, <2>1, AppendIsConcat DEF Q!Publish
  <2>3. \A x \in Q!Elems(stream) \cup Q!Elems(received) : x < published + 1 /\ x <= published + 1
    BY SMT, <1>0 DEF StreamInv
  <2>4. Q!Elems(stream') = Q!Elems(stream) \cup {published + 1} /\ Q!Increasing(stream')
    BY <2>1, <2>2, <2>3, ExtendLine DEF StreamInv
  <2>5. published + 1 <= published + 1
    BY SMT, <1>0
  <2> QED
    BY <2>1, <2>3, <2>4, <2>5 DEF StreamInv
<1>2. CASE Q!ReceiveMessage
  <2> DEFINE h == Head(stream)
  <2>1. /\ h \in Q!Elems(stream) /\ h \in Pushes /\ Q!Increasing(Tail(stream))
        /\ Q!Elems(Tail(stream)) \subseteq Q!Elems(stream)
        /\ \A x \in Q!Elems(Tail(stream)) : h < x
    BY <1>2, ShortenStream DEF Q!ReceiveMessage, StreamInv
  <2>2. stream' = Tail(stream) /\ received' = received \o <<h>> /\ UNCHANGED published
    BY <1>2, <2>1, AppendIsConcat DEF Q!ReceiveMessage
  <2> HIDE DEF h
  <2>3. Q!Elems(received') = Q!Elems(received) \cup {h}
    BY <2>1, <2>2, ExtendLine
  <2> QED
    BY <2>1, <2>2, <2>3 DEF StreamInv
<1>3. ASSUME stream' = << >>, UNCHANGED <<published, received>> PROVE StreamInv'
  BY SMT, <1>3 DEF StreamInv, Q!Elems, Q!Increasing
<1>4. ASSUME UNCHANGED <<stream, published, received>> PROVE StreamInv'
  BY <1>4 DEF StreamInv
<1>5. CASE Q!ReceiveError
  BY <1>3, <1>4, <1>5 DEF Q!ReceiveError
<1>6. ASSUME NEW m \in Q!Payloads, Q!HandleSubMsg(m) PROVE StreamInv'
  BY <1>4, <1>6 DEF Q!HandleSubMsg
<1>7. CASE Q!CheckContext \/ Q!PushMsg \/ Q!PushTimeout \/ Q!PushPanic \/ Q!Take \/ Q!Cancel
           \/ Q!StopWorkerM \/ Q!RePushMsg \/ UNCHANGED Q!vars
  BY <1>4, <1>7
  DEF Q!CheckContext, Q!PushMsg, Q!PushTimeout, Q!PushPanic, Q!Take, Q!Cancel, Q!StopWorkerM,
      Q!RePushMsg, Q!vars
<1> QED
  BY <1>1, <1>2, <1>5, <1>6, <1>7 DEF Q!Next, Q!ReaderStep

\* The reader holds a message only where it pushes it.
LEMMA HeldKeeps ==
  ASSUME OrderInv, [Q!Next]_(Q!vars)
  PROVE  (subReader \notin {"push", "timed"} => payload = Nil)'
<1> USE DEF OrderInv
<1>1. ASSUME NEW m \in Q!Payloads, Q!HandleSubMsg(m) PROVE UNCHANGED <<subReader, payload>>
  BY <1>1 DEF Q!HandleSubMsg
<1>2. CASE Q!ReaderStep \/ Q!ReceiveError
  BY <1>2 DEF Q!ReaderStep, Q!CheckContext, Q!ReceiveMessage, Q!ReceiveError, Q!PushMsg,
              Q!PushTimeout, Q!PushPanic
<1>3. CASE Q!Publish \/ Q!Take \/ Q!Cancel \/ Q!StopWorkerM \/ Q!RePushMsg \/ UNCHANGED Q!vars
  BY <1>3 DEF Q!Publish, Q!Take, Q!Cancel, Q!StopWorkerM, Q!RePushMsg, Q!vars
<1> QED
  BY <1>1, <1>2, <1>3 DEF Q!Next

\* A received message joins the end of the line, a timeout takes it from there, and
\* PushMsg and the workers move the line on.
LEMMA LineKeeps ==
  ASSUME Q!TypeOK, subReader \in {"push", "timed"} => payload \in Pushes,
         OrderInv, [Q!Next]_(Q!vars), ~MsgChanClosed'
  PROVE  dropped' \subseteq Q!Elems(received') /\ TakenInOrder'
<1> USE PushAssumption, ClientSendAssumption DEF Q!Payloads
<1> DEFINE P == taken \o MsgChan
           H == IF payload = Nil THEN << >> ELSE <<payload>>
<1>0. ~MsgChanClosed
  BY DEF Q!Next, Q!ReaderStep, Q!CheckContext, Q!ReceiveMessage, Q!ReceiveError, Q!PushMsg,
         Q!PushTimeout, Q!PushPanic, Q!Publish, Q!Take, Q!Cancel, Q!StopWorkerM, Q!RePushMsg,
         Q!HandleSubMsg, Q!chanVars, Q!vars
<1>1. /\ dropped \subseteq Q!Elems(received)
      /\ Q!Elems(Q!Line) = Q!Elems(received) \ dropped /\ Q!Increasing(Q!Line)
      /\ Q!Line = P \o H
  BY <1>0 DEF OrderInv, TakenInOrder, Q!TakenInOrder, Q!Line
<1>2. taken \in Seq(Pushes) /\ MsgChan \in Seq(Pushes) /\ P \in Seq(Pushes)
  BY ConcatProperties DEF Q!TypeOK, Pushes
<1>3. P \o << >> = P
  BY <1>2, ConcatEmptySeq
<1>4. Q!Line' = (taken' \o MsgChan') \o H'
  BY DEF Q!Line
<1>5. ASSUME Q!Line' = Q!Line, UNCHANGED <<received, dropped>>
      PROVE  dropped' \subseteq Q!Elems(received') /\ TakenInOrder'
  BY <1>1, <1>5 DEF TakenInOrder, Q!TakenInOrder
<1> HIDE DEF P
<1>6. CASE Q!ReceiveMessage
  <2> DEFINE h == Head(stream)
  <2>1. h \in Pushes /\ h \in Q!Elems(stream)
    BY <1>6, ShortenStream DEF Q!ReceiveMessage, Q!TypeOK, OrderInv, StreamInv, Pushes
  <2>2. payload = Nil /\ payload' = h /\ h # Nil /\ UNCHANGED <<taken, MsgChan, dropped>>
    BY <1>6, <2>1 DEF Q!ReceiveMessage, Q!chanVars, OrderInv
  <2>3. received' = received \o <<h>>
    BY <1>6, <2>1, AppendIsConcat DEF Q!ReceiveMessage, Q!TypeOK, Pushes
  <2> HIDE DEF h
  <2>4. Q!Line = P /\ Q!Line' = P \o <<h>>
    BY <1>1, <1>3, <1>4, <2>2 DEF P
  <2>5. \A x \in Q!Elems(received) : x < h
    BY <2>1 DEF OrderInv, StreamInv
  <2>6. /\ Q!Elems(received') = Q!Elems(received) \cup {h}
        /\ Q!Elems(Q!Line') = Q!Elems(P) \cup {h}
        /\ Q!Increasing(P \o <<h>>) <=> Q!Increasing(P) /\ \A x \in Q!Elems(P) : x < h
    BY <1>2, <2>1, <2>3, <2>4, ExtendLine DEF Q!TypeOK, Pushes
  <2>7. h \notin Q!Elems(received)
    BY SMT, <2>1, <2>5 DEF Pushes
  <2>8. Q!Increasing(Q!Line')
    BY <1>1, <2>4, <2>5, <2>6
  <2>9. Q!Elems(Q!Line') = Q!Elems(received') \ dropped'
    BY <1>1, <2>2, <2>4, <2>6, <2>7
  <2> QED
    BY <1>1, <2>2, <2>6, <2>8, <2>9 DEF TakenInOrder, Q!TakenInOrder
<1>7. CASE Q!PushMsg
  <2>1. payload \in Pushes /\ payload # Nil /\ payload' = Nil
    BY <1>7 DEF Q!PushMsg, Pushes
  <2>2. MsgChan' = MsgChan \o <<payload>> /\ UNCHANGED <<taken, received, dropped>>
    BY <1>2, <1>7, <2>1, AppendIsConcat DEF Q!PushMsg
  <2>3. <<payload>> \in Seq(Pushes)
    BY SMT, <2>1
  <2>4. taken \o (MsgChan \o <<payload>>) = P \o <<payload>>
    BY SMT, <1>2, <2>3, ConcatAssociative DEF P
  <2>5. P \o <<payload>> \in Seq(Pushes)
    BY <1>2, <2>3, ConcatProperties
  <2>6. Q!Line' = Q!Line
    BY <1>1, <1>4, <2>1, <2>2, <2>4, <2>5, ConcatEmptySeq
  <2> QED
    BY <1>5, <2>2, <2>6
<1>8. CASE Q!PushTimeout
  <2>1. payload \in Pushes /\ payload # Nil /\ payload' = Nil
    BY <1>8 DEF Q!PushTimeout, Pushes
  <2>2. dropped' = dropped \cup {payload} /\ UNCHANGED <<taken, MsgChan, received>>
    BY <1>8 DEF Q!PushTimeout, Q!chanVars
  <2>3. Q!Line = P \o <<payload>> /\ Q!Line' = P
    BY <1>1, <1>3, <1>4, <2>1, <2>2 DEF P
  <2>4. /\ Q!Elems(Q!Line) = Q!Elems(P) \cup {payload}
        /\ Q!Increasing(P) /\ \A x \in Q!Elems(P) : x < payload
    <3>1. /\ Q!Elems(P \o <<payload>>) = Q!Elems(P) \cup {payload}
          /\ Q!Increasing(P \o <<payload>>)
             <=> Q!Increasing(P) /\ \A x \in Q!Elems(P) : x < payload
      BY <1>2, <2>1, ExtendLine
    <3> QED
      BY <1>1, <2>3, <3>1
  <2>5. payload \notin Q!Elems(P)
    BY SMT, <2>1, <2>4 DEF Pushes
  <2>6. payload \in Q!Elems(received) /\ Q!Elems(P) = Q!Elems(received) \ dropped'
    BY <1>1, <2>2, <2>4, <2>5
  <2> QED
    BY <1>1, <2>2, <2>3, <2>4, <2>6 DEF TakenInOrder, Q!TakenInOrder
<1>9. CASE Q!Take
  <2> DEFINE h == Head(MsgChan)
  <2>1. h \in Pushes /\ Tail(MsgChan) \in Seq(Pushes) /\ MsgChan = <<h>> \o Tail(MsgChan)
    BY <1>2, <1>9, HeadOfConcat DEF Q!Take
  <2>2. taken' = taken \o <<h>> /\ MsgChan' = Tail(MsgChan) /\ UNCHANGED <<payload, received, dropped>>
    BY <1>2, <1>9, <2>1, AppendIsConcat DEF Q!Take
  <2>3. <<h>> \in Seq(Pushes)
    BY SMT, <2>1
  <2> HIDE DEF h
  <2>4. (taken \o <<h>>) \o Tail(MsgChan) = taken \o (<<h>> \o Tail(MsgChan))
    BY SMT, <1>2, <2>1, <2>3, ConcatAssociative
  <2>5. Q!Line' = Q!Line
    BY <1>1, <1>4, <2>1, <2>2, <2>4 DEF P
  <2> QED
    BY <1>5, <2>2, <2>5
<1>10. ASSUME UNCHANGED <<taken, MsgChan, payload, received, dropped>>
       PROVE  dropped' \subseteq Q!Elems(received') /\ TakenInOrder'
  BY <1>1, <1>4, <1>5, <1>10 DEF P
<1>11. ASSUME NEW m \in Q!Payloads, Q!HandleSubMsg(m)
       PROVE  UNCHANGED <<taken, MsgChan, payload, received, dropped>>
  BY <1>11 DEF Q!HandleSubMsg, Q!chanVars
<1>12. CASE Q!CheckContext \/ Q!ReceiveError \/ Q!Publish \/ Q!Cancel \/ Q!StopWorkerM
            \/ UNCHANGED Q!vars
  BY <1>10, <1>12 DEF Q!CheckContext, Q!ReceiveError, Q!Publish, Q!Cancel, Q!StopWorkerM,
                      Q!chanVars, Q!vars
<1>13. CASE Q!PushPanic \/ Q!RePushMsg
  BY <1>0, <1>13 DEF Q!PushPanic, Q!RePushMsg
<1> QED
  BY <1>6, <1>7, <1>8, <1>9, <1>10, <1>11, <1>12, <1>13 DEF Q!Next, Q!ReaderStep

\* Until the shutdown the workers take, for any number of messages and workers and
\* any capacity, what readSubMsg received and did not drop, in the order of
\* publication and each message once.
THEOREM WorkersTakeInOrder == PushSpec => []TakenInOrder
<1>1. PushInit => OrderInv
  <2> SUFFICES ASSUME PushInit PROVE OrderInv
    OBVIOUS
  <2>1. /\ stream = << >> /\ received = << >> /\ taken = << >> /\ MsgChan = << >>
        /\ payload = Nil /\ dropped = {}
    BY DEF PushInit, Q!Init
  <2>2. StreamInv
    BY SMT, <2>1 DEF StreamInv, Q!Elems, Q!Increasing
  <2>3. Q!Line = << >> \o << >> \o << >>
    BY <2>1 DEF Q!Line
  <2>4. Q!Line = << >>
    BY SMT, <2>3
  <2>5. TakenInOrder
    BY SMT, <2>1, <2>4 DEF TakenInOrder, Q!TakenInOrder, Q!Elems, Q!Increasing
  <2> QED
    BY <2>1, <2>2, <2>5 DEF OrderInv
<1>2. QueueInv /\ OrderInv /\ [Q!Next]_(Q!vars) => OrderInv'
  <2> SUFFICES ASSUME QueueInv, OrderInv, [Q!Next]_(Q!vars) PROVE OrderInv'
    OBVIOUS
  <2>1. StreamInv'
    BY StreamKeeps DEF QueueInv, OrderInv
  <2>2. (~MsgChanClosed => dropped \subseteq Q!Elems(received))' /\ TakenInOrder'
    BY LineKeeps DEF QueueInv, TakenInOrder, Q!TakenInOrder
  <2> QED
    BY <2>1, <2>2, HeldKeeps DEF OrderInv
<1>3. OrderInv => TakenInOrder
  BY DEF OrderInv
<1> QED
  BY <1>1, <1>2, <1>3, PushStepIsQueueStep, PushInvariant, PTL DEF PushSpec
=============================================================================
