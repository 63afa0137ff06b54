-------------------------------- MODULE Push --------------------------------
(***************************************************************************)
(* The way of a pushed message through a node: from the Redis subscription *)
(* (ProxyQueue) through handleSubMsg, run by a worker, to the sendChan and *)
(* the socket of the user's client (ClientSend).  Other goroutines send to *)
(* the client as well: replies to its requests and messages of its groups. *)
(***************************************************************************)
EXTENDS ClientSend, FiniteSets

CONSTANTS
  MaxMsgs,        \* bound on the messages published for the user
  msgChanMaxLen,  \* capacity of the queue's MsgChan
  MaxWorker       \* number of workers

VARIABLES published, stream, subReader, payload, MsgChan, MsgChanClosed, ctxDone,
          working, received, taken, dropped, handled

Q == INSTANCE ProxyQueue WITH reader <- subReader, held <- payload, chanClosed <- MsgChanClosed

Pushes == 1..MaxMsgs
Others == Msgs \ Pushes

ASSUME PushAssumption ==
  /\ MaxMsgs \in Nat /\ Pushes \subseteq Msgs
  /\ msgChanMaxLen \in Nat \ {0} /\ MaxWorker \in Nat \ {0}

queueVars == <<published, stream, subReader, payload, MsgChan, MsgChanClosed, ctxDone,
               working, received, taken, dropped, handled>>
pushVars == <<vars, queueVars>>

PushInit == Init /\ Q!Init

\* Steps of the queue that concern no client.
QueueStep ==
  /\ Q!ReaderStep \/ Q!ReceiveError \/ Q!Publish \/ Q!Take \/ Q!Cancel \/ Q!StopWorkerM \/ Q!RePushMsg
  /\ UNCHANGED vars

\* handleSubMsg: SendResDataToUser finds the client, which SafeSendMsg queues the
\* message for.  (A user without a client here is the module Delivery.)
HandleStarts(m) == m \in working /\ SafeSendMsg(m, "async") /\ UNCHANGED queueVars

\* Mutant: SafeSendMsg runs in a goroutine of its own.
HandleSpawns(m) == Q!HandleSubMsg(m) /\ UNCHANGED vars

\* The worker is free when SafeSendMsg has returned.
HandleReturns(m) == pc[m] = "done" /\ Q!HandleSubMsg(m) /\ UNCHANGED vars

\* Any step of the client, but the start of a push.
ClientStep ==
  /\ \/ LoopStep \/ ReaderStep \/ SocketFails
     \/ \E m \in Msgs : SendStep(m)
     \/ \E m \in Others : SafeSendMsg(m, "sync") \/ SafeSendMsg(m, "async")
  /\ UNCHANGED queueVars

PushNext ==
  \/ QueueStep \/ ClientStep
  \/ \E m \in Pushes : HandleStarts(m) \/ HandleReturns(m)

\* A worker with message m.
Worker(m) == HandleStarts(m) \/ (SendStep(m) /\ UNCHANGED queueVars) \/ HandleReturns(m)

\* Fairness of the two modules; that a connection fails is not assumed; a worker is one goroutine from handleSubMsg through
\* SafeSendMsg.
PushFairness ==
  /\ WF_(Q!vars)(Q!ReaderStep) /\ WF_(Q!vars)(Q!Take) /\ WF_(Q!vars)(Q!StopWorkerM)
  /\ WF_vars(LoopStep)
  /\ WF_vars((sock = "closed" /\ OnClose) \/ CloseSendChan)
  /\ \A m \in Pushes : WF_pushVars(Worker(m))
  /\ \A m \in Others : WF_vars(SendStep(m))

PushSpec == PushInit /\ [][PushNext]_pushVars /\ PushFairness

-----------------------------------------------------------------------------
(* Properties *)

\* The variables of the queue (ProxyQueue) and of the client (ClientSend) have
\* their types.
PushTypeOK == TypeOK /\ Q!TypeOK

\* readSubMsg's direct PushMsg never finds the channel full (ProxyQueue), with
\* workers that take as long as SafeSendMsg does.
PushHasRoom == Q!PushHasRoom

\* Until the shutdown the workers take the messages in the order of publication,
\* without loss or repetition but for the dropped ones (ProxyQueue).
TakenInOrder == Q!TakenInOrder

\* Workers may overtake each other between the queue and sendChan, but only those
\* at work at the same time: when a push enters sendChan, every push taken before
\* it is done or still in a worker's hands, so that fewer than MaxWorker follow.
OvertakesFew ==
  [][\A m \in Pushes : queued' = Append(queued, m) =>
       \A i, j \in DOMAIN taken :
         i < j /\ taken[j] = m => pc[taken[i]] = "done" \/ taken[i] \in working]_pushVars

\* A push the node has received is written to the user's socket, unless the queue
\* dropped it, the client went offline, or the node stops.
PushReachesPeer ==
  \A m \in Pushes :
    m \in Q!Elems(received) ~> m \in Q!Elems(wire) \cup dropped \/ State = "offline" \/ ctxDone

\* After the context is cancelled readSubMsg ends, at the latest with the next
\* message (ProxyQueue).
ReaderEnds == Q!ReaderEnds
=============================================================================
