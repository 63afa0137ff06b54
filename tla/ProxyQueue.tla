----------------------------- MODULE ProxyQueue -----------------------------
(***************************************************************************)
(* A node's subscription to the Redis message channels                     *)
(* (service/ws/proxy_msg_queue.go): the goroutine readSubMsg, the bounded  *)
(* MsgChan, the workers that run handleSubMsg, and StopWorkerM at          *)
(* shutdown.  The worker pool is the library gmq/task_worker.  Checked as  *)
(* a part of Push.                                                         *)
(***************************************************************************)
EXTENDS Naturals, Sequences, FiniteSets

CONSTANTS
  MaxMsgs,        \* bound on the messages published while the node runs
  msgChanMaxLen,  \* capacity of MsgChan
  MaxWorker,      \* number of workers
  Nil

Payloads == 1..MaxMsgs   \* the messages, in the order of publication

VARIABLES
  published,   \* number of messages published
  stream,      \* published, not yet received by the node
  reader,      \* readSubMsg: "top" | "receive" | "push" | "timed" | "end"
  held,        \* the message it holds
  MsgChan,
  chanClosed,
  ctxDone,     \* the server's context is cancelled
  working,     \* the messages the workers are handling
  received, taken, dropped, handled  \* history

chanVars == <<MsgChan, chanClosed>>
vars == <<published, stream, reader, held, MsgChan, chanClosed, ctxDone, working,
          received, taken, dropped, handled>>

Init ==
  /\ published = 0 /\ stream = << >> /\ reader = "top" /\ held = Nil
  /\ MsgChan = << >> /\ chanClosed = FALSE /\ ctxDone = FALSE
  /\ working = {}
  /\ received = << >> /\ taken = << >> /\ dropped = {} /\ handled = {}

\* Redis delivers what is published in one order to every subscriber.
Publish ==
  /\ published < MaxMsgs
  /\ published' = published + 1
  /\ stream' = Append(stream, published + 1)
  /\ UNCHANGED <<reader, held, chanVars, ctxDone, working, received, taken, dropped, handled>>

-----------------------------------------------------------------------------
(* readSubMsg *)

\* Mutant: `break`, which leaves the select and not the loop.
CheckContextBreaks ==
  /\ reader = "top"
  /\ reader' = "receive"
  /\ UNCHANGED <<published, stream, held, chanVars, ctxDone, working, received, taken, dropped, handled>>

CheckContext ==
  /\ reader = "top"
  /\ reader' = IF ctxDone THEN "end" ELSE "receive"
  /\ UNCHANGED <<published, stream, held, chanVars, ctxDone, working, received, taken, dropped, handled>>

\* How a received message is pushed.  Mutant: off by one.
LateFull == Len(MsgChan) > msgChanMaxLen
Full == Len(MsgChan) >= msgChanMaxLen

ReceiveMessage ==
  /\ reader = "receive" /\ stream # << >>
  /\ held' = Head(stream)
  /\ stream' = Tail(stream)
  /\ received' = Append(received, Head(stream))
  /\ reader' = IF Full THEN "timed" ELSE "push"
  /\ UNCHANGED <<published, chanVars, ctxDone, working, taken, dropped, handled>>

\* ReceiveMessage fails with the connection; what is published before the client
\* has subscribed again is lost.  On a closed client (redis.ErrClosed) readSubMsg
\* returns.  Without a message or an error ReceiveMessage waits, also when the
\* context is cancelled meanwhile.
ReceiveError ==
  /\ reader = "receive"
  /\ reader' \in {"top", "end"}
  /\ stream' \in {stream, << >>}
  /\ UNCHANGED <<published, held, chanVars, ctxDone, working, received, taken, dropped, handled>>

\* WorkerM.PushMsg, or the first case of pubMsgWithTimeout.
PushMsg ==
  /\ reader \in {"push", "timed"}
  /\ ~chanClosed /\ Len(MsgChan) < msgChanMaxLen
  /\ MsgChan' = Append(MsgChan, held)
  /\ held' = Nil
  /\ reader' = "top"
  /\ UNCHANGED <<published, stream, chanClosed, ctxDone, working, received, taken, dropped, handled>>

\* Mutant: the message is pushed although the timer fired.
PushTimeoutLate ==
  /\ reader = "timed" /\ ~chanClosed /\ Len(MsgChan) < msgChanMaxLen
  /\ dropped' = dropped \cup {held}
  /\ MsgChan' = Append(MsgChan, held)
  /\ held' = Nil
  /\ reader' = "top"
  /\ UNCHANGED <<published, stream, chanClosed, ctxDone, working, received, taken, handled>>

\* pubMsgWithTimeout: the timer fires and the message is dropped.
PushTimeout ==
  /\ reader = "timed"
  /\ dropped' = dropped \cup {held}
  /\ held' = Nil
  /\ reader' = "top"
  /\ UNCHANGED <<published, stream, chanVars, ctxDone, working, received, taken, handled>>

\* A push to the closed channel panics; the deferred recover ends readSubMsg.
PushPanic ==
  /\ reader \in {"push", "timed"} /\ chanClosed
  /\ dropped' = dropped \cup {held}
  /\ held' = Nil
  /\ reader' = "end"
  /\ UNCHANGED <<published, stream, chanVars, ctxDone, working, received, taken, handled>>

-----------------------------------------------------------------------------
(* The workers, and the shutdown *)

Take ==
  /\ MsgChan # << >> /\ Cardinality(working) < MaxWorker
  /\ working' = working \cup {Head(MsgChan)}
  /\ taken' = Append(taken, Head(MsgChan))
  /\ MsgChan' = Tail(MsgChan)
  /\ UNCHANGED <<published, stream, reader, held, chanClosed, ctxDone, received, dropped, handled>>

\* handleSubMsg returns; what it does is in Push and Delivery.
HandleSubMsg(m) ==
  /\ m \in working /\ m \notin handled
  /\ working' = working \ {m}
  /\ handled' = handled \cup {m}
  /\ UNCHANGED <<published, stream, reader, held, chanVars, ctxDone, received, taken, dropped>>

\* CloseServer cancels the context ...
Cancel ==
  /\ ~ctxDone
  /\ ctxDone' = TRUE
  /\ UNCHANGED <<published, stream, reader, held, chanVars, working, received, taken, dropped, handled>>

\* ... closes MsgChan under the reader ...
StopWorkerM ==
  /\ ctxDone /\ ~chanClosed
  /\ chanClosed' = TRUE
  /\ UNCHANGED <<published, stream, reader, held, MsgChan, ctxDone, working, received, taken, dropped, handled>>

\* ... and hands what is left to rePushMsg, which does nothing.
RePushMsg ==
  /\ chanClosed /\ MsgChan # << >>
  /\ dropped' = dropped \cup {Head(MsgChan)}
  /\ MsgChan' = Tail(MsgChan)
  /\ UNCHANGED <<published, stream, reader, held, chanClosed, ctxDone, working, received, taken, handled>>

ReaderStep == CheckContext \/ ReceiveMessage \/ PushMsg \/ PushTimeout \/ PushPanic

Next ==
  \/ ReaderStep \/ ReceiveError \/ Publish \/ Take \/ Cancel \/ StopWorkerM \/ RePushMsg
  \/ \E m \in Payloads : HandleSubMsg(m)

Spec == Init /\ [][Next]_vars

-----------------------------------------------------------------------------
(* Properties *)

\* The variables have their types: what MsgChan, readSubMsg and the workers hold are
\* published messages.
TypeOK ==
  /\ published \in 0..MaxMsgs /\ stream \in Seq(Payloads) /\ MsgChan \in Seq(Payloads)
  /\ received \in Seq(Payloads) /\ taken \in Seq(Payloads)
  /\ reader \in {"top", "receive", "push", "timed", "end"}
  /\ held \in Payloads \cup {Nil}
  /\ chanClosed \in BOOLEAN /\ ctxDone \in BOOLEAN
  /\ working \subseteq Payloads /\ dropped \subseteq Payloads /\ handled \subseteq Payloads

\* readSubMsg's direct PushMsg never finds the channel full, although it tests
\* the length before: it is the only producer, so a slow worker pool can hold
\* the subscription up for msgPushTimeout at most.
PushHasRoom == reader = "push" => Len(MsgChan) < msgChanMaxLen

\* The messages in a sequence, and whether they are in the order of publication.
Elems(s) == {s[i] : i \in DOMAIN s}
Increasing(s) == \A i, j \in DOMAIN s : i < j => s[i] < s[j]

\* What the workers took, what waits in the channel and what the reader holds.
Line == taken \o MsgChan \o (IF held = Nil THEN << >> ELSE <<held>>)

\* Until the shutdown, the messages the workers take, wait in the channel and
\* are held by the reader are the received ones that were not dropped, each once
\* and in the order of publication.
TakenInOrder ==
  ~chanClosed => Elems(Line) = Elems(received) \ dropped /\ Increasing(Line)

\* After the context is cancelled the reader ends, wherever CloseServer's cancel
\* and close find it, at the latest with the next message: only a ReceiveMessage
\* that nothing comes to waits on, because nobody closes the Redis client.
ReaderEnds == ctxDone /\ (reader # "receive" \/ stream # << >>) ~> reader = "end"
=============================================================================
