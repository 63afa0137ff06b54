----------------------------- MODULE ClientSend -----------------------------
(***************************************************************************)
(* The send side of one Client (service/ws/client.go): SafeSendMsg called  *)
(* by any number of goroutines, the bounded sendChan, the writer goroutine *)
(* SendMsgLoop, Close, and the ReadLoop goroutine's OnClose that closes    *)
(* sendChan.  A message is sent once.  What SafeSendMsg returns is left    *)
(* out: its callers log it or answer with it.                              *)
(***************************************************************************)
EXTENDS Naturals, Sequences

CONSTANTS
  Msgs,              \* the messages, each sent once by a goroutine of its own
  ClientMsgChanMax,  \* capacity of sendChan
  NetFails,          \* TRUE: the socket may fail or be closed by the peer
  WriteFails,        \* TRUE: WriteMessage may refuse a message on a good socket
  ForeignClose,      \* TRUE: OnClose may come from another connection's end
  Nil

ASSUME ClientSendAssumption ==
  /\ Nil \notin Msgs
  /\ ClientMsgChanMax \in Nat \ {0}
  /\ NetFails \in BOOLEAN /\ WriteFails \in BOOLEAN /\ ForeignClose \in BOOLEAN

VARIABLES
  State,      \* "online" | "offline"
  sock,       \* "open" | "closed"
  sendChan,   \* the queued messages
  chanClosed, \* whether sendChan was closed
  loop,       \* SendMsgLoop: "range" | "write" | "close" | "end"
  held,       \* the message SendMsgLoop is writing, or Nil
  reader,     \* ReadLoop: "read" | "closechan" | "end"
  pc,         \* message -> where the SafeSendMsg that sends it is
  queued,     \* history: the messages sendChan took, in order
  wire        \* history: the messages SendMsgLoop wrote, in order

sockVars == <<State, sock>>
chanVars == <<sendChan, chanClosed>>
loopVars == <<loop, held>>
vars == <<State, sock, sendChan, chanClosed, loop, held, reader, pc, queued, wire>>

Init ==
  /\ State = "online" /\ sock = "open"
  /\ sendChan = << >> /\ chanClosed = FALSE
  /\ loop = "range" /\ held = Nil
  /\ reader = "read"
  /\ pc = [m \in Msgs |-> "new"]
  /\ queued = << >> /\ wire = << >>

\* Client.Close: nothing when offline; the lock makes both writes one step.
Close ==
  /\ State' = "offline"
  /\ sock' = IF State = "online" THEN "closed" ELSE sock

-----------------------------------------------------------------------------
(* SafeSendMsg *)

Return(m) == pc' = [pc EXCEPT ![m] = "done"]

\* The unlocked check of State; then WriteMessage (type 1, "sync") or select
\* (type 2, "async").
SafeSendMsg(m, type) ==
  /\ pc[m] = "new"
  /\ IF State = "online" THEN pc' = [pc EXCEPT ![m] = type] ELSE Return(m)
  /\ UNCHANGED <<sockVars, chanVars, loopVars, reader, queued, wire>>

\* Type 1: WriteMessage past the queue; its error is ignored, and the socket stays.
SyncWrite(m) ==
  /\ pc[m] = "sync"
  /\ Return(m)
  /\ UNCHANGED <<sockVars, chanVars, loopVars, reader, queued, wire>>

\* Type 2: the non-blocking send.  On a closed channel it panics.
AsyncSend(m) ==
  /\ pc[m] = "async"
  /\ \/ /\ chanClosed
        /\ pc' = [pc EXCEPT ![m] = "panic"]
        /\ UNCHANGED <<sendChan, queued>>
     \/ /\ ~chanClosed /\ Len(sendChan) < ClientMsgChanMax
        /\ sendChan' = Append(sendChan, m)
        /\ queued' = Append(queued, m)
        /\ Return(m)
     \/ /\ ~chanClosed /\ Len(sendChan) = ClientMsgChanMax
        /\ pc' = [pc EXCEPT ![m] = "full"]
        /\ UNCHANGED <<sendChan, queued>>
  /\ UNCHANGED <<sockVars, chanClosed, loopVars, reader, wire>>

\* A full channel closes the client.
SendFull(m) ==
  /\ pc[m] = "full"
  /\ Close
  /\ Return(m)
  /\ UNCHANGED <<chanVars, loopVars, reader, queued, wire>>

\* The recovered panic closes the client.
SendRecover(m) ==
  /\ pc[m] = "panic"
  /\ Close
  /\ Return(m)
  /\ UNCHANGED <<chanVars, loopVars, reader, queued, wire>>

-----------------------------------------------------------------------------
(* SendMsgLoop *)

\* Mutant: the message is read and not taken.
LoopPeek ==
  /\ loop = "range"
  /\ \/ /\ sendChan # << >>
        /\ held' = Head(sendChan)
        /\ loop' = "write"
        /\ UNCHANGED sendChan
     \/ /\ sendChan = << >> /\ chanClosed
        /\ loop' = "close"
        /\ UNCHANGED <<held, sendChan>>
  /\ UNCHANGED <<sockVars, chanClosed, reader, pc, queued, wire>>

\* Takes the next message, or leaves the loop when the closed channel is empty.
LoopReceive ==
  /\ loop = "range"
  /\ \/ /\ sendChan # << >>
        /\ held' = Head(sendChan)
        /\ sendChan' = Tail(sendChan)
        /\ loop' = "write"
     \/ /\ sendChan = << >> /\ chanClosed
        /\ loop' = "close"
        /\ UNCHANGED <<held, sendChan>>
  /\ UNCHANGED <<sockVars, chanClosed, reader, pc, queued, wire>>

\* WriteMessage; an error breaks the loop, and the Close to come ends the
\* connection, although the comment above the call wants to keep it alive.
LoopWrite ==
  /\ loop = "write"
  /\ held' = Nil
  /\ \/ /\ sock = "open"
        /\ wire' = Append(wire, held)
        /\ loop' = "range"
     \/ /\ sock = "closed" \/ WriteFails
        /\ loop' = "close"
        /\ UNCHANGED wire
  /\ UNCHANGED <<sockVars, chanVars, reader, pc, queued>>

\* Mutant: SendMsgLoop ends without Close.
LoopExit ==
  /\ loop = "close"
  /\ loop' = "end"
  /\ UNCHANGED <<sockVars, chanVars, held, reader, pc, queued, wire>>

\* The deferred Close.
LoopClose ==
  /\ loop = "close"
  /\ Close
  /\ loop' = "end"
  /\ UNCHANGED <<chanVars, held, reader, pc, queued, wire>>

-----------------------------------------------------------------------------
(* The socket, ReadLoop and Client.OnClose *)

SocketFails ==
  /\ NetFails /\ sock = "open"
  /\ sock' = "closed"
  /\ UNCHANGED <<State, chanVars, loopVars, reader, pc, queued, wire>>

\* ReadLoop ends with the socket; OnClose may also be run for this client by
\* another connection of the user (Handler.OnClose looks clients up by uid).
OnClose ==
  /\ reader = "read"
  /\ sock = "closed" \/ ForeignClose
  /\ State' = "offline"
  /\ reader' = "closechan"
  /\ UNCHANGED <<sock, chanVars, loopVars, pc, queued, wire>>


CloseSendChan ==
  /\ reader = "closechan"
  /\ chanClosed' = TRUE
  /\ reader' = "end"
  /\ UNCHANGED <<sockVars, sendChan, loopVars, pc, queued, wire>>

-----------------------------------------------------------------------------
SendStep(m) == SyncWrite(m) \/ AsyncSend(m) \/ SendFull(m) \/ SendRecover(m)
LoopStep == LoopReceive \/ LoopWrite \/ LoopClose
ReaderStep == OnClose \/ CloseSendChan

Next ==
  \/ LoopStep \/ ReaderStep \/ SocketFails
  \/ \E m \in Msgs : SafeSendMsg(m, "sync") \/ SafeSendMsg(m, "async") \/ SendStep(m)

Spec == Init /\ [][Next]_vars

-----------------------------------------------------------------------------
(* Properties *)

\* The variables have their types: State, sendChan, and the places of SafeSendMsg,
\* SendMsgLoop and OnClose.
TypeOK ==
  /\ State \in {"online", "offline"}
  /\ sock \in {"open", "closed"}
  /\ sendChan \in Seq(Msgs)
  /\ chanClosed \in BOOLEAN
  /\ loop \in {"range", "write", "close", "end"}
  /\ held \in Msgs \cup {Nil}
  /\ reader \in {"read", "closechan", "end"}
  /\ pc \in [Msgs -> {"new", "sync", "async", "full", "panic", "done"}]
  /\ queued \in Seq(Msgs)
  /\ wire \in Seq(Msgs)

\* While the writer runs, what was queued is what it wrote, what it is writing
\* and what is waiting, in this order: nothing is lost, repeated or overtaken
\* by concurrent SafeSendMsg calls or by the closing of the channel.
QueueConserved ==
  loop \in {"range", "write"} =>
    queued = wire \o (IF loop = "write" THEN <<held>> ELSE << >>) \o sendChan

\* The peer receives queued messages in the order they were queued, to the end
\* of the connection.
WrittenInOrder ==
  Len(wire) <= Len(queued) /\ wire = SubSeq(queued, 1, Len(wire))

\* A client that counts as online has its SendMsgLoop: no message is queued
\* for a writer that is gone while the client looks alive.
OnlineHasWriter == State = "online" => loop # "end"

=============================================================================
