------------------------------ MODULE EchoApp ------------------------------
(***************************************************************************)
(* src/examples/echoapp.c on one accepted connection: the application of   *)
(* TapsConnection is no longer arbitrary but the echo server's callbacks.  *)
(*                                                                         *)
(* A callback is the last statement of the handler that calls it and runs  *)
(* to its end before the event loop goes on: handler is where the running  *)
(* one stands, and the event loop waits until there is none.  The callback *)
(* _app_received_partial is cut where it calls TAPS; the other ones are    *)
(* part of the action that calls them.                                     *)
(*                                                                         *)
(* An app_msg and its tapsMessage have the number of the receive they were *)
(* made for.  The same app_msg is then sent back: echoOf says with which   *)
(* send.                                                                   *)
(***************************************************************************)
EXTENDS TapsConnection, Iovec

CONSTANTS
    Pipelined,       \* the peer sends whenever it likes
    ShortWrites      \* writev may take a part of the message

(* echoapp.c asks for any number of bytes, and its error callbacks only    *)
(* free.  Each receive event takes a byte, so the bounds are never reached. *)
ASSUME EchoAssumption ==
    /\ Pipelined \in BOOLEAN /\ ShortWrites \in BOOLEAN
    /\ MinLengths = {0} /\ AppAllocates = FALSE
    /\ MaxSends = MaxBytes
    /\ MaxRecvs = MaxBytes + 1

VARIABLES
    handler,         \* "none", "echo", "more", "free", "exited"
    current,         \* the app_msg the running callback was given
    message,         \* the tapsMessage of each app_msg
    echoOf,          \* the app_msg of each send
    frees,           \* tapsMessageFree calls for each
    structFrees,     \* free calls for each app_msg
    echoed,          \* history: the bytes written to the socket
    shortWrite,      \* history: writev has taken less than a message
    outOfMemory,     \* history: an allocation has failed
    overlapped       \* history: a line went to Send before the event of another

appVars  == <<handler, current, message, echoOf, frees, structFrees>>
history  == <<echoed, shortWrite, outOfMemory, overlapped>>
echoVars == <<vars, appVars, history>>

(* The types of the application's variables.                               *)
EchoTypeOK ==
    /\ TypeOK
    /\ handler \in {"none", "echo", "more", "free", "exited"}
    /\ current \in 0 .. MaxRecvs
    /\ DOMAIN message = Buffers
    /\ \A b \in Buffers : message[b].iovcnt \in 0 .. 1
    /\ echoOf \in [Messages -> 0 .. MaxRecvs]
    /\ frees \in [Buffers -> Nat]
    /\ structFrees \in [Buffers -> Nat]
    /\ echoed \in Seq(0 .. MaxBytes)
    /\ shortWrite \in BOOLEAN
    /\ outOfMemory \in BOOLEAN
    /\ overlapped \in BOOLEAN

(* _app_connection_received is about to make the first receive.            *)
EchoInit ==
    /\ Init
    /\ handler = "more"
    /\ current = 0
    /\ message = [b \in Buffers |-> tapsMessageNew(b, BufLen)]
    /\ echoOf = [m \in Messages |-> 0]
    /\ frees = [b \in Buffers |-> 0]
    /\ structFrees = [b \in Buffers |-> 0]
    /\ echoed = <<>>
    /\ shortWrite = FALSE
    /\ outOfMemory = FALSE
    /\ overlapped = FALSE

-----------------------------------------------------------------------------

Bump(count, b) == [count EXCEPT ![b] = @ + 1]

(* What writev takes from an app_msg; 0 stands for memory that has been    *)
(* given back and may hold anything.                                       *)
Bytes(b, msgs) ==
    LET addresses == Addresses(tapsMessageGetIovec(msgs[b]))
    IN  [i \in DOMAIN addresses |->
            IF frees[b] + structFrees[b] > 0 THEN 0
            ELSE memory[b][addresses[i][2]]]

(* The message that this step has written, if any, is part of the echo.    *)
(* Send does not compare what writev took with what it was given.          *)
Written ==
    IF wire' = wire
    THEN UNCHANGED <<echoed, shortWrite>>
    ELSE LET bytes == Bytes(echoOf'[wire'[Len(wire')]], message')
         IN  \E taken \in (IF ShortWrites THEN 1 .. Len(bytes) ELSE {})
                            \cup {Len(bytes)} :
                /\ echoed' = echoed \o SubSeq(bytes, 1, taken)
                /\ shortWrite' = (shortWrite \/ taken < Len(bytes))

(* Faulty variant: the message is not truncated.                           *)
MutEchoLength(b) == message[b]

EchoLength(b) == tapsMessageTruncate(message[b], currLength[b])

(* Faulty variant: the message is freed as soon as it is sent.             *)
MutEchoFrees(count, m) == Bump(count, current)

(* What a failed tapsConnectionSend makes the callback free.               *)
EchoFrees(count, m) ==
    IF ret'[m] = "err" THEN Bump(count, current) ELSE count

(* Faulty variant: no new receive.                                         *)
MutAfterEcho == "none"

AfterEcho == "more"

(* _app_received_partial up to tapsConnectionSend and its error branch.    *)
Echo ==
    /\ handler = "echo"
    /\ message' = [message EXCEPT ![current] = EchoLength(current)]
    /\ tapsConnectionSend
    /\ LET m == sends + 1 IN
        /\ echoOf' = [echoOf EXCEPT ![m] = current]
        /\ frees' = EchoFrees(frees, m)
        /\ structFrees' = EchoFrees(structFrees, m)
        /\ outOfMemory' = (outOfMemory \/ msgFate'[m] = "refused")
    /\ overlapped' = (overlapped \/ sendEvent = "added")
    /\ handler' = AfterEcho
    /\ Written
    /\ UNCHANGED current

(* The rest of it, and _app_connection_received: a new app_msg and message *)
(* and a receive for it.  Without memory for the one the program exits,    *)
(* without memory for the other it goes on and receives no more.           *)
ReceiveMore ==
    /\ handler = "more"
    /\ \/ /\ tapsConnectionReceive(0)
          /\ handler' = "none"
          /\ outOfMemory' = (outOfMemory \/ conn' = "crashed")
       \/ /\ "malloc" \in Faults
          /\ handler' \in {"none", "exited"}
          /\ outOfMemory' = TRUE
          /\ UNCHANGED vars
    /\ UNCHANGED <<current, message, echoOf, frees, structFrees>>
    /\ UNCHANGED <<echoed, shortWrite, overlapped>>

(* The event loop hands over bytes: _app_received, _app_received_partial.  *)
AppReceived ==
    /\ handler = "none"
    /\ \E how \in ReceiveEvents : BytesReceived(how)
    /\ \E b \in Buffers :
        /\ bufFate[b] = "queued"
        /\ bufFate'[b] \in {"received", "receivedPartial"}
        /\ current' = b
    /\ handler' = "echo"
    /\ UNCHANGED <<message, echoOf, frees, structFrees, history>>

(* A send has its event.  _app_sent and _app_expired free both parts,      *)
(* _app_send_error the message only.                                       *)
AppSent ==
    /\ handler = "none"
    /\ \E how \in SendEvents : SendDone(how)
    /\ frees' = Bump(frees, echoOf[send_ctx])
    /\ structFrees' = IF msgFate'[send_ctx] = "sendError" THEN structFrees
                      ELSE Bump(structFrees, echoOf[send_ctx])
    /\ UNCHANGED <<handler, current, message, echoOf, outOfMemory, overlapped>>
    /\ Written

AppNothing ==
    /\ handler = "none"
    /\ NothingReceived
    /\ UNCHANGED <<appVars, history>>

(* Faulty variant: _app_closed does not free the connection.               *)
MutAfterClosed == "none"

AfterClosed == "free"

AppClosed ==
    /\ handler = "none"
    /\ Closed
    /\ handler' = AfterClosed
    /\ UNCHANGED <<current, message, echoOf, frees, structFrees, history>>

(* _app_closed frees the connection.  _app_send_error, called for each     *)
(* queued send, frees the message but not its app_msg; _app_receive_error  *)
(* frees the app_msg but not its message.                                  *)
AppFree ==
    /\ handler = "free"
    /\ tapsConnectionFree
    /\ handler' = "none"
    /\ frees' = [b \in Buffers |->
            IF \E m \in Messages : IsItem(sndq, m) /\ echoOf[m] = b
            THEN frees[b] + 1 ELSE frees[b]]
    /\ structFrees' = [b \in Buffers |->
            IF IsItem(rcvq, b) THEN structFrees[b] + 1 ELSE structFrees[b]]
    /\ UNCHANGED <<current, message, echoOf, history>>

(* The most patient peer sends lines of one byte, each when it has the     *)
(* echo of the one before.  It sees what is written to the socket, not     *)
(* whether the server has run its send event since.                        *)
PeerMaySend == Pipelined \/ Len(echoed) = arrived

EchoPeer ==
    /\ Peer
    /\ arrived' > arrived => PeerMaySend
    /\ UNCHANGED <<appVars, history>>

EchoNext ==
    \/ Echo \/ ReceiveMore \/ AppReceived \/ AppSent \/ AppNothing
    \/ AppClosed \/ AppFree \/ EchoPeer

EchoSpec == EchoInit /\ [][EchoNext]_echoVars

(* Callbacks run to their end and libevent runs what stays ready.  Nothing *)
(* makes the peer send or close.                                           *)
EchoLiveSpec ==
    /\ EchoSpec
    /\ WF_echoVars(Echo)
    /\ WF_echoVars(ReceiveMore)
    /\ WF_echoVars(AppReceived)
    /\ WF_echoVars(AppSent)
    /\ WF_echoVars(AppNothing)
    /\ WF_echoVars(AppClosed)
    /\ WF_echoVars(AppFree)

-----------------------------------------------------------------------------
(* Properties *)

(* echoapp.c: "a server on port 5555 that echoes each line of text the     *)
(* client sends it".  What goes back is the peer's bytes in order, never   *)
(* memory that was given back, and unless an allocation failed or a write  *)
(* was short none is missing on the way.                                   *)
EchoesPeer ==
    /\ \A i \in DOMAIN echoed : echoed[i] # 0
    /\ \A i, j \in DOMAIN echoed : i < j => echoed[i] < echoed[j]
    /\ ~outOfMemory /\ ~shortWrite => \A i \in DOMAIN echoed : echoed[i] = i

(* The echo is the peer's bytes, however the peer times and cuts its       *)
(* lines, until _app_received_partial first calls tapsConnectionSend while *)
(* the send event of the echo before is pending.                           *)
EchoFaithful == ~overlapped => EchoesPeer

(* taps.h: "If the message was sent via Send or Receive, DO NOT call       *)
(* Free() until one of the send or receive events for that message has     *)
(* returned".  Nothing on TAPS's queues has been freed, and nothing is     *)
(* freed twice on any path: sent, refused, closed with sends and receives  *)
(* still queued.  The only way out is a send that finds the event of       *)
(* another one pending: tapsConnectionSend queues it and returns an error, *)
(* and the callback frees it.                                              *)
MessagesOwned ==
    ~overlapped =>
        /\ \A i \in DOMAIN sndq :
                frees[echoOf[sndq[i]]] = 0 /\ structFrees[echoOf[sndq[i]]] = 0
        /\ \A i \in DOMAIN rcvq :
                frees[rcvq[i]] = 0 /\ structFrees[rcvq[i]] = 0
        /\ \A b \in Buffers : frees[b] <= 1 /\ structFrees[b] <= 1

(* Every byte that arrives is echoed in the end, however the peer cuts     *)
(* what it sends into segments, unless the peer closes first, a            *)
(* write is short, an allocation fails or a send overlaps another.         *)
EchoCompletes ==
    \A n \in 1 .. MaxBytes :
        arrived >= n ~>
            Len(echoed) >= n \/ peerClosed \/ shortWrite \/ outOfMemory \/ overlapped

(* When the peer closes, the connection is freed, whatever the callbacks   *)
(* were doing, unless memory ran out or, after an overlapping send, was    *)
(* freed twice.                                                            *)
CloseFrees == peerClosed ~> conn = "freed" \/ outOfMemory \/ overlapped
=============================================================================
