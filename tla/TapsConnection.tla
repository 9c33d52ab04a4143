--------------------------- MODULE TapsConnection ---------------------------
(***************************************************************************)
(* src/src/taps_connection.c over the TCP library: one connection accepted *)
(* from a listener, from the moment the application has its context to the *)
(* moment it has freed it.                                                 *)
(*                                                                         *)
(* One event loop runs everything, so an action is one whole handler: an   *)
(* API call of the application or one libevent callback with every call it *)
(* makes.  The application's callbacks are the last statement of each      *)
(* handler; what the application does in one is an action of its own right *)
(* after.                                                                  *)
(*                                                                         *)
(* The application keeps the contract of taps.h: it neither sends nor      *)
(* receives after the closed event, and frees the connection after it.     *)
(***************************************************************************)
EXTENDS TcpConnection

CONSTANTS
    MinLengths,      \* minIncompleteLength values the application passes
    SendEvents,      \* dispositions the protocol reports for a send
    ReceiveEvents,   \* and for a receive; TCP: {"receivedPartial"}
    AppAllocates     \* the application's error callbacks allocate memory

ASSUME EventsAssumption ==
    /\ MinLengths \subseteq Nat
    /\ SendEvents \subseteq {"sent", "expired", "sendError"}
    /\ ReceiveEvents \subseteq {"receivedPartial", "received", "receiveError"}
    /\ AppAllocates \in BOOLEAN

VARIABLES
    conn,            \* "open", "closed" (event delivered), "freed", "crashed"
    sends, recvs,    \* API calls made so far
    sndq, rcvq,      \* queued items, oldest first
    sendReady, receiveReady,
    minLength, currLength,
    msgFate,         \* per message: the event the application got
    bufFate,         \* per buffer: likewise
    ret,             \* per message: what tapsConnectionSend returned
    truncVecs,       \* iovecs _taps_trunc_iovec allocated and nobody freed
    stream,          \* history: the bytes handed to the application
    reported,        \* history: the messages reported sent
    rcvFault         \* history: a failing call has stopped the receiver

sendVars    == <<sends, sndq, sendReady, msgFate, ret, reported>>
receiveVars == <<recvs, rcvq, receiveReady, minLength, currLength, bufFate,
                 truncVecs, stream, rcvFault>>
vars        == <<tcpVars, conn, sendVars, receiveVars>>

MsgFates == {"none", "queued", "refused", "sent", "expired", "sendError"}
BufFates == {"none", "queued", "receivedPartial", "received", "receiveError"}

(* Every variable holds a value of the type the code gives it.             *)
TypeOK ==
    /\ TcpTypeOK
    /\ conn \in {"open", "closed", "freed", "crashed"}
    /\ sends \in 0 .. MaxSends
    /\ recvs \in 0 .. MaxRecvs
    /\ sndq \in Seq(Messages)
    /\ rcvq \in Seq(Buffers)
    /\ sendReady \in BOOLEAN
    /\ receiveReady \in BOOLEAN
    /\ minLength \in [Buffers -> Nat]
    /\ currLength \in [Buffers -> 0 .. BufLen]
    /\ msgFate \in [Messages -> MsgFates]
    /\ bufFate \in [Buffers -> BufFates]
    /\ ret \in [Messages -> {"none", "ok", "err"}]
    /\ truncVecs \in Nat
    /\ stream \in Seq(0 .. MaxBytes)
    /\ reported \in Seq(Messages)
    /\ rcvFault \in BOOLEAN

(* tapsConnectionNew, then tapsConnectionInitialize.                       *)
Init ==
    /\ TcpInit
    /\ conn = "open"
    /\ sends = 0 /\ recvs = 0
    /\ sndq = <<>> /\ rcvq = <<>>
    /\ sendReady = TRUE /\ receiveReady = TRUE
    /\ minLength = [b \in Buffers |-> 0]
    /\ currLength = [b \in Buffers |-> 0]
    /\ msgFate = [m \in Messages |-> "none"]
    /\ bufFate = [b \in Buffers |-> "none"]
    /\ ret = [m \in Messages |-> "none"]
    /\ truncVecs = 0
    /\ stream = <<>> /\ reported = <<>>
    /\ rcvFault = FALSE

-----------------------------------------------------------------------------
(* The item queues.  ADD_ITEM is Append; the code finds an item's place    *)
(* through its own prev and next pointers.                                 *)

IsItem(q, x) == \E i \in DOMAIN q : q[i] = x
Place(q, x)  == CHOOSE i \in DOMAIN q : q[i] = x

DeleteItem(q, i) ==
    [j \in 1 .. Len(q) - 1 |-> IF j < i THEN q[j] ELSE q[j + 1]]

-----------------------------------------------------------------------------
(* Sending *)

(* tapsConnectionSend.  A failed malloc queues nothing; any failure of the *)
(* protocol's Send is returned with the item left on the queue.            *)
tapsConnectionSend ==
    /\ conn = "open"
    /\ sends < MaxSends
    /\ sends' = sends + 1
    /\ LET m == sends + 1 IN
       \/ /\ "malloc" \in Faults
          /\ ret' = [ret EXCEPT ![m] = "err"]
          /\ msgFate' = [msgFate EXCEPT ![m] = "refused"]
          /\ UNCHANGED <<sndq, tcpSendVars>>
       \/ /\ sndq' = Append(sndq, m)
          /\ msgFate' = [msgFate EXCEPT ![m] = "queued"]
          /\ IF sendReady
             THEN \E r \in {"ok", "err"} :
                    /\ Send(m, sendEvent = "added", r)
                    /\ ret' = [ret EXCEPT ![m] = r]
             ELSE /\ ret' = [ret EXCEPT ![m] = "ok"]
                  /\ UNCHANGED tcpSendVars
    /\ UNCHANGED <<conn, sendReady, reported, receiveVars>>
    /\ UNCHANGED <<closeEvent, tcpReceiveVars, socketVars>>

(* Faulty variant: the next item is not handed to the protocol.            *)
MutSendCommon(i) ==
    /\ sndq' = DeleteItem(sndq, i)
    /\ sendReady' = TRUE
    /\ sendEvent' = "idle"
    /\ UNCHANGED <<sent, send_ctx, wire>>

(* Faulty variant: the item is not unlinked.                               *)
MutSendCommonKeep(i) ==
    /\ \E r \in {"ok", "err"} :
         Send(IF i < Len(sndq) THEN sndq[i + 1] ELSE sndq[1], FALSE, r)
    /\ UNCHANGED <<sndq, sendReady>>

(* Faulty variant: the head of the queue is sent next, not the item behind. *)
MutSendCommonHead(i) ==
    /\ sndq' = DeleteItem(sndq, i)
    /\ IF Len(sndq) > 1
       THEN /\ \E r \in {"ok", "err"} : Send(sndq'[1], FALSE, r)
            /\ UNCHANGED sendReady
       ELSE /\ sendReady' = TRUE
            /\ sendEvent' = "idle"
            /\ UNCHANGED <<sent, send_ctx, wire>>

(* _taps_send_common for the item at place i: unlink it, then hand the     *)
(* next one, if there is one, to the protocol.                             *)
SendCommon(i) ==
    /\ sndq' = DeleteItem(sndq, i)
    /\ IF i < Len(sndq)
       THEN /\ \E r \in {"ok", "err"} : Send(sndq[i + 1], FALSE, r)
            /\ UNCHANGED sendReady
       ELSE /\ sendReady' = TRUE
            /\ sendEvent' = "idle"
            /\ UNCHANGED <<sent, send_ctx, wire>>

(* _tcp_sent when the socket is writable, and whichever of _taps_sent,     *)
(* _taps_expired and _taps_send_error the protocol calls.  The code has no *)
(* test that the item is queued: SendCtxQueued shows that it always is.    *)
SendDone(how) ==
    /\ conn = "open"
    /\ sendEvent = "added"
    /\ sent = "taps"
    /\ IsItem(sndq, send_ctx)
    /\ SendCommon(Place(sndq, send_ctx))
    /\ msgFate' = [msgFate EXCEPT ![send_ctx] = how]
    /\ reported' = IF how = "sent" THEN Append(reported, send_ctx) ELSE reported
    /\ UNCHANGED <<conn, sends, ret, receiveVars>>
    /\ UNCHANGED <<closeEvent, tcpReceiveVars, socketVars>>

-----------------------------------------------------------------------------
(* Receiving *)

(* The receive just handed to the protocol failed; TAPS does not notice.   *)
ReceiveFailed == "event_add" \in Faults /\ receiveEvent' # "added"

(* tapsConnectionReceive.  A failed malloc is not checked: the next        *)
(* statement writes through a null pointer.                                *)
tapsConnectionReceive(min) ==
    /\ conn = "open"
    /\ recvs < MaxRecvs
    /\ recvs' = recvs + 1
    /\ LET b == recvs + 1 IN
       \/ /\ "malloc" \in Faults
          /\ conn' = "crashed"
          /\ UNCHANGED <<rcvq, minLength, currLength, bufFate, receiveReady,
                         tcpReceiveVars>>
       \/ /\ rcvq' = Append(rcvq, b)
          /\ minLength' = [minLength EXCEPT ![b] = min]
          /\ currLength' = [currLength EXCEPT ![b] = 0]
          /\ bufFate' = [bufFate EXCEPT ![b] = "queued"]
          /\ receiveReady' = FALSE
          /\ IF receiveReady
             THEN Receive(b, 0, receiveEvent = "added")
             ELSE UNCHANGED tcpReceiveVars
          /\ UNCHANGED conn
    /\ rcvFault' = (rcvFault \/ (receiveReady /\ ReceiveFailed))
    /\ UNCHANGED <<truncVecs, stream, sendVars>>
    /\ UNCHANGED <<closeEvent, tcpSendVars, socketVars>>

(* Faulty variant: the vector is freed although it is the message's own.   *)
MutFreeData == truncVecs - 1

(* Each receive callback first frees the vector it is given back unless it *)
(* is the message's own.                                                   *)
FreeData == IF receive_off > 0 THEN truncVecs - 1 ELSE truncVecs

(* Faulty variant: the vector starts at the buffer's first byte again.     *)
MutTruncIovec(len) == 0

(* The vector of the unfilled rest of a buffer that holds len bytes.       *)
TruncIovec(len) == len

(* The rest of _taps_receive_error, for the item at place i: unlink it and *)
(* tell the application.  The next receive is not issued and receiveReady  *)
(* stays FALSE.                                                            *)
ReceiveError(i) ==
    /\ rcvq' = DeleteItem(rcvq, i)
    /\ bufFate' = [bufFate EXCEPT ![rcvq[i]] = "receiveError"]
    /\ receiveEvent' = "idle"
    /\ UNCHANGED <<receiveReady, stream, received, receive_ctx, receive_off>>

(* Unlink the item at place i and hand the application its len bytes.      *)
Deliver(i, len, how) ==
    /\ rcvq' = DeleteItem(rcvq, i)
    /\ bufFate' = [bufFate EXCEPT ![rcvq[i]] = how]
    /\ stream' = stream \o [k \in 1 .. len |-> memory'[rcvq[i]][k - 1]]

(* Faulty variant: the next receive waits for the application's next call. *)
MutQueueUpNext(i) ==
    /\ receiveReady' = TRUE
    /\ receiveEvent' = "idle"
    /\ UNCHANGED <<received, receive_ctx, receive_off>>

(* Hand the protocol the receive after the item at place i, if any.        *)
QueueUpNext(i) ==
    IF i < Len(rcvq)
    THEN /\ Receive(rcvq[i + 1], 0, FALSE)
         /\ UNCHANGED receiveReady
    ELSE /\ receiveReady' = TRUE
         /\ receiveEvent' = "idle"
         /\ UNCHANGED <<received, receive_ctx, receive_off>>

(* _taps_received_partial, with len bytes now in the buffer at place i.    *)
ReceivedPartial(i, len) ==
    IF len < minLength[rcvq[i]]
    THEN \/ /\ Receive(rcvq[i], TruncIovec(len), FALSE)
            /\ truncVecs' = FreeData + 1
            /\ rcvFault' = (rcvFault \/ ReceiveFailed)
            /\ UNCHANGED <<rcvq, bufFate, receiveReady, stream>>
         \/ /\ "malloc" \in Faults
            /\ ReceiveError(i)
            /\ truncVecs' = FreeData
            /\ rcvFault' = TRUE
    ELSE /\ QueueUpNext(i)
         /\ Deliver(i, len, "receivedPartial")
         /\ truncVecs' = FreeData
         /\ rcvFault' = (rcvFault \/ (i < Len(rcvq) /\ ReceiveFailed))

(* _taps_received: a whole message; too short a one is an error.  Neither  *)
(* branch issues the next receive or sets receiveReady.                    *)
Received(i, len) ==
    /\ IF len < minLength[rcvq[i]]
       THEN ReceiveError(i)
       ELSE /\ Deliver(i, len, "received")
            /\ receiveEvent' = "idle"
            /\ UNCHANGED <<receiveReady, received, receive_ctx, receive_off>>
    /\ truncVecs' = FreeData
    /\ UNCHANGED rcvFault

(* _tcp_received with bytes read, and the callback the protocol calls.     *)
BytesReceived(how) ==
    /\ conn = "open"
    /\ receiveEvent = "added"
    /\ received = "taps"
    /\ Readable
    /\ IsItem(rcvq, receive_ctx)
    /\ \E n \in ReadvResults :
        /\ n > 0
        /\ memory' = ReadInto(receive_ctx, receive_off, n)
        /\ readPos' = readPos + n
        /\ currLength' = [currLength EXCEPT ![receive_ctx] = @ + n]
        /\ LET i == Place(rcvq, receive_ctx)
               len == currLength[receive_ctx] + n
           IN  \/ how = "receivedPartial" /\ ReceivedPartial(i, len)
               \/ how = "received" /\ Received(i, len)
    /\ UNCHANGED <<conn, recvs, minLength, sendVars>>
    /\ UNCHANGED <<closeEvent, tcpSendVars, arrived, peerClosed>>

(* _tcp_received when readv fails or returns nothing: no callback, and the *)
(* event, which is not persistent, is not added again.                     *)
NothingReceived ==
    /\ conn = "open"
    /\ receiveEvent = "added"
    /\ Readable
    /\ \E n \in ReadvResults :
        /\ n <= 0
        /\ rcvFault' = (rcvFault \/ n < 0 \/ receive_off = BufLen)
    /\ receiveEvent' = "idle"
    /\ UNCHANGED <<conn, recvs, rcvq, receiveReady, minLength, currLength>>
    /\ UNCHANGED <<bufFate, truncVecs, stream, received, receive_ctx>>
    /\ UNCHANGED <<receive_off, sendVars, closeEvent, tcpSendVars, socketVars>>

(* A protocol reports that the outstanding receive failed.                 *)
ProtocolReceiveError ==
    /\ conn = "open"
    /\ receiveEvent = "added"
    /\ received = "taps"
    /\ "receiveError" \in ReceiveEvents
    /\ IsItem(rcvq, receive_ctx)
    /\ ReceiveError(Place(rcvq, receive_ctx))
    /\ truncVecs' = FreeData
    /\ UNCHANGED <<conn, recvs, minLength, currLength, rcvFault, sendVars>>
    /\ UNCHANGED <<closeEvent, tcpSendVars, socketVars>>

-----------------------------------------------------------------------------
(* The end of the connection *)

(* _tcp_sent or _tcp_received calling through a field nobody initialised.  *)
GarbageCallback ==
    /\ conn = "open"
    /\ \/ sendEvent = "added" /\ sent # "taps"
       \/ receiveEvent = "added" /\ received # "taps" /\ arrived > readPos
    /\ conn' = "crashed"
    /\ UNCHANGED <<tcpVars, sendVars, receiveVars>>

(* _tcp_closed, then _taps_closed and the application's closed callback.   *)
Closed ==
    /\ conn = "open"
    /\ CloseSocket
    /\ conn' = "closed"
    /\ UNCHANGED <<sendVars, receiveVars>>

(* Faulty variant: the receive queue is forgotten.                         *)
MutConnectionFree ==
    /\ conn = "closed"
    /\ conn' = "freed"
    /\ msgFate' = [m \in Messages |->
                    IF IsItem(sndq, m) THEN "sendError" ELSE msgFate[m]]
    /\ sndq' = <<>>
    /\ UNCHANGED <<tcpVars, sends, sendReady, ret, reported, receiveVars>>

(* tapsConnectionFree: each queued item gets its error event, tail first.  *)
(* DELETE_ITEM is given the tail pointer as its item: it moves the tail    *)
(* back and then frees what the tail now is, so from the second item on    *)
(* the loop reads items already freed.  They are intact unless the         *)
(* callback in between has allocated that memory again.                    *)
tapsConnectionFree ==
    /\ conn = "closed"
    /\ \/ /\ conn' = "freed"
          /\ msgFate' = [m \in Messages |->
                IF IsItem(sndq, m) THEN "sendError" ELSE msgFate[m]]
          /\ bufFate' = [b \in Buffers |->
                IF IsItem(rcvq, b) THEN "receiveError" ELSE bufFate[b]]
          /\ sndq' = <<>>
          /\ rcvq' = <<>>
       \/ /\ AppAllocates
          /\ Len(sndq) > 1 \/ Len(rcvq) > 1
          /\ conn' = "crashed"
          /\ UNCHANGED <<msgFate, bufFate, sndq, rcvq>>
    /\ UNCHANGED <<tcpVars, sends, sendReady, ret, reported>>
    /\ UNCHANGED <<recvs, receiveReady, minLength, currLength, truncVecs>>
    /\ UNCHANGED <<stream, rcvFault>>

Peer ==
    /\ conn = "open"
    /\ PeerSend \/ PeerClose
    /\ UNCHANGED <<closeEvent, tcpSendVars, tcpReceiveVars, conn>>
    /\ UNCHANGED <<sendVars, receiveVars>>

Application ==
    \/ tapsConnectionSend
    \/ \E min \in MinLengths : tapsConnectionReceive(min)
    \/ tapsConnectionFree

EventLoop ==
    \/ \E how \in SendEvents : SendDone(how)
    \/ \E how \in ReceiveEvents : BytesReceived(how)
    \/ NothingReceived
    \/ ProtocolReceiveError
    \/ GarbageCallback
    \/ Closed

Next == Application \/ EventLoop \/ Peer

Spec == Init /\ [][Next]_vars

(* libevent runs a callback that stays ready, and an application that has  *)
(* got the closed event frees the connection.  Nothing makes the           *)
(* application send or receive, or the peer do anything.                   *)
Fairness ==
    /\ WF_vars(\E how \in SendEvents : SendDone(how))
    /\ WF_vars(\E how \in ReceiveEvents : BytesReceived(how))
    /\ WF_vars(NothingReceived)
    /\ WF_vars(Closed)
    /\ WF_vars(tapsConnectionFree)

LiveSpec == Spec /\ Fairness

-----------------------------------------------------------------------------
(* Properties *)

(* The item that _taps_sent, _taps_expired or _taps_send_error will be     *)
(* called with is still on the send queue, not freed, and is the message   *)
(* written last: overlapping tapsConnectionSend calls do not make the send *)
(* event answer for another message.                                       *)
SendCtxQueued ==
    conn = "open" /\ sendEvent = "added" =>
        /\ IsItem(sndq, send_ctx)
        /\ wire # <<>>
        /\ send_ctx = wire[Len(wire)]

(* Messages reach the socket in the order of the tapsConnectionSend calls  *)
(* and none twice, whatever fails on the way and although a second send    *)
(* goes to the protocol while the first is outstanding.                    *)
WireInOrder == \A i, j \in DOMAIN wire : i < j => wire[i] < wire[j]

(* A message or buffer whose event the application has got, and which it   *)
(* may therefore have freed (taps.h: "DO NOT call Free() until one of the  *)
(* send or receive events for that message has returned"), gets no other.  *)
EventAtMostOnce ==
    [][/\ \A m \in Messages :
            msgFate[m] \notin {"none", "queued"} => msgFate'[m] = msgFate[m]
       /\ \A b \in Buffers :
            bufFate[b] \notin {"none", "queued"} => bufFate'[b] = bufFate[b]
      ]_vars

(* The bytes of the receive events, taken in order, are the peer's stream  *)
(* from its first byte with none lost, repeated or moved, also when a      *)
(* minimum length makes one buffer take several reads.                     *)
StreamIntact == \A i \in DOMAIN stream : stream[i] = i

(* While the connection is open there is exactly one truncated iovec when  *)
(* a queued buffer is partly filled, and none otherwise: none is leaked or *)
(* freed twice by the receive callbacks.                                   *)
TruncVecOwned ==
    conn = "open" =>
        truncVecs = IF \E i \in DOMAIN rcvq : currLength[rcvq[i]] > 0
                    THEN 1 ELSE 0

(* With no failing call, what is on the wire is what was reported sent, in *)
(* that order, and then the one message whose event is outstanding.        *)
SentTracksWire ==
    conn = "open" =>
        wire = reported \o (IF sendEvent = "added" THEN <<send_ctx>> ELSE <<>>)

(* The receiver is ready exactly when no receive is queued; otherwise the  *)
(* oldest receive is with the protocol and its event pending, until a call *)
(* fails or the peer has closed.  protocols.md: TAPS "buffers the          *)
(* application's other send/receive commands until it receives a callback  *)
(* providing the disposition of the previous send or receive".             *)
ReceiverArmed ==
    conn = "open" /\ ~rcvFault =>
        /\ receiveReady <=> rcvq = <<>>
        /\ rcvq # <<>> =>
             /\ receive_ctx = rcvq[1]
             /\ receiveEvent = "added" \/ peerClosed

(* With no failing call every queued message gets its event, also one that *)
(* was handed over too early and returned an error.                        *)
SendsAnswered ==
    \A m \in Messages : msgFate[m] = "queued" ~> msgFate[m] # "queued"

(* Bytes do not wait for ever beside a queued receive.                     *)
BytesAreRead ==
    (rcvq # <<>> /\ arrived > readPos) ~>
        (rcvq = <<>> \/ arrived = readPos \/ conn # "open")

(* Once the peer has closed, the application gets the closed event, and    *)
(* freeing the connection answers every message and buffer still queued.   *)
CloseAnswersAll ==
    peerClosed ~>
        /\ conn = "freed"
        /\ \A m \in Messages : msgFate[m] # "queued"
        /\ \A b \in Buffers : bufFate[b] # "queued"
=============================================================================
