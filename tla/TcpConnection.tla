--------------------------- MODULE TcpConnection ---------------------------
(***************************************************************************)
(* The connection half of the TCP protocol library, src/src/tcp/tcp.c: the *)
(* conn_ctx of one accepted connection, its three libevent events, the     *)
(* handles Send and Receive that TAPS calls, and the socket underneath.    *)
(*                                                                         *)
(* The module declares state and the effects of each call on it; it has no *)
(* specification of its own.  TapsConnection extends it and calls Send and *)
(* Receive where taps_connection.c calls the protocol's handles.           *)
(*                                                                         *)
(* Messages and receive buffers are numbered 1, 2, ... in the order of the *)
(* application's calls; 0 is the null context.  One message is one element *)
(* of the wire; a byte of the peer's stream is its position in the stream. *)
(***************************************************************************)
EXTENDS Integers, Sequences

CONSTANTS
    MaxSends,        \* bound: tapsConnectionSend calls
    MaxRecvs,        \* bound: tapsConnectionReceive calls
    MaxBytes,        \* bound: bytes the peer sends
    BufLen,          \* length of every receive buffer
    Faults,          \* calls that may fail
    StaleCallbacks   \* what uninitialised callback fields may hold

Messages == 1 .. MaxSends
Buffers  == 1 .. MaxRecvs

ASSUME BoundsAssumption ==
    /\ MaxSends \in Nat
    /\ MaxRecvs \in Nat
    /\ MaxBytes \in Nat
    /\ BufLen \in Nat \ {0}

ASSUME FaultsAssumption ==
    /\ Faults \subseteq {"malloc", "writev", "event_add", "readv"}
    /\ StaleCallbacks \subseteq {"null", "taps", "garbage"}

VARIABLES
    closeEvent,      \* the three events: "added" to the event loop,
    sendEvent,       \*   "idle" (not pending) or "freed"
    receiveEvent,
    sent,            \* the send callbacks of conn_ctx (set together)
    received,        \* the receive callbacks of conn_ctx (set together)
    send_ctx,        \* the message of the last Send that got past the check
    receive_ctx,     \* the buffer of the last Receive
    receive_off,     \* where in that buffer receive_buffer points
    wire,            \* messages written to the socket, oldest first
    memory,          \* memory[b][i]: the stream byte at offset i of buffer b
    arrived,         \* bytes that reached the socket
    readPos,         \* bytes readv has taken from it
    peerClosed       \* the peer's FIN has arrived

tcpSendVars    == <<sendEvent, sent, send_ctx, wire>>
tcpReceiveVars == <<receiveEvent, received, receive_ctx, receive_off>>
socketVars     == <<memory, arrived, readPos, peerClosed>>
tcpVars        == <<closeEvent, tcpSendVars, tcpReceiveVars, socketVars>>

EventStates == {"added", "idle", "freed"}

TcpTypeOK ==
    /\ closeEvent \in EventStates
    /\ sendEvent \in EventStates
    /\ receiveEvent \in EventStates
    /\ sent \in {"null", "taps", "garbage"}
    /\ received \in {"null", "taps", "garbage"}
    /\ send_ctx \in 0 .. MaxSends
    /\ receive_ctx \in 0 .. MaxRecvs
    /\ receive_off \in 0 .. BufLen
    /\ wire \in Seq(Messages)
    /\ memory \in [Buffers -> [0 .. BufLen - 1 -> 0 .. MaxBytes]]
    /\ arrived \in 0 .. MaxBytes
    /\ readPos \in 0 .. arrived
    /\ peerClosed \in BOOLEAN

(* An accepted connection: _tcp_connection_received mallocs conn_ctx and   *)
(* does not clear it, so the callback fields hold whatever was there.      *)
(* When event_add fails the close event is freed and the connection goes   *)
(* on without it.                                                          *)
TcpInit ==
    /\ closeEvent \in {"added"} \cup
            (IF "event_add" \in Faults THEN {"freed"} ELSE {})
    /\ sendEvent = "idle"
    /\ receiveEvent = "idle"
    /\ sent \in StaleCallbacks
    /\ received \in StaleCallbacks
    /\ send_ctx = 0
    /\ receive_ctx = 0
    /\ receive_off = 0
    /\ wire = <<>>
    /\ memory = [b \in Buffers |-> [i \in 0 .. BufLen - 1 |-> 0]]
    /\ arrived = 0
    /\ readPos = 0
    /\ peerClosed = FALSE

-----------------------------------------------------------------------------
(* Send *)

(* The fields are set once, when they are found null.                      *)
SetOnce(field) == IF field = "null" THEN "taps" ELSE field

(* Faulty variant: the context is stored before the pending check.         *)
MutSend(m, pending, r) ==
    /\ sent' = SetOnce(sent)
    /\ send_ctx' = m
    /\ \/ /\ pending
          /\ r = "err"
          /\ UNCHANGED <<sendEvent, wire>>
       \/ /\ ~pending
          /\ r = "ok"
          /\ wire' = Append(wire, m)
          /\ sendEvent' = "added"

(* Faulty variant: no pending check at all.                                *)
MutSendAgain(m, pending, r) ==
    /\ sent' = SetOnce(sent)
    /\ send_ctx' = m
    /\ wire' = Append(wire, m)
    /\ sendEvent' = "added"
    /\ r = "ok"

(* Send(proto_ctx, m) returning r.  pending is event_pending(sendEvent):   *)
(* FALSE when the caller runs inside the callback of that event, which     *)
(* libevent removed before it called.                                      *)
Send(m, pending, r) ==
    /\ sent' = SetOnce(sent)
    /\ \/ /\ pending
          /\ r = "err"
          /\ UNCHANGED <<sendEvent, send_ctx, wire>>
       \/ /\ ~pending
          /\ send_ctx' = m
          /\ \/ /\ "writev" \in Faults
                /\ r = "err"
                /\ sendEvent' = "idle"
                /\ UNCHANGED wire
             \/ /\ wire' = Append(wire, m)
                /\ \/ r = "ok" /\ sendEvent' = "added"
                   \/ "event_add" \in Faults /\ r = "err" /\ sendEvent' = "idle"

-----------------------------------------------------------------------------
(* Receive *)

(* Receive(proto_ctx, b) with receive_buffer pointing off bytes into b.    *)
(* TAPS ignores the return value.                                          *)
Receive(b, off, pending) ==
    /\ received' = SetOnce(received)
    /\ IF pending
       THEN UNCHANGED <<receiveEvent, receive_ctx, receive_off>>
       ELSE /\ receive_ctx' = b
            /\ receive_off' = off
            /\ receiveEvent' \in {"added"} \cup
                    (IF "event_add" \in Faults THEN {"idle"} ELSE {})

(* The receive event fires when there are bytes or the end of the stream.  *)
Readable == arrived > readPos \/ peerClosed

LeastOf(x, y) == IF x <= y THEN x ELSE y

(* What readv may return in _tcp_received.                                 *)
ReadvResults ==
    {LeastOf(arrived - readPos, BufLen - receive_off)} \cup
        (IF "readv" \in Faults THEN {-1} ELSE {})

(* readv fills the buffer from where receive_buffer points.                *)
ReadInto(b, off, n) ==
    [memory EXCEPT ![b] =
        [i \in 0 .. BufLen - 1 |->
            IF i \in off .. off + n - 1 THEN readPos + 1 + i - off ELSE @[i]]]

-----------------------------------------------------------------------------
(* The peer *)

PeerSend ==
    /\ ~peerClosed
    /\ arrived < MaxBytes
    /\ arrived' = arrived + 1
    /\ UNCHANGED <<memory, readPos, peerClosed>>

PeerClose ==
    /\ ~peerClosed
    /\ peerClosed' = TRUE
    /\ UNCHANGED <<memory, arrived, readPos>>

(* _tcp_closed: every event deleted and freed, the descriptor closed.      *)
CloseSocket ==
    /\ closeEvent = "added"
    /\ peerClosed
    /\ closeEvent' = "freed"
    /\ sendEvent' = "freed"
    /\ receiveEvent' = "freed"
    /\ UNCHANGED <<sent, send_ctx, wire, received, receive_ctx, receive_off>>
    /\ UNCHANGED socketVars
=============================================================================
