---------------------------- MODULE TapsListener ----------------------------
(***************************************************************************)
(* src/src/taps_listener.c over the listener half of src/src/tcp/tcp.c,    *)
(* with the life cycles of the connections a listener accepts and their    *)
(* references to it: who may free what, and when the application gets the  *)
(* Stopped event.                                                          *)
(*                                                                         *)
(* The event loop is single-threaded, but the library calls the            *)
(* application in the middle of its handlers and the application may call  *)
(* the API from there, so the application callbacks that are running are a *)
(* stack and a handler is split where it calls the application.            *)
(***************************************************************************)
EXTENDS Integers, Sequences, FiniteSets

CONSTANTS
    Conns,          \* connections the peers make, each once
    NoConn,         \* "no connection" in a callback frame
    Rejects,        \* connectionReceived may return without its callbacks
    EarlyFree,      \* tapsListenerFree may be called before tapsListenerStop,
                    \*   and then again
    Faults          \* failing calls: "malloc", "event_add", "bind"

ASSUME ConnsAssumption ==
    /\ IsFiniteSet(Conns)
    /\ NoConn \notin Conns

ASSUME SwitchesAssumption ==
    /\ Rejects \in BOOLEAN
    /\ EarlyFree \in BOOLEAN
    /\ Faults \subseteq {"malloc", "event_add", "bind"}

VARIABLES
    l,              \* the tapsListener: "none", "live", "freed", "failed"
    lctx,           \* its TCP context and accept event: likewise
    stopped,        \* the stopped callback: "null" or "app"
    readyToStop,
    ref_count,
    cst,            \* per connection: where it is in its life
    hasListener,    \* per connection: its listener field is not NULL
    cctx,           \* per connection: its TCP context
    closeEvent,     \* per connection: its close event
    peerGone,       \* per connection: the peer's FIN has arrived
    stack,          \* application callbacks running, innermost last
    stoppedEvents,  \* Stopped events the application has got
    crashed         \* a call through NULL or through freed memory

listenerVars == <<l, lctx, stopped, readyToStop, ref_count>>
connVars     == <<cst, hasListener, cctx, closeEvent>>
vars         == <<listenerVars, connVars, peerGone, stack, stoppedEvents,
                  crashed>>

Objects == {"none", "live", "freed", "failed"}
Frames  == [cb : {"connectionReceived", "stopped", "closed"},
            conn : Conns \cup {NoConn}]

(* Every variable holds a value of the type the code gives it; the         *)
(* unsigned ref_count in particular never passes below zero.               *)
TypeOK ==
    /\ l \in Objects
    /\ lctx \in Objects
    /\ stopped \in {"null", "app"}
    /\ readyToStop \in BOOLEAN
    /\ ref_count \in Nat
    /\ cst \in [Conns -> {"none", "arriving", "open", "closing", "closed",
                          "freed", "rejected", "refused"}]
    /\ hasListener \in [Conns -> BOOLEAN]
    /\ cctx \in [Conns -> Objects]
    /\ closeEvent \in [Conns -> {"none", "added", "freed"}]
    /\ peerGone \in [Conns -> BOOLEAN]
    /\ stack \in Seq(Frames)
    /\ stoppedEvents \in Nat
    /\ crashed \in BOOLEAN

Init ==
    /\ l = "none"
    /\ lctx = "none"
    /\ stopped = "null"
    /\ readyToStop = FALSE
    /\ ref_count = 0
    /\ cst = [c \in Conns |-> "none"]
    /\ hasListener = [c \in Conns |-> FALSE]
    /\ cctx = [c \in Conns |-> "none"]
    /\ closeEvent = [c \in Conns |-> "none"]
    /\ peerGone = [c \in Conns |-> FALSE]
    /\ stack = <<>>
    /\ stoppedEvents = 0
    /\ crashed = FALSE

-----------------------------------------------------------------------------
(* The callback stack *)

Frame(cb, c)  == [cb |-> cb, conn |-> c]
EventLoop     == stack = <<>> /\ ~crashed
Returning(cb) == stack # <<>> /\ ~crashed /\ stack[Len(stack)].cb = cb
Top           == stack[Len(stack)].conn
Caller        == SubSeq(stack, 1, Len(stack) - 1)

(* Call the listener's stopped callback for connection c, on behalf of the *)
(* frames in s: the field is cleared first; if it was NULL already the     *)
(* call crashes.                                                           *)
CallStopped(cb, c, s) ==
    /\ stopped' = "null"
    /\ IF cb = "null"
       THEN /\ crashed' = TRUE
            /\ stack' = s
            /\ UNCHANGED stoppedEvents
       ELSE /\ stack' = Append(s, Frame("stopped", c))
            /\ stoppedEvents' = stoppedEvents + 1
            /\ UNCHANGED crashed

-----------------------------------------------------------------------------
(* Starting and stopping *)

(* Listen in the TCP library.  When socket, bind or listen fails it reads  *)
(* its context after freeing it: the event pointer may have been           *)
(* overwritten by the allocator.                                           *)
Listen(ok) ==
    IF ok
    THEN lctx' = "live" /\ UNCHANGED crashed
    ELSE /\ UNCHANGED lctx
         /\ \/ Faults \cap {"malloc", "bind"} # {} /\ UNCHANGED crashed
            \/ "bind" \in Faults /\ crashed' = TRUE

tapsListenerNew ==
    /\ EventLoop
    /\ l = "none"
    /\ \E ok \in BOOLEAN :
        /\ Listen(ok)
        /\ l' = IF ok THEN "live" ELSE "failed"
    /\ UNCHANGED <<stopped, readyToStop, ref_count>>
    /\ UNCHANGED <<connVars, peerGone, stack, stoppedEvents>>

(* Faulty variant: open connections are not waited for.                    *)
MutTapsStopped(cb) ==
    /\ readyToStop' = TRUE
    /\ CallStopped(cb, NoConn, stack)

(* _taps_stopped, called by the library's Stop with callback field cb.     *)
TapsStopped(cb) ==
    /\ readyToStop' = TRUE
    /\ IF ref_count = 0
       THEN CallStopped(cb, NoConn, stack)
       ELSE stopped' = cb /\ UNCHANGED <<stack, stoppedEvents, crashed>>

(* Stop in the TCP library: the accept event and the context are freed.    *)
Stop(cb) ==
    /\ lctx' = "freed"
    /\ TapsStopped(cb)

(* tapsListenerStop, from the event loop or from a callback.  The          *)
(* application stops a listener once.                                      *)
tapsListenerStop ==
    /\ ~crashed
    /\ l = "live"
    /\ ~readyToStop
    /\ Stop("app")
    /\ UNCHANGED <<l, ref_count, connVars, peerGone>>

(* Faulty variant: freed although connections keep the event waiting.      *)
MutListenerFree ==
    /\ EventLoop
    /\ l = "live"
    /\ readyToStop
    /\ l' = "freed"
    /\ UNCHANGED <<lctx, stopped, readyToStop, ref_count, connVars, peerGone>>
    /\ UNCHANGED <<stack, stoppedEvents, crashed>>

(* tapsListenerFree, from outside every callback as taps.h demands.  An    *)
(* early free stops the listener with no stopped callback; between Stop    *)
(* and the Stopped event a free is refused; otherwise the library is       *)
(* closed and the listener freed.  After an early free nothing tests that  *)
(* the connections have gone: a second one takes the listener from them.   *)
tapsListenerFree ==
    /\ EventLoop
    /\ l = "live"
    /\ \/ /\ EarlyFree
          /\ ~readyToStop
          /\ Stop("null")
          /\ UNCHANGED l
       \/ /\ readyToStop
          /\ stopped = "null"
          /\ l' = "freed"
          /\ UNCHANGED <<lctx, stopped, readyToStop>>
          /\ UNCHANGED <<stack, stoppedEvents, crashed>>
    /\ UNCHANGED <<ref_count, connVars, peerGone>>

-----------------------------------------------------------------------------
(* Connections *)

(* Faulty variant: the new connection is not counted.                      *)
MutAccept(c) ==
    /\ EventLoop
    /\ lctx = "live"
    /\ cst[c] = "none"
    /\ cst' = [cst EXCEPT ![c] = "arriving"]
    /\ hasListener' = [hasListener EXCEPT ![c] = TRUE]
    /\ cctx' = [cctx EXCEPT ![c] = "live"]
    /\ closeEvent' = [closeEvent EXCEPT ![c] = "added"]
    /\ stack' = Append(stack, Frame("connectionReceived", c))
    /\ UNCHANGED <<listenerVars, peerGone, stoppedEvents, crashed>>

(* _tcp_connection_received and _taps_connection_received, up to the       *)
(* application's connectionReceived.  A connection whose close event could *)
(* not be added goes on without one; if tapsConnectionNew fails, conn_ctx  *)
(* is freed with the close event still in the event loop.                  *)
ConnectionReceived(c) ==
    /\ EventLoop
    /\ lctx = "live"
    /\ cst[c] = "none"
    /\ \/ closeEvent' = [closeEvent EXCEPT ![c] = "added"]
       \/ /\ "event_add" \in Faults
          /\ closeEvent' = [closeEvent EXCEPT ![c] = "freed"]
    /\ \/ /\ cst' = [cst EXCEPT ![c] = "arriving"]
          /\ hasListener' = [hasListener EXCEPT ![c] = TRUE]
          /\ cctx' = [cctx EXCEPT ![c] = "live"]
          /\ ref_count' = ref_count + 1
          /\ stack' = Append(stack, Frame("connectionReceived", c))
       \/ /\ "malloc" \in Faults
          /\ cst' = [cst EXCEPT ![c] = "refused"]
          /\ cctx' = [cctx EXCEPT ![c] = "freed"]
          /\ UNCHANGED <<hasListener, ref_count, stack>>
    /\ UNCHANGED <<l, lctx, stopped, readyToStop>>
    /\ UNCHANGED <<peerGone, stoppedEvents, crashed>>

(* The application returned its callbacks: tapsConnectionInitialize.       *)
ConnectionAccepted(c) ==
    /\ Returning("connectionReceived")
    /\ Top = c
    /\ cst' = [cst EXCEPT ![c] = "open"]
    /\ stack' = Caller
    /\ UNCHANGED <<listenerVars, hasListener, cctx, closeEvent, peerGone>>
    /\ UNCHANGED <<stoppedEvents, crashed>>

(* Faulty variant: the last connection does not bring the Stopped event.   *)
MutDeref(c, s, f) ==
    /\ ref_count' = ref_count - 1
    /\ hasListener' = [hasListener EXCEPT ![c] = FALSE]
    /\ stack' = s \o f
    /\ UNCHANGED <<stopped, stoppedEvents, crashed>>

(* Faulty variant: any connection of a stopped listener brings the event.  *)
MutDerefAny(c, s, f) ==
    /\ ref_count' = ref_count - 1
    /\ hasListener' = [hasListener EXCEPT ![c] = FALSE]
    /\ IF readyToStop
       THEN CallStopped(stopped, IF f = <<>> THEN NoConn ELSE c, s)
       ELSE /\ stack' = s \o f
            /\ UNCHANGED <<stopped, stoppedEvents, crashed>>

(* tapsListenerDeref for connection c, whose listener field is cleared     *)
(* after it, with s the frames below and what to do if the listener is     *)
(* not done.  For the last connection of a stopped listener the stopped    *)
(* callback comes first.                                                   *)
Deref(c, s, f) ==
    /\ ref_count' = ref_count - 1
    /\ hasListener' = [hasListener EXCEPT ![c] = FALSE]
    /\ IF readyToStop /\ ref_count = 1
       THEN CallStopped(stopped, IF f = <<>> THEN NoConn ELSE c, s)
       ELSE /\ stack' = s \o f
            /\ UNCHANGED <<stopped, stoppedEvents, crashed>>

(* The application returned no callbacks: _taps_closed, which finds no     *)
(* closed callback to call, then the failure path of the TCP library,      *)
(* which closes the socket and frees conn_ctx but leaves the close event.  *)
ConnectionRejected(c) ==
    /\ Rejects
    /\ Returning("connectionReceived")
    /\ Top = c
    /\ cst' = [cst EXCEPT ![c] = "rejected"]
    /\ cctx' = [cctx EXCEPT ![c] = "freed"]
    /\ Deref(c, Caller, <<>>)
    /\ UNCHANGED <<l, lctx, readyToStop, closeEvent, peerGone>>

PeerCloses(c) ==
    /\ cst[c] \in {"arriving", "open"}
    /\ ~peerGone[c]
    /\ ~crashed
    /\ peerGone' = [peerGone EXCEPT ![c] = TRUE]
    /\ UNCHANGED <<listenerVars, connVars, stack, stoppedEvents, crashed>>

(* Faulty variant: the close event stays in the event loop.                *)
MutConnectionEnds(c) ==
    /\ EventLoop
    /\ l = "live"
    /\ cst[c] = "open"
    /\ closeEvent[c] = "added"
    /\ peerGone[c]
    /\ cst' = [cst EXCEPT ![c] = "closing"]
    /\ Deref(c, stack, <<Frame("closed", c)>>)
    /\ UNCHANGED <<l, lctx, readyToStop, cctx, closeEvent, peerGone>>

(* _tcp_closed with _taps_closed (or, in a protocol that reports errors,   *)
(* _taps_connection_error), up to the first application callback.          *)
ConnectionEnds(c) ==
    /\ EventLoop
    /\ l = "live"
    /\ cst[c] = "open"
    /\ closeEvent[c] = "added"
    /\ peerGone[c]
    /\ cst' = [cst EXCEPT ![c] = "closing"]
    /\ closeEvent' = [closeEvent EXCEPT ![c] = "freed"]
    /\ Deref(c, stack, <<Frame("closed", c)>>)
    /\ UNCHANGED <<l, lctx, readyToStop, cctx, peerGone>>

(* The same when the listener has been freed: its library, with            *)
(* _tcp_closed in it, is closed and tapsListenerDeref writes freed memory. *)
ConnectionEndsLate(c) ==
    /\ EventLoop
    /\ l = "freed"
    /\ cst[c] = "open"
    /\ closeEvent[c] = "added"
    /\ peerGone[c]
    /\ crashed' = TRUE
    /\ UNCHANGED <<listenerVars, connVars, peerGone, stack, stoppedEvents>>

(* The stopped callback returns; if _taps_closed made the call it now      *)
(* calls the closed callback of its connection.                            *)
StoppedReturns ==
    /\ Returning("stopped")
    /\ stack' = IF Top = NoConn THEN Caller
                ELSE Append(Caller, Frame("closed", Top))
    /\ UNCHANGED <<listenerVars, connVars, peerGone, stoppedEvents, crashed>>

(* The closed callback returns and _tcp_closed frees conn_ctx.  The        *)
(* application frees the connection in the callback or later.              *)
ClosedReturns(c) ==
    /\ Returning("closed")
    /\ Top = c
    /\ stack' = Caller
    /\ cctx' = [cctx EXCEPT ![c] = "freed"]
    /\ cst' = [cst EXCEPT ![c] = IF @ = "closing" THEN "closed" ELSE @]
    /\ UNCHANGED <<listenerVars, hasListener, closeEvent, peerGone>>
    /\ UNCHANGED <<stoppedEvents, crashed>>

tapsConnectionFree(c) ==
    /\ ~crashed
    /\ \/ cst[c] = "closed"
       \/ cst[c] = "closing" /\ Returning("closed") /\ Top = c
    /\ cst' = [cst EXCEPT ![c] = "freed"]
    /\ UNCHANGED <<listenerVars, hasListener, cctx, closeEvent, peerGone>>
    /\ UNCHANGED <<stack, stoppedEvents, crashed>>

(* libevent keys events by descriptor: an event left behind by a rejected  *)
(* connection fires for the next connection that gets its descriptor, with *)
(* the freed conn_ctx as its argument.                                     *)
OrphanFires(c, d) ==
    /\ EventLoop
    /\ closeEvent[c] = "added" /\ cctx[c] = "freed"
    /\ cst[d] = "open" /\ peerGone[d]
    /\ crashed' = TRUE
    /\ UNCHANGED <<listenerVars, connVars, peerGone, stack, stoppedEvents>>

Next ==
    \/ tapsListenerNew
    \/ tapsListenerStop
    \/ tapsListenerFree
    \/ StoppedReturns
    \/ \E c \in Conns :
        \/ ConnectionReceived(c)
        \/ ConnectionAccepted(c)
        \/ ConnectionRejected(c)
        \/ PeerCloses(c)
        \/ ConnectionEnds(c)
        \/ ConnectionEndsLate(c)
        \/ ClosedReturns(c)
        \/ tapsConnectionFree(c)
        \/ \E d \in Conns : OrphanFires(c, d)

Spec == Init /\ [][Next]_vars

(* Application callbacks return, and libevent runs the close event of a    *)
(* connection whose peer has gone.                                         *)
Fairness ==
    /\ WF_vars(StoppedReturns)
    /\ \A c \in Conns :
        /\ WF_vars(ConnectionAccepted(c) \/ ConnectionRejected(c))
        /\ WF_vars(ConnectionEnds(c))
        /\ WF_vars(ClosedReturns(c))

LiveSpec == Spec /\ Fairness

-----------------------------------------------------------------------------
(* Properties *)

(* The listener counts exactly the connections that point to it, which are *)
(* the ones that have not ended: each is counted once and released once,   *)
(* rejected ones and ones that end while the listener stops included.      *)
RefCountExact ==
    /\ ref_count = Cardinality({c \in Conns : hasListener[c]})
    /\ \A c \in Conns : hasListener[c] <=> cst[c] \in {"arriving", "open"}

(* An early tapsListenerFree has stopped the listener: readyToStop is set  *)
(* with no callback left and no event delivered.                           *)
FreedEarly == readyToStop /\ stopped = "null" /\ stoppedEvents = 0

(* No connection points to a listener that has been freed, so that         *)
(* _taps_closed never releases freed memory.  The one exception is an      *)
(* application that freed the listener early and then again.               *)
ListenerOutlives ==
    \A c \in Conns : hasListener[c] => l = "live" \/ FreedEarly

(* What the application sees of the listener, for ListenerContract.        *)
Contract == INSTANCE ListenerContract WITH
    phase <- IF readyToStop THEN "stopping" ELSE "listening",
    told  <- stoppedEvents,
    live  <- {c \in Conns : hasListener[c]},
    past  <- {c \in Conns : cst[c] \in {"closing", "closed", "freed", "rejected"}}

(* The listener keeps the promise of taps.h: no connection after Stop, the *)
(* Stopped event only when every connection has let go, and only once.     *)
ImplementsContract == Contract!Spec

(* An event in the event loop has a live conn_ctx as its argument, or its  *)
(* connection was never handed to the application: _tcp_closed, stops and  *)
(* frees leave no close event behind, only the two failure paths of        *)
(* _tcp_connection_received do.                                            *)
OrphansOnlyUnaccepted ==
    \A c \in Conns :
        closeEvent[c] = "added" /\ cctx[c] # "live" =>
            cst[c] \in {"rejected", "refused"}

(* An event in the event loop has a live conn_ctx as its argument: the run *)
(* rejected_event shows that the code does not keep this.                  *)
NoOrphanEvents ==
    \A c \in Conns : closeEvent[c] = "added" => cctx[c] = "live"

(* The library calls through NULL or through freed memory only where       *)
(* socket, bind or listen failed in Listen, or the application freed the   *)
(* listener early, or a connection was rejected, or refused for want of    *)
(* memory, and its close event was left behind.  An application that does  *)
(* neither has no crash when these calls succeed, stops from inside any    *)
(* callback included.                                                      *)
CrashesExplained ==
    crashed =>
        \/ "bind" \in Faults /\ l = "failed"
        \/ EarlyFree /\ FreedEarly
        \/ (Rejects \/ "malloc" \in Faults) /\ ~NoOrphanEvents

(* taps.h: tapsListenerStop "does not actually return the Stopped<> event  *)
(* until all connections spawned by that listener have closed": when the   *)
(* application is told Stopped, it has been told Closed of each.           *)
StoppedAfterClosed ==
    Returning("stopped") => \A c \in Conns : cst[c] # "closing"

(* The close event of an open connection could not be added: the end of    *)
(* the connection goes unnoticed.                                          *)
Unnoticed == \E c \in Conns : cst[c] = "open" /\ closeEvent[c] # "added"

(* If every peer eventually closes, a stopped listener delivers Stopped,   *)
(* whichever connections end, are rejected or are refused on the way,      *)
(* unless event_add failed for an open one or the program has crashed.     *)
StopCompletes ==
    (\A c \in Conns : (cst[c] = "open" ~> peerGone[c])) =>
        (stopped = "app" ~> stoppedEvents > 0 \/ Unnoticed \/ crashed)
=============================================================================
