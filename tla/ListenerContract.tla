-------------------------- MODULE ListenerContract --------------------------
(***************************************************************************)
(* What taps.h promises of a listener, whatever the protocol underneath:   *)
(* "tapsListenerStop will stop allowing new connections immediately, but   *)
(* it does not actually return the Stopped<> event until all connections   *)
(* spawned by that listener have closed", and the event comes once: told   *)
(* counts the events, so that a second one would be a step of its own.     *)
(***************************************************************************)
CONSTANT Conns

VARIABLES
    phase,     \* "listening" or "stopping"
    told,      \* Stopped events delivered
    live,      \* connections of the listener that have not ended
    past       \* connections that have ended

contractVars == <<phase, told, live, past>>

Init ==
    /\ phase = "listening"
    /\ told = 0
    /\ live = {}
    /\ past = {}

(* A new connection, only before the listener is stopped.                  *)
Connect(c) ==
    /\ phase = "listening"
    /\ c \notin live \cup past
    /\ live' = live \cup {c}
    /\ UNCHANGED <<phase, told, past>>

(* The end of a connection; the last one may bring the Stopped event.      *)
End(c) ==
    /\ c \in live
    /\ live' = live \ {c}
    /\ past' = past \cup {c}
    /\ \/ UNCHANGED told
       \/ phase = "stopping" /\ live' = {} /\ told = 0 /\ told' = 1
    /\ UNCHANGED phase

(* Stop refuses new connections at once; with none left the Stopped event  *)
(* comes in the same call.                                                 *)
Stop ==
    /\ phase = "listening"
    /\ phase' = "stopping"
    /\ \/ UNCHANGED told
       \/ live = {} /\ told = 0 /\ told' = 1
    /\ UNCHANGED <<live, past>>

Next ==
    \/ \E c \in Conns : Connect(c) \/ End(c)
    \/ Stop

Spec == Init /\ [][Next]_contractVars
=============================================================================
