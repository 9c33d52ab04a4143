------------------------- MODULE TapsListenerProofs -------------------------
(***************************************************************************)
(* Proofs about TapsListener for any finite set of connections, any        *)
(* failing calls, and applications that reject connections or free the     *)
(* listener early.                                                         *)
(***************************************************************************)
EXTENDS TapsListener, FiniteSetTheorems, SequenceTheorems, TLAPS

Holders == {c \in Conns : hasListener[c]}

(* Only the outermost callback can be connectionReceived, and its          *)
(* connection has been counted but not yet handed over, by a listener that *)
(* is still there.                                                         *)
StackOK ==
    \A i \in 1 .. Len(stack) :
        stack[i].cb = "connectionReceived" =>
            /\ i = 1
            /\ stack[i].conn \in Conns
            /\ cst[stack[i].conn] = "arriving"
            /\ l = "live"

(* How the fields of the listener move together.                           *)
PhaseOK ==
    /\ lctx = "live" => l = "live" /\ ~readyToStop
    /\ l = "live" /\ ~readyToStop => lctx = "live"
    /\ ~readyToStop => stopped = "null"
    /\ stoppedEvents > 0 => readyToStop /\ ref_count = 0 /\ stopped = "null"
    /\ l \in {"none", "failed"} => ref_count = 0 /\ ~readyToStop
    /\ l = "freed" => stoppedEvents > 0 \/ FreedEarly

IInv == TypeOK /\ RefCountExact /\ StackOK /\ PhaseOK

-----------------------------------------------------------------------------

LEMMA HoldersFinite == IsFiniteSet(Holders)
  BY ConnsAssumption, FS_Subset DEF Holders

(* Counting one more holder. *)
LEMMA AddHolder ==
    ASSUME NEW c \in Conns, ~hasListener[c],
           hasListener \in [Conns -> BOOLEAN],
           hasListener' = [hasListener EXCEPT ![c] = TRUE]
    PROVE  Cardinality(Holders') = Cardinality(Holders) + 1
  <1>1. Holders' = Holders \cup {c}
    BY DEF Holders
  <1>2. c \notin Holders
    BY DEF Holders
  <1> QED
    BY <1>1, <1>2, HoldersFinite, FS_AddElement

(* Releasing one holder. *)
LEMMA DropHolder ==
    ASSUME NEW c \in Conns, hasListener[c],
           hasListener \in [Conns -> BOOLEAN],
           hasListener' = [hasListener EXCEPT ![c] = FALSE]
    PROVE  Cardinality(Holders') = Cardinality(Holders) - 1
  <1>1. Holders' = Holders \ {c}
    BY DEF Holders
  <1>2. c \in Holders
    BY DEF Holders
  <1> QED
    BY <1>1, <1>2, HoldersFinite, FS_RemoveElement

LEMMA HoldersPositive ==
    ASSUME NEW c \in Conns, hasListener[c]
    PROVE  Cardinality(Holders) \in Nat \ {0}
  <1>1. Holders # {}
    BY DEF Holders
  <1> QED
    BY <1>1, HoldersFinite, FS_EmptySet, FS_CardinalityType

-----------------------------------------------------------------------------
(* The stack after a callback has returned. *)
LEMMA CallerStack ==
    ASSUME stack \in Seq(Frames), stack # <<>>
    PROVE  /\ Caller \in Seq(Frames)
           /\ Len(Caller) = Len(stack) - 1
           /\ \A i \in 1 .. Len(stack) - 1 : Caller[i] = stack[i]
           /\ stack[Len(stack)] \in Frames
  <1> DEFINE n == Len(stack) - 1
  <1>1. n \in Nat /\ Len(stack) = n + 1
    <2>1. Len(stack) \in Nat /\ Len(stack) # 0
      BY EmptySeq, LenProperties
    <2> QED
      BY <2>1
  <1>2. \A i \in 1 .. Len(stack) : stack[i] \in Frames
    BY ElementOfSeq
  <1> HIDE DEF n
  <1>3. \A i \in 1 .. n : stack[i] \in Frames
    BY <1>1, <1>2
  <1>4. /\ Caller \in Seq(Frames)
        /\ Len(Caller) = IF 1 <= n THEN n - 1 + 1 ELSE 0
        /\ \A i \in 1 .. n - 1 + 1 : Caller[i] = stack[1 + i - 1]
    BY <1>1, <1>3, SubSeqProperties, 1 \in Int, n \in Int DEF Caller, n
  <1>5. Len(Caller) = n
    BY <1>1, <1>4
  <1>6. \A i \in 1 .. n : Caller[i] = stack[i]
    BY <1>1, <1>4
  <1>7. stack[Len(stack)] \in Frames
    BY <1>1, <1>2
  <1> QED
    BY <1>4, <1>5, <1>6, <1>7 DEF n

(* A frame of another callback may be pushed, on the whole stack or on     *)
(* what is left of it.                                                     *)
LEMMA PushFrame ==
    ASSUME NEW s \in Seq(Frames), NEW c \in Conns \cup {NoConn},
           NEW cb \in {"connectionReceived", "stopped", "closed"}
    PROVE  /\ Append(s, Frame(cb, c)) \in Seq(Frames)
           /\ Len(Append(s, Frame(cb, c))) = Len(s) + 1
           /\ \A i \in 1 .. Len(s) : Append(s, Frame(cb, c))[i] = s[i]
           /\ Append(s, Frame(cb, c))[Len(s) + 1] = Frame(cb, c)
  <1>1. Frame(cb, c) \in Frames
    BY DEF Frame, Frames
  <1> QED
    BY <1>1

LEMMA InitIInv == Init => IInv
  <1> SUFFICES ASSUME Init PROVE IInv
    OBVIOUS
  <1> USE DEF Init
  <1>1. TypeOK
    <2>1. hasListener \in [Conns -> BOOLEAN] /\ peerGone \in [Conns -> BOOLEAN]
      BY Zenon
    <2>2. stack \in Seq(Frames)
      OBVIOUS
    <2> QED
      BY <2>1, <2>2 DEF TypeOK, Objects
  <1>2. RefCountExact
    <2>1. Holders = {}
      BY DEF Holders
    <2>2. Cardinality(Holders) = 0
      BY <2>1, FS_EmptySet
    <2> QED
      BY <2>2 DEF RefCountExact, Holders
  <1>3. StackOK
    BY DEF StackOK
  <1>4. PhaseOK
    BY DEF PhaseOK
  <1> QED
    BY <1>1, <1>2, <1>3, <1>4 DEF IInv

(* An action that leaves the connections and the count alone. *)
LEMMA CountUnchanged ==
    ASSUME RefCountExact, ref_count' = ref_count,
           hasListener' = hasListener, cst' = cst
    PROVE  RefCountExact'
  BY DEF RefCountExact

(* _taps_stopped keeps the stack well formed; it delivers Stopped only     *)
(* when nothing is counted.                                                *)
LEMMA TapsStoppedStep ==
    ASSUME TypeOK, StackOK, NEW cb \in {"null", "app"}, TapsStopped(cb),
           cst' = cst, l' = l
    PROVE  /\ stopped' \in {"null", "app"}
           /\ readyToStop' = TRUE
           /\ stack' \in Seq(Frames)
           /\ stoppedEvents' \in Nat
           /\ crashed' \in BOOLEAN
           /\ StackOK'
           /\ stoppedEvents' # stoppedEvents =>
                ref_count = 0 /\ stopped' = "null"
  <1>1. CASE ref_count = 0 /\ cb = "app"
    <2>1. stack' = Append(stack, Frame("stopped", NoConn))
      BY <1>1 DEF TapsStopped, CallStopped
    <2>2. /\ stack' \in Seq(Frames)
          /\ Len(stack') = Len(stack) + 1
          /\ \A i \in 1 .. Len(stack) : stack'[i] = stack[i]
          /\ stack'[Len(stack) + 1] = Frame("stopped", NoConn)
      BY <2>1, PushFrame DEF TypeOK
    <2>3. StackOK'
      BY <2>2 DEF StackOK, TypeOK, Frame
    <2> QED
      BY <1>1, <2>2, <2>3 DEF TapsStopped, CallStopped, TypeOK
  <1>2. CASE ~(ref_count = 0 /\ cb = "app")
    <2>1. UNCHANGED <<stack, stoppedEvents>> /\ crashed' \in BOOLEAN
      BY <1>2 DEF TapsStopped, CallStopped, TypeOK
    <2>2. stopped' \in {"null", "app"}
      BY <1>2 DEF TapsStopped, CallStopped, TypeOK
    <2> QED
      BY <2>1, <2>2 DEF TapsStopped, StackOK, TypeOK
  <1> QED
    BY <1>1, <1>2

(* tapsListenerDeref for a connection that is counted, from the event      *)
(* loop's own handler.                                                     *)
LEMMA DerefStep ==
    ASSUME IInv, NEW c \in Conns, hasListener[c],
           NEW f, f = <<>> \/ f = <<Frame("closed", c)>>,
           Deref(c, <<>>, f)
    PROVE  /\ stopped' \in {"null", "app"}
           /\ ref_count' \in Nat
           /\ ref_count' = Cardinality(Holders')
           /\ hasListener' = [hasListener EXCEPT ![c] = FALSE]
           /\ stoppedEvents' \in Nat
           /\ crashed' \in BOOLEAN
           /\ stack' \in Seq(Frames)
           /\ StackOK'
           /\ stoppedEvents' # stoppedEvents =>
                ref_count' = 0 /\ readyToStop /\ stopped' = "null"
           /\ stopped = "null" => stopped' = "null"
           /\ stoppedEvents' >= stoppedEvents
  <1>1. ref_count' = ref_count - 1 /\ hasListener' = [hasListener EXCEPT ![c] = FALSE]
    BY DEF Deref
  <1>2. ref_count = Cardinality(Holders)
    BY DEF IInv, RefCountExact, Holders
  <1>3. Cardinality(Holders') = Cardinality(Holders) - 1
    BY <1>1, DropHolder DEF IInv, TypeOK
  <1>4. ref_count' \in Nat /\ ref_count' = Cardinality(Holders')
    BY <1>1, <1>2, <1>3, HoldersPositive
  <1>5. /\ stopped' \in {"null", "app"}
        /\ stoppedEvents' \in Nat
        /\ crashed' \in BOOLEAN
        /\ stoppedEvents' # stoppedEvents =>
             ref_count = 1 /\ readyToStop /\ stopped' = "null"
        /\ stopped = "null" => stopped' = "null"
        /\ stoppedEvents' >= stoppedEvents
    <2>0. /\ stopped \in {"null", "app"}
          /\ stoppedEvents \in Nat
          /\ crashed \in BOOLEAN
      BY DEF IInv, TypeOK
    <2>1. CASE readyToStop /\ ref_count = 1
      <3>1. /\ stopped' = "null"
            /\ stoppedEvents' \in {stoppedEvents, stoppedEvents + 1}
        BY <2>1 DEF Deref, CallStopped
      <3>2. crashed' \in BOOLEAN
        BY <2>0, <2>1, Zenon DEF Deref, CallStopped
      <3>3. stoppedEvents' \in Nat /\ stoppedEvents' >= stoppedEvents
        BY <2>0, <3>1
      <3> QED
        BY <2>1, <3>1, <3>2, <3>3
    <2>2. CASE ~(readyToStop /\ ref_count = 1)
      <3>1. UNCHANGED <<stopped, stoppedEvents, crashed>>
        BY <2>2 DEF Deref
      <3> QED
        BY <2>0, <3>1
    <2> QED
      BY <2>1, <2>2
  <1>6. \/ stack' = <<>>
        \/ \E cb \in {"stopped", "closed"}, d \in Conns \cup {NoConn} :
             stack' = <<Frame(cb, d)>>
    BY DEF Deref, CallStopped
  <1>7. stack' \in Seq(Frames) /\ StackOK'
    <2>1. CASE stack' = <<>>
      BY <2>1 DEF StackOK
    <2>2. ASSUME NEW cb \in {"stopped", "closed"}, NEW d \in Conns \cup {NoConn},
                 stack' = <<Frame(cb, d)>>
          PROVE  stack' \in Seq(Frames) /\ StackOK'
      BY <2>2 DEF StackOK, Frame, Frames
    <2> QED
      BY <1>6, <2>1, <2>2
  <1> QED
    BY <1>1, <1>4, <1>5, <1>7

-----------------------------------------------------------------------------
(* Every action preserves the invariant. *)

LEMMA NewStep == IInv /\ tapsListenerNew => IInv'
  <1> SUFFICES ASSUME IInv, tapsListenerNew PROVE IInv'
    OBVIOUS
  <1> USE DEF IInv, tapsListenerNew, Listen, connVars
  <1>1. TypeOK'
    <2>1. crashed' \in BOOLEAN
      BY Zenon DEF TypeOK
    <2>2. l' \in Objects /\ lctx' \in Objects
      BY DEF TypeOK, Objects
    <2> QED
      BY <2>1, <2>2 DEF TypeOK
  <1>2. RefCountExact'
    BY CountUnchanged
  <1>3. StackOK'
    BY DEF StackOK
  <1>4. PhaseOK'
    BY DEF PhaseOK, TypeOK
  <1> QED
    BY <1>1, <1>2, <1>3, <1>4

LEMMA StopStep == IInv /\ tapsListenerStop => IInv'
  <1> SUFFICES ASSUME IInv, tapsListenerStop PROVE IInv'
    OBVIOUS
  <1> USE DEF IInv, tapsListenerStop, Stop, connVars
  <1>0. /\ stopped' \in {"null", "app"}
        /\ readyToStop' = TRUE
        /\ stack' \in Seq(Frames)
        /\ stoppedEvents' \in Nat
        /\ crashed' \in BOOLEAN
        /\ StackOK'
        /\ stoppedEvents' # stoppedEvents =>
             ref_count = 0 /\ stopped' = "null"
    BY TapsStoppedStep
  <1>1. TypeOK'
    BY <1>0 DEF TypeOK, Objects
  <1>2. RefCountExact'
    BY CountUnchanged
  <1>3. PhaseOK'
    BY <1>0 DEF PhaseOK, TypeOK
  <1> QED
    BY <1>0, <1>1, <1>2, <1>3

LEMMA FreeStep == IInv /\ tapsListenerFree => IInv'
  <1> SUFFICES ASSUME IInv, tapsListenerFree PROVE IInv'
    OBVIOUS
  <1> USE DEF IInv, connVars
  <1>0. UNCHANGED <<ref_count, connVars, peerGone>>
    BY DEF tapsListenerFree
  <1>1. RefCountExact'
    BY <1>0, CountUnchanged
  <1>2. CASE ~readyToStop /\ l = "live" /\ lctx' = "freed" /\
             TapsStopped("null") /\ l' = l
    <2>1. /\ stopped' \in {"null", "app"}
          /\ readyToStop' = TRUE
          /\ stack' \in Seq(Frames)
          /\ stoppedEvents' \in Nat
          /\ crashed' \in BOOLEAN
          /\ StackOK'
          /\ stoppedEvents' # stoppedEvents =>
               ref_count = 0 /\ stopped' = "null"
      BY <1>0, <1>2, TapsStoppedStep
    <2>2. TypeOK'
      BY <1>0, <1>2, <2>1 DEF TypeOK, Objects
    <2>3. PhaseOK'
      BY <1>0, <1>2, <2>1 DEF PhaseOK, TypeOK
    <2> QED
      BY <1>1, <2>1, <2>2, <2>3
  <1>3. CASE /\ readyToStop
             /\ stopped = "null"
             /\ stack = <<>>
             /\ l = "live"
             /\ l' = "freed"
             /\ UNCHANGED <<lctx, stopped, readyToStop>>
             /\ UNCHANGED <<stack, stoppedEvents, crashed>>
    <2>1. TypeOK'
      BY <1>0, <1>3 DEF TypeOK, Objects
    <2>2. StackOK'
      BY <1>0, <1>3 DEF StackOK
    <2>3. PhaseOK'
      BY <1>0, <1>3 DEF PhaseOK, FreedEarly, TypeOK
    <2> QED
      BY <1>1, <2>1, <2>2, <2>3
  <1> QED
    BY <1>2, <1>3 DEF tapsListenerFree, Stop, EventLoop

LEMMA ReceivedStep ==
    ASSUME IInv, NEW c \in Conns, ConnectionReceived(c)
    PROVE  IInv'
  <1> USE DEF IInv
  <1>0. /\ UNCHANGED <<l, lctx, stopped, readyToStop>>
        /\ UNCHANGED <<peerGone, stoppedEvents, crashed>>
        /\ stack = <<>>
        /\ lctx = "live"
        /\ cst[c] = "none"
        /\ closeEvent' \in [Conns -> {"none", "added", "freed"}]
    BY DEF ConnectionReceived, EventLoop, TypeOK
  <1>1. ~hasListener[c]
    BY <1>0 DEF RefCountExact
  <1>2. CASE /\ cst' = [cst EXCEPT ![c] = "arriving"]
             /\ hasListener' = [hasListener EXCEPT ![c] = TRUE]
             /\ cctx' = [cctx EXCEPT ![c] = "live"]
             /\ ref_count' = ref_count + 1
             /\ stack' = Append(stack, Frame("connectionReceived", c))
    <2>1. Cardinality(Holders') = Cardinality(Holders) + 1
      BY <1>1, <1>2, AddHolder DEF TypeOK
    <2>2. stack' = <<Frame("connectionReceived", c)>>
      BY <1>0, <1>2
    <2>3. stack' \in Seq(Frames)
      BY <2>2 DEF Frame, Frames
    <2>4. TypeOK'
      <3>1. hasListener' \in [Conns -> BOOLEAN]
        BY <1>2, Zenon DEF TypeOK
      <3>2. /\ cst' \in [Conns -> {"none", "arriving", "open", "closing",
                          "closed", "freed", "rejected", "refused"}]
            /\ cctx' \in [Conns -> Objects]
            /\ ref_count' \in Nat
        BY <1>2 DEF TypeOK, Objects
      <3> QED
        BY <1>0, <2>3, <3>1, <3>2 DEF TypeOK
    <2>5. RefCountExact'
      <3>1. ref_count' = Cardinality(Holders')
        BY <1>2, <2>1 DEF RefCountExact, Holders
      <3>2. \A d \in Conns : hasListener'[d] <=> cst'[d] \in {"arriving", "open"}
        BY <1>2 DEF RefCountExact, TypeOK
      <3> QED
        BY <3>1, <3>2 DEF RefCountExact, Holders
    <2>6. StackOK'
      BY <1>0, <1>2, <2>2 DEF StackOK, Frame, TypeOK, PhaseOK
    <2>7. PhaseOK'
      BY <1>0, <1>2 DEF PhaseOK, TypeOK
    <2> QED
      BY <2>4, <2>5, <2>6, <2>7
  <1>3. CASE /\ cst' = [cst EXCEPT ![c] = "refused"]
             /\ cctx' = [cctx EXCEPT ![c] = "freed"]
             /\ UNCHANGED <<hasListener, ref_count, stack>>
    <2>1. TypeOK'
      BY <1>0, <1>3 DEF TypeOK, Objects
    <2>2. RefCountExact'
      BY <1>0, <1>1, <1>3 DEF RefCountExact, TypeOK
    <2>3. StackOK'
      BY <1>0, <1>3 DEF StackOK
    <2>4. PhaseOK'
      BY <1>0, <1>3 DEF PhaseOK
    <2> QED
      BY <2>1, <2>2, <2>3, <2>4
  <1> QED
    BY <1>2, <1>3 DEF ConnectionReceived

(* When connectionReceived returns, it is the only callback running. *)
LEMMA TopIsArriving ==
    ASSUME IInv, NEW c \in Conns, Returning("connectionReceived"), Top = c
    PROVE  /\ cst[c] = "arriving"
           /\ hasListener[c]
           /\ Caller = <<>>
           /\ l = "live"
  <1>1. stack \in Seq(Frames) /\ stack # <<>>
    BY DEF IInv, TypeOK, Returning
  <1>2. Len(stack) \in 1 .. Len(stack)
    <2>1. Len(stack) \in Nat /\ Len(stack) # 0
      BY <1>1, EmptySeq, LenProperties
    <2> QED
      BY <2>1
  <1>3. Len(stack) = 1 /\ cst[c] = "arriving" /\ l = "live"
    BY <1>2 DEF IInv, StackOK, Returning, Top
  <1>4. hasListener[c]
    BY <1>3 DEF IInv, RefCountExact
  <1>5. Caller = <<>>
    <2>1. Caller \in Seq(Frames) /\ Len(Caller) = Len(stack) - 1
      BY <1>1, CallerStack
    <2>2. Len(Caller) = 0
      BY <1>3, <2>1
    <2> QED
      BY <2>1, <2>2, EmptySeq
  <1> QED
    BY <1>3, <1>4, <1>5

LEMMA AcceptedStep ==
    ASSUME IInv, NEW c \in Conns, ConnectionAccepted(c)
    PROVE  IInv'
  <1> USE DEF IInv
  <1>1. cst[c] = "arriving" /\ hasListener[c] /\ stack' = <<>>
    BY TopIsArriving DEF ConnectionAccepted
  <1>2. /\ UNCHANGED <<l, lctx, stopped, readyToStop, ref_count, hasListener>>
        /\ UNCHANGED <<cctx, closeEvent, peerGone, stoppedEvents, crashed>>
        /\ cst' = [cst EXCEPT ![c] = "open"]
    BY DEF ConnectionAccepted, listenerVars
  <1>3. TypeOK'
    BY <1>1, <1>2 DEF TypeOK
  <1>4. RefCountExact'
    BY <1>1, <1>2 DEF RefCountExact, TypeOK
  <1>5. StackOK'
    BY <1>1 DEF StackOK
  <1>6. PhaseOK'
    BY <1>2 DEF PhaseOK, FreedEarly
  <1> QED
    BY <1>3, <1>4, <1>5, <1>6

(* What the two actions that release a connection have in common.          *)
LEMMA ReleaseStep ==
    ASSUME IInv, l = "live", NEW c \in Conns, hasListener[c],
           NEW f, f = <<>> \/ f = <<Frame("closed", c)>>,
           Deref(c, <<>>, f),
           UNCHANGED <<l, lctx, readyToStop, peerGone>>,
           cctx' \in [Conns -> Objects],
           closeEvent' \in [Conns -> {"none", "added", "freed"}],
           NEW st \in {"closing", "rejected"},
           cst' = [cst EXCEPT ![c] = st]
    PROVE  IInv'
  <1>1. /\ stopped' \in {"null", "app"}
        /\ ref_count' \in Nat
        /\ ref_count' = Cardinality(Holders')
        /\ hasListener' = [hasListener EXCEPT ![c] = FALSE]
        /\ stoppedEvents' \in Nat
        /\ crashed' \in BOOLEAN
        /\ stack' \in Seq(Frames)
        /\ StackOK'
        /\ stoppedEvents' # stoppedEvents =>
             ref_count' = 0 /\ readyToStop /\ stopped' = "null"
        /\ stopped = "null" => stopped' = "null"
        /\ stoppedEvents' >= stoppedEvents
    BY DerefStep
  <1>2. TypeOK'
    <2>1. hasListener' \in [Conns -> BOOLEAN]
      BY <1>1, Zenon DEF IInv, TypeOK
    <2>2. cst' \in [Conns -> {"none", "arriving", "open", "closing",
                      "closed", "freed", "rejected", "refused"}]
      BY DEF IInv, TypeOK
    <2> QED
      BY <1>1, <2>1, <2>2 DEF IInv, TypeOK
  <1>3. RefCountExact'
    <2>1. \A d \in Conns : hasListener'[d] <=> cst'[d] \in {"arriving", "open"}
      BY <1>1 DEF IInv, RefCountExact, TypeOK
    <2> QED
      BY <1>1, <2>1 DEF RefCountExact, Holders
  <1>4. PhaseOK'
    <2>1. ref_count # 0
      BY HoldersPositive DEF IInv, RefCountExact, Holders
    <2>2. stoppedEvents = 0
      BY <2>1 DEF IInv, PhaseOK, TypeOK, Objects
    <2> QED
      BY <1>1, <2>1, <2>2 DEF IInv, PhaseOK, TypeOK
  <1> QED
    BY <1>1, <1>2, <1>3, <1>4 DEF IInv

LEMMA RejectedStep ==
    ASSUME IInv, NEW c \in Conns, ConnectionRejected(c)
    PROVE  IInv'
  <1>1. hasListener[c] /\ Caller = <<>> /\ l = "live"
    BY TopIsArriving DEF ConnectionRejected
  <1>2. Deref(c, <<>>, <<>>)
    BY <1>1 DEF ConnectionRejected
  <1>3. cctx' \in [Conns -> Objects] /\
        closeEvent' \in [Conns -> {"none", "added", "freed"}]
    BY DEF ConnectionRejected, IInv, TypeOK, Objects
  <1> QED
    BY <1>1, <1>2, <1>3, ReleaseStep DEF ConnectionRejected

LEMMA EndsStep ==
    ASSUME IInv, NEW c \in Conns, ConnectionEnds(c)
    PROVE  IInv'
  <1>1. hasListener[c]
    BY DEF ConnectionEnds, IInv, RefCountExact
  <1>2. Deref(c, <<>>, <<Frame("closed", c)>>)
    BY DEF ConnectionEnds, EventLoop
  <1>3. cctx' \in [Conns -> Objects] /\
        closeEvent' \in [Conns -> {"none", "added", "freed"}]
    BY DEF ConnectionEnds, IInv, TypeOK
  <1> QED
    BY <1>1, <1>2, <1>3, ReleaseStep DEF ConnectionEnds

(* A callback returns to what is left of the stack. *)
LEMMA CallerOK ==
    ASSUME IInv, stack # <<>>, stack' = Caller, l' = l,
           \A d \in Conns : cst[d] = "arriving" => cst'[d] = "arriving"
    PROVE  stack' \in Seq(Frames) /\ StackOK'
  <1>1. /\ Caller \in Seq(Frames)
        /\ Len(Caller) = Len(stack) - 1
        /\ \A i \in 1 .. Len(stack) - 1 : Caller[i] = stack[i]
    BY CallerStack DEF IInv, TypeOK
  <1> QED
    BY <1>1 DEF IInv, StackOK, TypeOK

LEMMA StoppedReturnsStep == IInv /\ StoppedReturns => IInv'
  <1> SUFFICES ASSUME IInv, StoppedReturns PROVE IInv'
    OBVIOUS
  <1>1. /\ stack # <<>>
        /\ UNCHANGED <<l, lctx, stopped, readyToStop, ref_count, cst>>
        /\ UNCHANGED <<hasListener, cctx, closeEvent, peerGone>>
        /\ UNCHANGED <<stoppedEvents, crashed>>
    BY DEF StoppedReturns, Returning, listenerVars, connVars
  <1>2. stack' \in Seq(Frames) /\ StackOK'
    <2>1. CASE stack' = Caller
      BY <1>1, <2>1, CallerOK
    <2>2. CASE Top # NoConn /\ stack' = Append(Caller, Frame("closed", Top))
      <3>1. /\ Caller \in Seq(Frames)
            /\ Len(Caller) = Len(stack) - 1
            /\ \A i \in 1 .. Len(stack) - 1 : Caller[i] = stack[i]
            /\ stack[Len(stack)] \in Frames
        BY <1>1, CallerStack DEF IInv, TypeOK
      <3>2. Top \in Conns \cup {NoConn}
        BY <3>1 DEF Top, Frames
      <3>3. /\ stack' \in Seq(Frames)
            /\ Len(stack') = Len(Caller) + 1
            /\ \A i \in 1 .. Len(Caller) : stack'[i] = Caller[i]
            /\ stack'[Len(Caller) + 1] = Frame("closed", Top)
        BY <2>2, <3>1, <3>2, PushFrame
      <3>4. Len(stack) \in Nat
        BY LenProperties DEF IInv, TypeOK
      <3>5. Len(stack') = Len(stack) /\ stack'[Len(stack)].cb = "closed"
        BY <3>1, <3>3, <3>4 DEF Frame
      <3>6. ASSUME NEW i \in 1 .. Len(stack'),
                   stack'[i].cb = "connectionReceived"
            PROVE  /\ i = 1 /\ stack'[i].conn \in Conns
                   /\ cst'[stack'[i].conn] = "arriving" /\ l' = "live"
        <4>1. i \in 1 .. Len(stack) - 1
          BY <3>4, <3>5, <3>6
        <4>2. stack'[i] = stack[i]
          BY <3>1, <3>3, <4>1
        <4> QED
          BY <1>1, <3>4, <3>6, <4>1, <4>2 DEF IInv, StackOK
      <3> QED
        BY <3>3, <3>6 DEF StackOK
    <2> QED
      BY <2>1, <2>2 DEF StoppedReturns
  <1>3. TypeOK'
    BY <1>1, <1>2 DEF IInv, TypeOK
  <1>4. RefCountExact'
    BY <1>1, CountUnchanged DEF IInv
  <1>5. PhaseOK'
    BY <1>1 DEF IInv, PhaseOK, FreedEarly
  <1> QED
    BY <1>2, <1>3, <1>4, <1>5 DEF IInv

LEMMA ClosedReturnsStep ==
    ASSUME IInv, NEW c \in Conns, ClosedReturns(c)
    PROVE  IInv'
  <1>1. /\ stack # <<>>
        /\ stack' = Caller
        /\ UNCHANGED <<l, lctx, stopped, readyToStop, ref_count>>
        /\ UNCHANGED <<hasListener, closeEvent, peerGone>>
        /\ UNCHANGED <<stoppedEvents, crashed>>
        /\ cctx' = [cctx EXCEPT ![c] = "freed"]
        /\ cst' = [cst EXCEPT ![c] = IF @ = "closing" THEN "closed" ELSE @]
    BY DEF ClosedReturns, Returning, listenerVars
  <1>2. stack' \in Seq(Frames) /\ StackOK'
    BY <1>1, CallerOK DEF IInv, TypeOK
  <1>3. TypeOK'
    BY <1>1, <1>2 DEF IInv, TypeOK, Objects
  <1>4. RefCountExact'
    BY <1>1 DEF IInv, RefCountExact, TypeOK
  <1>5. PhaseOK'
    BY <1>1 DEF IInv, PhaseOK, FreedEarly
  <1> QED
    BY <1>2, <1>3, <1>4, <1>5 DEF IInv

LEMMA ConnectionFreeStep ==
    ASSUME IInv, NEW c \in Conns, tapsConnectionFree(c)
    PROVE  IInv'
  <1>1. /\ cst[c] \in {"closing", "closed"}
        /\ cst' = [cst EXCEPT ![c] = "freed"]
        /\ UNCHANGED <<l, lctx, stopped, readyToStop, ref_count>>
        /\ UNCHANGED <<hasListener, cctx, closeEvent, peerGone, stack>>
        /\ UNCHANGED <<stoppedEvents, crashed>>
    BY DEF tapsConnectionFree, listenerVars
  <1>2. TypeOK'
    BY <1>1 DEF IInv, TypeOK
  <1>3. RefCountExact'
    BY <1>1 DEF IInv, RefCountExact, TypeOK
  <1>4. StackOK'
    BY <1>1 DEF IInv, StackOK, TypeOK
  <1>5. PhaseOK'
    BY <1>1 DEF IInv, PhaseOK, FreedEarly
  <1> QED
    BY <1>2, <1>3, <1>4, <1>5 DEF IInv

(* Steps that change only the environment or crash. *)
LEMMA OtherStep ==
    ASSUME IInv,
           UNCHANGED <<listenerVars, connVars, stack, stoppedEvents>>,
           peerGone' \in [Conns -> BOOLEAN], crashed' \in BOOLEAN
    PROVE  IInv'
  <1>1. TypeOK'
    BY DEF IInv, TypeOK, listenerVars, connVars
  <1>2. RefCountExact'
    BY CountUnchanged DEF IInv, listenerVars, connVars
  <1>3. StackOK'
    BY DEF IInv, StackOK, connVars, listenerVars
  <1>4. PhaseOK'
    BY DEF IInv, PhaseOK, listenerVars, FreedEarly
  <1> QED
    BY <1>1, <1>2, <1>3, <1>4 DEF IInv

LEMMA NextIInv == IInv /\ [Next]_vars => IInv'
  <1> SUFFICES ASSUME IInv, [Next]_vars PROVE IInv'
    OBVIOUS
  <1>1. CASE tapsListenerNew
    BY <1>1, NewStep
  <1>2. CASE tapsListenerStop
    BY <1>2, StopStep
  <1>3. CASE tapsListenerFree
    BY <1>3, FreeStep
  <1>4. CASE StoppedReturns
    BY <1>4, StoppedReturnsStep
  <1>5. ASSUME NEW c \in Conns,
               \/ ConnectionReceived(c)
               \/ ConnectionAccepted(c)
               \/ ConnectionRejected(c)
               \/ ConnectionEnds(c)
               \/ ClosedReturns(c)
               \/ tapsConnectionFree(c)
        PROVE  IInv'
    BY <1>5, ReceivedStep, AcceptedStep, RejectedStep, EndsStep,
       ClosedReturnsStep, ConnectionFreeStep
  <1>6. ASSUME NEW c \in Conns, PeerCloses(c)
        PROVE  IInv'
    <2>1. peerGone' \in [Conns -> BOOLEAN]
      BY <1>6, Zenon DEF PeerCloses, IInv, TypeOK
    <2> QED
      BY <1>6, <2>1, OtherStep DEF PeerCloses, IInv, TypeOK
  <1>7. ASSUME NEW c \in Conns, NEW d \in Conns, OrphanFires(c, d)
        PROVE  IInv'
    BY <1>7, OtherStep DEF OrphanFires, IInv, TypeOK
  <1>9. ASSUME NEW c \in Conns, ConnectionEndsLate(c)
        PROVE  IInv'
    BY <1>9, OtherStep DEF ConnectionEndsLate, IInv, TypeOK
  <1>8. CASE UNCHANGED vars
    BY <1>8, OtherStep DEF vars, IInv, TypeOK
  <1> QED
    BY <1>1, <1>2, <1>3, <1>4, <1>5, <1>6, <1>7, <1>8, <1>9 DEF Next

(* The strengthened invariant holds in every reachable state. *)
THEOREM Invariance == Spec => []IInv
  BY InitIInv, NextIInv, PTL DEF Spec

(* Type correctness, and with it that ref_count never goes below zero.     *)
THEOREM TypeCorrect == Spec => []TypeOK
  <1>1. IInv => TypeOK
    BY DEF IInv
  <1> QED
    BY <1>1, Invariance, PTL

(* However connections arrive, are rejected and end around Stop and Free,  *)
(* tapsListener.ref_count is the number of connections that point to it.   *)
THEOREM RefCountCorrect == Spec => []RefCountExact
  <1>1. IInv => RefCountExact
    BY DEF IInv
  <1> QED
    BY <1>1, Invariance, PTL

(* tapsListenerFree never frees a listener some connection points to,      *)
(* unless the application has freed it early before.                       *)
THEOREM ListenerOutlivesConnections == Spec => []ListenerOutlives
  <1>1. IInv => ListenerOutlives
    <2> SUFFICES ASSUME IInv, NEW c \in Conns, hasListener[c]
                 PROVE  l = "live" \/ FreedEarly
      BY DEF ListenerOutlives
    <2>1. ref_count # 0
      BY HoldersPositive DEF IInv, RefCountExact, Holders
    <2> QED
      BY <2>1 DEF IInv, PhaseOK, TypeOK, Objects
  <1> QED
    BY <1>1, Invariance, PTL

-----------------------------------------------------------------------------
(* The listener implements ListenerContract. *)

Phase == IF readyToStop THEN "stopping" ELSE "listening"
Past  == {c \in Conns : cst[c] \in {"closing", "closed", "freed", "rejected"}}

(* Steps the contract does not see. *)
LEMMA ContractStutter ==
    ASSUME UNCHANGED <<stoppedEvents, readyToStop, hasListener>>, Past' = Past
    PROVE  UNCHANGED Contract!contractVars
  BY DEF Contract!contractVars, Past

LEMMA ContractInit == Init => Contract!Init
  BY DEF Init, Contract!Init

LEMMA ContractConnect ==
    ASSUME IInv, NEW c \in Conns, ConnectionReceived(c)
    PROVE  Contract!Connect(c) \/ UNCHANGED Contract!contractVars
  <1>0. /\ cst[c] = "none" /\ ~readyToStop /\ lctx = "live"
        /\ UNCHANGED <<readyToStop, stoppedEvents>>
    BY DEF ConnectionReceived, IInv, PhaseOK
  <1>2. ~hasListener[c]
    BY <1>0 DEF IInv, RefCountExact
  <1>3. CASE /\ cst' = [cst EXCEPT ![c] = "arriving"]
             /\ hasListener' = [hasListener EXCEPT ![c] = TRUE]
    <2>1. Holders' = Holders \cup {c}
      BY <1>3 DEF IInv, TypeOK, Holders
    <2>2. Past' = Past
      BY <1>0, <1>3 DEF IInv, TypeOK, Past
    <2>3. c \notin Holders \cup Past
      BY <1>0, <1>2 DEF Holders, Past
    <2>4. Phase = "listening" /\ Phase' = "listening"
      BY <1>0 DEF Phase
    <2> QED
      BY <1>0, <2>1, <2>2, <2>3, <2>4 DEF Contract!Connect, Holders, Past, Phase
  <1>4. CASE cst' = [cst EXCEPT ![c] = "refused"] /\ UNCHANGED hasListener
    <2>1. Past' = Past
      BY <1>0, <1>4 DEF IInv, TypeOK, Past
    <2> QED
      BY <1>0, <1>4, <2>1, ContractStutter
  <1> QED
    BY <1>3, <1>4 DEF ConnectionReceived

LEMMA ContractEnd ==
    ASSUME IInv, NEW c \in Conns, hasListener[c],
           NEW f, f = <<>> \/ f = <<Frame("closed", c)>>,
           Deref(c, <<>>, f), UNCHANGED readyToStop,
           NEW st \in {"closing", "rejected"},
           cst' = [cst EXCEPT ![c] = st]
    PROVE  Contract!End(c)
  <1>1. /\ ref_count' = Cardinality(Holders')
        /\ hasListener' = [hasListener EXCEPT ![c] = FALSE]
        /\ stoppedEvents' \in Nat
        /\ stoppedEvents' # stoppedEvents => ref_count' = 0 /\ readyToStop
        /\ stoppedEvents' >= stoppedEvents
    BY DerefStep
  <1>2. Holders' = Holders \ {c}
    BY <1>1 DEF IInv, TypeOK, Holders
  <1>3. Past' = Past \cup {c}
    BY DEF IInv, TypeOK, Past
  <1>4. stoppedEvents = 0
    <2>1. ref_count # 0
      BY HoldersPositive DEF IInv, RefCountExact, Holders
    <2> QED
      BY <2>1 DEF IInv, PhaseOK, TypeOK
  <1>5. \/ stoppedEvents' = stoppedEvents
        \/ /\ Phase = "stopping" /\ Holders' = {}
           /\ stoppedEvents = 0 /\ stoppedEvents' = 1
    <2>1. CASE stoppedEvents' = stoppedEvents
      BY <2>1
    <2>2. CASE stoppedEvents' # stoppedEvents
      <3>1. Holders' = {}
        <4>1. IsFiniteSet(Holders')
          BY <1>2, HoldersFinite, FS_RemoveElement
        <4>2. Cardinality(Holders') = 0
          BY <1>1, <2>2
        <4> QED
          BY <4>1, <4>2, FS_EmptySet
      <3>2. stoppedEvents' = stoppedEvents + 1
        BY <2>2 DEF Deref, CallStopped
      <3>3. readyToStop
        BY <1>1, <2>2
      <3> QED
        BY <1>4, <3>1, <3>2, <3>3 DEF Phase
    <2> QED
      BY <2>1, <2>2
  <1>6. c \in Holders /\ Phase' = Phase
    BY DEF Holders, Phase
  <1> QED
    BY <1>2, <1>3, <1>5, <1>6 DEF Contract!End, Holders, Past, Phase

LEMMA ContractStop ==
    ASSUME IInv, ~readyToStop, NEW cb \in {"null", "app"}, TapsStopped(cb),
           UNCHANGED <<l, connVars>>
    PROVE  Contract!Stop
  <1>1. /\ readyToStop' = TRUE
        /\ stoppedEvents' \in Nat
        /\ stoppedEvents' # stoppedEvents => ref_count = 0
    BY TapsStoppedStep DEF IInv, connVars
  <1>2. stoppedEvents = 0
    BY DEF IInv, PhaseOK, TypeOK
  <1>3. /\ Phase = "listening" /\ Phase' = "stopping"
        /\ Holders' = Holders /\ Past' = Past
    BY <1>1 DEF Phase, Holders, Past, connVars
  <1>4. \/ stoppedEvents' = stoppedEvents
        \/ Holders = {} /\ stoppedEvents = 0 /\ stoppedEvents' = 1
    <2>1. CASE stoppedEvents' = stoppedEvents
      BY <2>1
    <2>2. CASE stoppedEvents' # stoppedEvents
      <3>1. stoppedEvents' = stoppedEvents + 1
        BY <2>2 DEF TapsStopped, CallStopped
      <3>2. Cardinality(Holders) = 0
        BY <1>1, <2>2 DEF IInv, RefCountExact, Holders
      <3> QED
        BY <1>2, <3>1, <3>2, HoldersFinite, FS_EmptySet
    <2> QED
      BY <2>1, <2>2
  <1> QED
    BY <1>3, <1>4 DEF Contract!Stop, Phase, Holders, Past

LEMMA ContractNext ==
    IInv /\ [Next]_vars => [Contract!Next]_(Contract!contractVars)
  <1> SUFFICES ASSUME IInv, [Next]_vars
               PROVE  Contract!Next \/ UNCHANGED Contract!contractVars
    OBVIOUS
  <1>1. CASE tapsListenerNew
    BY <1>1, ContractStutter DEF tapsListenerNew, Listen, connVars, Past
  <1>2. CASE tapsListenerStop
    BY <1>2, ContractStop DEF tapsListenerStop, Stop, Contract!Next
  <1>3. CASE tapsListenerFree
    <2>1. CASE ~readyToStop /\ TapsStopped("null")
      BY <1>3, <2>1, ContractStop DEF tapsListenerFree, Stop, Contract!Next
    <2>2. CASE UNCHANGED <<readyToStop, stoppedEvents>>
      BY <1>3, <2>2, ContractStutter DEF tapsListenerFree, connVars, Past
    <2> QED
      BY <1>3, <2>1, <2>2 DEF tapsListenerFree, Stop
  <1>4. CASE StoppedReturns
    BY <1>4, ContractStutter DEF StoppedReturns, listenerVars, connVars, Past
  <1>5. ASSUME NEW c \in Conns, ConnectionReceived(c)
        PROVE  Contract!Next \/ UNCHANGED Contract!contractVars
    BY <1>5, ContractConnect DEF Contract!Next
  <1>6. ASSUME NEW c \in Conns, ConnectionAccepted(c)
        PROVE  UNCHANGED Contract!contractVars
    <2>1. cst[c] = "arriving"
      BY <1>6, TopIsArriving DEF ConnectionAccepted
    <2>2. Past' = Past
      BY <1>6, <2>1 DEF ConnectionAccepted, IInv, TypeOK, Past
    <2> QED
      BY <1>6, <2>2, ContractStutter DEF ConnectionAccepted, listenerVars
  <1>7. ASSUME NEW c \in Conns, ConnectionRejected(c)
        PROVE  Contract!Next
    <2>1. hasListener[c] /\ Caller = <<>>
      BY <1>7, TopIsArriving DEF ConnectionRejected
    <2>2. Deref(c, <<>>, <<>>)
      BY <1>7, <2>1 DEF ConnectionRejected
    <2> QED
      BY <1>7, <2>1, <2>2, ContractEnd DEF ConnectionRejected, Contract!Next
  <1>8. ASSUME NEW c \in Conns, ConnectionEnds(c)
        PROVE  Contract!Next
    <2>1. hasListener[c]
      BY <1>8 DEF ConnectionEnds, IInv, RefCountExact
    <2>2. Deref(c, <<>>, <<Frame("closed", c)>>)
      BY <1>8 DEF ConnectionEnds, EventLoop
    <2> QED
      BY <1>8, <2>1, <2>2, ContractEnd DEF ConnectionEnds, Contract!Next
  <1>9. ASSUME NEW c \in Conns, ClosedReturns(c) \/ tapsConnectionFree(c)
        PROVE  UNCHANGED Contract!contractVars
    <2>1. Past' = Past
      BY <1>9 DEF ClosedReturns, tapsConnectionFree, IInv, TypeOK, Past
    <2> QED
      BY <1>9, <2>1, ContractStutter
         DEF ClosedReturns, tapsConnectionFree, listenerVars
  <1>10. ASSUME NEW c \in Conns,
                \/ PeerCloses(c) \/ ConnectionEndsLate(c)
                \/ \E d \in Conns : OrphanFires(c, d)
         PROVE  UNCHANGED Contract!contractVars
    BY <1>10, ContractStutter
       DEF PeerCloses, ConnectionEndsLate, OrphanFires, listenerVars, connVars,
           Past
  <1>11. CASE UNCHANGED vars
    BY <1>11, ContractStutter DEF vars, listenerVars, connVars, Past
  <1> QED
    BY <1>1, <1>2, <1>3, <1>4, <1>5, <1>6, <1>7, <1>8, <1>9, <1>10, <1>11
       DEF Next

(* taps.h's promise about tapsListenerStop, for every number of            *)
(* connections: the code refuses new ones at once and delivers Stopped     *)
(* once, after the last connection has released the listener.              *)
THEOREM Refinement == Spec => ImplementsContract
  BY ContractInit, ContractNext, Invariance, PTL
     DEF Spec, ImplementsContract, Contract!Spec

-----------------------------------------------------------------------------
(* Events left in the event loop *)

(* A connection whose closed callback is running or due has no close event *)
(* any more.                                                               *)
EndingOK ==
    \A i \in 1 .. Len(stack) :
        stack[i].cb \in {"stopped", "closed"} /\ stack[i].conn \in Conns =>
            closeEvent[stack[i].conn] # "added"

EventInv == OrphansOnlyUnaccepted /\ EndingOK

(* Steps that change no event or context, and no callback. *)
LEMMA EventsUnchanged ==
    ASSUME EventInv, UNCHANGED <<cst, closeEvent, cctx, stack>>
    PROVE  EventInv'
  BY DEF EventInv, OrphansOnlyUnaccepted, EndingOK

(* A stopped callback with no connection does not concern any event. *)
LEMMA EventsStopped ==
    ASSUME TypeOK, EventInv, NEW cb \in {"null", "app"}, TapsStopped(cb),
           UNCHANGED <<cst, closeEvent, cctx>>
    PROVE  EventInv'
  <1>1. CASE stack' = stack
    BY <1>1, EventsUnchanged
  <1>2. CASE stack' = Append(stack, Frame("stopped", NoConn))
    <2>1. /\ Len(stack') = Len(stack) + 1
          /\ \A i \in 1 .. Len(stack) : stack'[i] = stack[i]
          /\ stack'[Len(stack) + 1] = Frame("stopped", NoConn)
          /\ Len(stack) \in Nat
      BY <1>2, PushFrame, LenProperties DEF TypeOK
    <2>2. NoConn \notin Conns
      BY ConnsAssumption
    <2>3. EndingOK'
      BY <2>1, <2>2 DEF EventInv, EndingOK, Frame
    <2> QED
      BY <2>3 DEF EventInv, OrphansOnlyUnaccepted
  <1> QED
    BY <1>1, <1>2 DEF TapsStopped, CallStopped

LEMMA EventsStoppedReturns ==
    ASSUME IInv, EventInv, StoppedReturns
    PROVE  EventInv'
  <1>0. /\ stack \in Seq(Frames) /\ stack # <<>> /\ Len(stack) \in Nat
        /\ stack[Len(stack)].cb = "stopped"
        /\ UNCHANGED <<cst, closeEvent, cctx>>
    BY LenProperties DEF IInv, TypeOK, StoppedReturns, Returning, connVars
  <1>1. /\ Caller \in Seq(Frames)
        /\ Len(Caller) = Len(stack) - 1
        /\ \A i \in 1 .. Len(stack) - 1 : Caller[i] = stack[i]
        /\ stack[Len(stack)] \in Frames
    BY <1>0, CallerStack
  <1>2. Len(stack) \in 1 .. Len(stack)
    BY <1>0, EmptySeq
  <1>3. CASE stack' = Caller
    BY <1>0, <1>1, <1>3 DEF EventInv, OrphansOnlyUnaccepted, EndingOK
  <1>4. CASE stack' = Append(Caller, Frame("closed", Top))
    <2>1. Top \in Conns \cup {NoConn}
      BY <1>1 DEF Top, Frames
    <2>2. /\ Len(stack') = Len(Caller) + 1
          /\ \A i \in 1 .. Len(Caller) : stack'[i] = Caller[i]
          /\ stack'[Len(Caller) + 1] = Frame("closed", Top)
      BY <1>1, <1>4, <2>1, PushFrame
    <2>3. /\ Len(stack') = Len(stack)
          /\ \A i \in 1 .. Len(stack) - 1 : stack'[i] = stack[i]
          /\ stack'[Len(stack)] = Frame("closed", Top)
      BY <1>0, <1>1, <2>2
    <2>4. Top \in Conns => closeEvent[Top] # "added"
      BY <1>0, <1>2 DEF EventInv, EndingOK, Top
    <2>5. ASSUME NEW i \in 1 .. Len(stack'), stack'[i].conn \in Conns,
                 stack'[i].cb \in {"stopped", "closed"}
          PROVE  closeEvent'[stack'[i].conn] # "added"
      <3>1. CASE i = Len(stack)
        BY <1>0, <2>3, <2>4, <2>5, <3>1 DEF Frame
      <3>2. CASE i \in 1 .. Len(stack) - 1
        <4>1. stack'[i] = stack[i] /\ i \in 1 .. Len(stack)
          BY <1>0, <2>3, <3>2
        <4> QED
          BY <1>0, <2>5, <4>1 DEF EventInv, EndingOK
      <3> QED
        BY <1>0, <2>3, <3>1, <3>2
    <2> QED
      BY <1>0, <2>5 DEF EventInv, OrphansOnlyUnaccepted, EndingOK
  <1> QED
    BY <1>3, <1>4 DEF StoppedReturns

LEMMA EventsClosedReturns ==
    ASSUME IInv, EventInv, NEW c \in Conns, ClosedReturns(c)
    PROVE  EventInv'
  <1>0. /\ stack \in Seq(Frames) /\ stack # <<>> /\ Len(stack) \in Nat
        /\ stack[Len(stack)].cb = "closed" /\ stack[Len(stack)].conn = c
        /\ stack' = Caller /\ closeEvent' = closeEvent
        /\ cctx' = [cctx EXCEPT ![c] = "freed"]
        /\ cst' = [cst EXCEPT ![c] = IF @ = "closing" THEN "closed" ELSE @]
    BY LenProperties DEF IInv, TypeOK, ClosedReturns, Returning, Top
  <1>1. /\ Len(Caller) = Len(stack) - 1
        /\ \A i \in 1 .. Len(stack) - 1 : Caller[i] = stack[i]
    BY <1>0, CallerStack
  <1>2. Len(stack) \in 1 .. Len(stack)
    BY <1>0, EmptySeq
  <1>3. closeEvent[c] # "added"
    BY <1>0, <1>2 DEF EventInv, EndingOK
  <1>4. OrphansOnlyUnaccepted'
    BY <1>0, <1>3 DEF EventInv, OrphansOnlyUnaccepted, IInv, TypeOK
  <1>5. EndingOK'
    BY <1>0, <1>1 DEF EventInv, EndingOK
  <1> QED
    BY <1>4, <1>5 DEF EventInv

LEMMA EventsEnds ==
    ASSUME IInv, EventInv, NEW c \in Conns, ConnectionEnds(c)
    PROVE  EventInv'
  <1>0. /\ closeEvent' = [closeEvent EXCEPT ![c] = "freed"] /\ cctx' = cctx
        /\ closeEvent \in [Conns -> {"none", "added", "freed"}]
        /\ cst' = [cst EXCEPT ![c] = "closing"]
        /\ Deref(c, <<>>, <<Frame("closed", c)>>)
    BY DEF ConnectionEnds, EventLoop, IInv, TypeOK
  <1>1. OrphansOnlyUnaccepted'
    BY <1>0 DEF EventInv, OrphansOnlyUnaccepted, IInv, TypeOK
  <1>2. stack' = <<>> \/ stack' = <<Frame("closed", c)>> \/ stack' = <<Frame("stopped", c)>>
    BY <1>0 DEF Deref, CallStopped
  <1>3. EndingOK'
    <2>1. CASE stack' = <<>>
      BY <2>1 DEF EndingOK
    <2>2. CASE stack' = <<Frame("closed", c)>> \/ stack' = <<Frame("stopped", c)>>
      <3>1. Len(stack') = 1 /\ stack'[1].conn = c
        BY <2>2 DEF Frame
      <3> QED
        BY <1>0, <3>1 DEF EndingOK
    <2> QED
      BY <1>2, <2>1, <2>2
  <1> QED
    BY <1>1, <1>3 DEF EventInv

LEMMA EventsReceived ==
    ASSUME IInv, EventInv, NEW c \in Conns, ConnectionReceived(c)
    PROVE  EventInv'
  <1>0. /\ closeEvent' \in {[closeEvent EXCEPT ![c] = "added"],
                            [closeEvent EXCEPT ![c] = "freed"]}
        /\ \/ /\ cctx' = [cctx EXCEPT ![c] = "live"]
              /\ cst' = [cst EXCEPT ![c] = "arriving"]
           \/ /\ cctx' = [cctx EXCEPT ![c] = "freed"]
              /\ cst' = [cst EXCEPT ![c] = "refused"]
        /\ stack' = <<Frame("connectionReceived", c)>> \/ stack' = <<>>
    BY DEF ConnectionReceived, EventLoop
  <1>1. OrphansOnlyUnaccepted'
    BY <1>0 DEF EventInv, OrphansOnlyUnaccepted, IInv, TypeOK
  <1>2. \/ Len(stack') = 0
        \/ Len(stack') = 1 /\ stack'[1].cb = "connectionReceived"
    BY <1>0 DEF Frame
  <1>3. EndingOK'
    BY <1>2 DEF EndingOK
  <1> QED
    BY <1>1, <1>3 DEF EventInv

LEMMA EventsAccepted ==
    ASSUME IInv, EventInv, NEW c \in Conns, ConnectionAccepted(c)
    PROVE  EventInv'
  <1>1. /\ stack' = <<>> /\ UNCHANGED <<closeEvent, cctx>>
        /\ cst[c] = "arriving" /\ cst' = [cst EXCEPT ![c] = "open"]
    BY TopIsArriving DEF ConnectionAccepted
  <1>2. OrphansOnlyUnaccepted'
    BY <1>1 DEF EventInv, OrphansOnlyUnaccepted, IInv, TypeOK
  <1>3. EndingOK'
    BY <1>1 DEF EndingOK
  <1> QED
    BY <1>2, <1>3 DEF EventInv

LEMMA EventsRejected ==
    ASSUME IInv, EventInv, NEW c \in Conns, ConnectionRejected(c)
    PROVE  EventInv'
  <1>0. /\ closeEvent' = closeEvent
        /\ cctx' = [cctx EXCEPT ![c] = "freed"]
        /\ cst' = [cst EXCEPT ![c] = "rejected"]
        /\ Deref(c, <<>>, <<>>)
    BY TopIsArriving DEF ConnectionRejected
  <1>1. OrphansOnlyUnaccepted'
    BY <1>0 DEF EventInv, OrphansOnlyUnaccepted, IInv, TypeOK
  <1>2. stack' = <<>> \/ stack' = <<Frame("stopped", NoConn)>>
    BY <1>0 DEF Deref, CallStopped
  <1>3. \/ Len(stack') = 0
        \/ Len(stack') = 1 /\ stack'[1].conn \notin Conns
    BY <1>2, ConnsAssumption DEF Frame
  <1>4. EndingOK'
    BY <1>3 DEF EndingOK
  <1> QED
    BY <1>1, <1>4 DEF EventInv

LEMMA NextEvents ==
    ASSUME IInv, EventInv, [Next]_vars
    PROVE  EventInv'
  <1>1. CASE tapsListenerNew \/ UNCHANGED vars
    BY <1>1, EventsUnchanged DEF tapsListenerNew, vars, connVars
  <1>2. CASE tapsListenerStop
    BY <1>2, EventsStopped DEF tapsListenerStop, Stop, connVars, IInv
  <1>3. CASE tapsListenerFree
    <2>1. UNCHANGED <<cst, closeEvent, cctx>>
      BY <1>3 DEF tapsListenerFree, connVars
    <2>2. TapsStopped("null") \/ stack' = stack
      BY <1>3 DEF tapsListenerFree, Stop
    <2> QED
      BY <2>1, <2>2, EventsStopped, EventsUnchanged DEF IInv
  <1>4. CASE StoppedReturns
    BY <1>4, EventsStoppedReturns
  <1>5. ASSUME NEW c \in Conns,
               \/ ConnectionReceived(c)
               \/ ConnectionAccepted(c)
               \/ ConnectionRejected(c)
               \/ ConnectionEnds(c)
               \/ ClosedReturns(c)
        PROVE  EventInv'
    BY <1>5, EventsReceived, EventsAccepted, EventsRejected, EventsEnds,
       EventsClosedReturns
  <1>6. ASSUME NEW c \in Conns,
               \/ PeerCloses(c)
               \/ ConnectionEndsLate(c)
               \/ \E d \in Conns : OrphanFires(c, d)
        PROVE  EventInv'
    BY <1>6, EventsUnchanged
       DEF PeerCloses, ConnectionEndsLate, OrphanFires, connVars
  <1>7. ASSUME NEW c \in Conns, tapsConnectionFree(c)
        PROVE  EventInv'
    <2>1. /\ UNCHANGED <<closeEvent, cctx, stack>>
          /\ cst[c] \in {"closing", "closed"}
          /\ cst' = [cst EXCEPT ![c] = "freed"]
      BY <1>7 DEF tapsConnectionFree
    <2> QED
      BY <2>1 DEF EventInv, OrphansOnlyUnaccepted, EndingOK, IInv, TypeOK
  <1> QED
    BY <1>1, <1>2, <1>3, <1>4, <1>5, <1>6, <1>7 DEF Next

LEMMA InitEvents == Init => EventInv
  BY DEF Init, EventInv, OrphansOnlyUnaccepted, EndingOK

(* For every application and whatever fails: the close event of a          *)
(* connection the application accepted never outlives its conn_ctx; the    *)
(* only events whose argument is freed are those of connections rejected,  *)
(* or refused because tapsConnectionNew failed.                            *)
THEOREM OrphansAlwaysUnaccepted == Spec => []OrphansOnlyUnaccepted
  <1>1. IInv /\ EventInv /\ [Next]_vars => EventInv'
    BY NextEvents
  <1>2. EventInv => OrphansOnlyUnaccepted
    BY DEF EventInv
  <1> QED
    BY <1>1, <1>2, InitEvents, Invariance, PTL DEF Spec

-----------------------------------------------------------------------------
(* Crashes *)

(* Connections are rejected or refused, and listeners freed early, only    *)
(* where the constants say so.                                             *)
CausesOK ==
    /\ \A c \in Conns : /\ cst[c] = "rejected" => Rejects
                        /\ cst[c] = "refused" => "malloc" \in Faults
    /\ FreedEarly => EarlyFree

LEMMA NextCauses ==
    ASSUME IInv, CausesOK, [Next]_vars
    PROVE  CausesOK'
  <1>0. /\ cst \in [Conns -> {"none", "arriving", "open", "closing", "closed",
                             "freed", "rejected", "refused"}]
        /\ stopped \in {"null", "app"}
        /\ ref_count \in Nat
        /\ stoppedEvents \in Nat
    BY DEF IInv, TypeOK
  <1>1. ASSUME UNCHANGED <<cst, readyToStop, stopped, stoppedEvents>>
        PROVE  CausesOK'
    BY <1>1 DEF CausesOK, FreedEarly
  <1>2. ASSUME NEW c \in Conns, NEW st, cst' = [cst EXCEPT ![c] = st],
               st = "rejected" => Rejects,
               st = "refused" => "malloc" \in Faults,
               UNCHANGED <<readyToStop, stopped, stoppedEvents>>
        PROVE  CausesOK'
    BY <1>0, <1>2 DEF CausesOK, FreedEarly
  <1>3. CASE tapsListenerNew \/ StoppedReturns \/ UNCHANGED vars
    BY <1>1, <1>3 DEF tapsListenerNew, StoppedReturns, vars, connVars, listenerVars
  <1>4. CASE tapsListenerStop
    <2>1. UNCHANGED cst /\ ~FreedEarly'
      BY <1>0, <1>4 DEF tapsListenerStop, Stop, TapsStopped, CallStopped, connVars,
                        FreedEarly
    <2> QED
      BY <2>1 DEF CausesOK
  <1>5. CASE tapsListenerFree
    <2>1. UNCHANGED cst /\ (EarlyFree \/ UNCHANGED <<readyToStop, stopped, stoppedEvents>>)
      BY <1>5 DEF tapsListenerFree, connVars
    <2> QED
      BY <2>1 DEF CausesOK, FreedEarly
  <1>6. ASSUME NEW c \in Conns, NEW s, NEW f, Deref(c, s, f),
               readyToStop' = readyToStop, FreedEarly'
        PROVE  FreedEarly
    BY <1>0, <1>6 DEF Deref, CallStopped, FreedEarly
  <1>7. ASSUME NEW c \in Conns, ConnectionEnds(c) \/ ConnectionRejected(c)
        PROVE  CausesOK'
    <2>1. FreedEarly' => FreedEarly
      BY <1>6, <1>7 DEF ConnectionEnds, ConnectionRejected
    <2>2. \E st \in {"closing", "rejected"} : /\ cst' = [cst EXCEPT ![c] = st]
                                              /\ st = "rejected" => Rejects
      BY <1>7 DEF ConnectionEnds, ConnectionRejected
    <2> QED
      BY <1>0, <2>1, <2>2 DEF CausesOK
  <1>8. ASSUME NEW c \in Conns, ConnectionReceived(c)
        PROVE  CausesOK'
    BY <1>2, <1>8 DEF ConnectionReceived
  <1>9. ASSUME NEW c \in Conns, ConnectionAccepted(c) \/ tapsConnectionFree(c)
        PROVE  CausesOK'
    BY <1>2, <1>9 DEF ConnectionAccepted, tapsConnectionFree, listenerVars
  <1>10. ASSUME NEW c \in Conns, ClosedReturns(c)
         PROVE  CausesOK'
    BY <1>0, <1>10 DEF ClosedReturns, listenerVars, CausesOK, FreedEarly
  <1>11. ASSUME NEW c \in Conns, NEW d \in Conns,
                PeerCloses(c) \/ ConnectionEndsLate(c) \/ OrphanFires(c, d)
         PROVE  CausesOK'
    BY <1>1, <1>11 DEF PeerCloses, ConnectionEndsLate, OrphanFires, connVars,
                       listenerVars
  <1> QED
    BY <1>3, <1>4, <1>5, <1>7, <1>8, <1>9, <1>10, <1>11 DEF Next

(* Nothing happens after a crash. *)
LEMMA CrashStops ==
    ASSUME crashed, Next
    PROVE  FALSE
  BY DEF Next, tapsListenerNew, tapsListenerStop, tapsListenerFree, StoppedReturns,
         ConnectionReceived, ConnectionAccepted, ConnectionRejected, PeerCloses,
         ConnectionEnds, ConnectionEndsLate, ClosedReturns, tapsConnectionFree,
         OrphanFires, EventLoop, Returning

(* A listener that releases its last connection with no callback to call   *)
(* has been freed early: the Stopped event only comes when ref_count is 0. *)
LEMMA DerefCrash ==
    ASSUME IInv, CausesOK, NEW c \in Conns, NEW s, NEW f, Deref(c, s, f),
           readyToStop' = readyToStop, ~crashed, crashed'
    PROVE  EarlyFree /\ FreedEarly'
  <1>1. /\ readyToStop /\ ref_count = 1 /\ stopped = "null"
        /\ stopped' = "null" /\ UNCHANGED stoppedEvents
    BY DEF Deref, CallStopped
  <1>2. stoppedEvents = 0
    BY <1>1 DEF IInv, TypeOK, PhaseOK
  <1> QED
    BY <1>1, <1>2 DEF FreedEarly, CausesOK

LEMMA NextCrash ==
    ASSUME IInv, EventInv, CausesOK, CrashesExplained, [Next]_vars
    PROVE  CrashesExplained'
  <1>0. CausesOK'
    BY NextCauses
  <1>1. CASE UNCHANGED vars
    BY <1>1 DEF vars, listenerVars, connVars, CrashesExplained, FreedEarly,
                NoOrphanEvents
  <1> SUFFICES ASSUME Next, ~crashed, crashed'
               PROVE  CrashesExplained'
    BY <1>1, CrashStops DEF CrashesExplained
  <1>2. CASE tapsListenerNew
    BY <1>2 DEF tapsListenerNew, Listen, CrashesExplained
  <1>3. CASE tapsListenerStop
    BY <1>3 DEF tapsListenerStop, Stop, TapsStopped, CallStopped
  <1>4. CASE tapsListenerFree
    <2>1. EarlyFree /\ ~readyToStop /\ Stop("null")
      BY <1>4 DEF tapsListenerFree
    <2>2. readyToStop' /\ stopped' = "null" /\ UNCHANGED stoppedEvents
      BY <2>1 DEF Stop, TapsStopped, CallStopped
    <2>3. stoppedEvents = 0
      BY <2>1 DEF IInv, TypeOK, PhaseOK
    <2> QED
      BY <2>1, <2>2, <2>3 DEF CrashesExplained, FreedEarly
  <1>5. ASSUME NEW c \in Conns, ConnectionEnds(c) \/ ConnectionRejected(c)
        PROVE  CrashesExplained'
    BY <1>5, DerefCrash DEF ConnectionEnds, ConnectionRejected, CrashesExplained
  <1>6. ASSUME NEW c \in Conns, ConnectionEndsLate(c)
        PROVE  CrashesExplained'
    <2>1. hasListener[c] /\ l = "freed" /\ UNCHANGED listenerVars
          /\ UNCHANGED stoppedEvents
      BY <1>6 DEF ConnectionEndsLate, IInv, RefCountExact
    <2>2. ref_count # 0
      BY <2>1, HoldersPositive DEF IInv, RefCountExact, Holders
    <2>3. FreedEarly
      BY <2>1, <2>2 DEF IInv, PhaseOK
    <2> QED
      BY <2>1, <2>3 DEF CausesOK, FreedEarly, listenerVars, CrashesExplained
  <1>7. ASSUME NEW c \in Conns, NEW d \in Conns, OrphanFires(c, d)
        PROVE  CrashesExplained'
    <2>1. closeEvent[c] = "added" /\ cctx[c] = "freed" /\ UNCHANGED connVars
      BY <1>7 DEF OrphanFires
    <2>2. Rejects \/ "malloc" \in Faults
      BY <2>1 DEF EventInv, OrphansOnlyUnaccepted, CausesOK
    <2>3. ~NoOrphanEvents'
      BY <2>1 DEF NoOrphanEvents, connVars
    <2> QED
      BY <2>2, <2>3 DEF CrashesExplained
  <1>8. CASE \/ StoppedReturns
             \/ \E c \in Conns : \/ ConnectionReceived(c) \/ ConnectionAccepted(c)
                                 \/ PeerCloses(c) \/ ClosedReturns(c)
                                 \/ tapsConnectionFree(c)
    BY <1>8 DEF StoppedReturns, ConnectionReceived, ConnectionAccepted, PeerCloses,
                ClosedReturns, tapsConnectionFree
  <1> QED
    BY <1>2, <1>3, <1>4, <1>5, <1>6, <1>7, <1>8 DEF Next

(* Whatever the application does and whatever fails, the library calls     *)
(* through NULL or freed memory only after a failed Listen, an early free, *)
(* or a rejected or refused connection that left its close event behind.   *)
(* With Rejects and EarlyFree FALSE and neither "malloc" nor "bind" in     *)
(* Faults it says that nothing crashes; event_add may fail.                *)
THEOREM CrashesAlwaysExplained == Spec => []CrashesExplained
  <1>1. Init => CausesOK /\ CrashesExplained
    BY DEF Init, CausesOK, FreedEarly, CrashesExplained
  <1>2. IInv /\ EventInv /\ [Next]_vars => EventInv'
    BY NextEvents
  <1>3. IInv /\ CausesOK /\ [Next]_vars => CausesOK'
    BY NextCauses
  <1>4. IInv /\ EventInv /\ CausesOK /\ CrashesExplained /\ [Next]_vars
            => CrashesExplained'
    BY NextCrash
  <1> QED
    BY <1>1, <1>2, <1>3, <1>4, InitEvents, Invariance, PTL DEF Spec
=============================================================================
