----------------------- MODULE ConnectionEventProofs -----------------------
(***************************************************************************)
(* More proofs about TapsConnection, on top of the invariant of            *)
(* TapsConnectionProofs: what the application is told of each message and  *)
(* buffer, and what holds besides over TCP, where the hypotheses of a      *)
(* theorem say which calls may fail and which events the protocol reports. *)
(***************************************************************************)
EXTENDS TapsConnectionProofs

-----------------------------------------------------------------------------
(* One event for each message and buffer *)

(* What is queued has had no event, and what the application has not sent  *)
(* or offered yet has no fate.                                             *)
MsgFateInv ==
    /\ \A m \in Messages : m > sends => msgFate[m] = "none"
    /\ \A i \in 1 .. Len(sndq) : msgFate[sndq[i]] = "queued"

BufFateInv ==
    /\ \A b \in Buffers : b > recvs => bufFate[b] = "none"
    /\ \A i \in 1 .. Len(rcvq) : bufFate[rcvq[i]] = "queued"

FateInv == MsgFateInv /\ BufFateInv

(* The two halves of EventAtMostOnce, for one step.                        *)
MsgFatesKept ==
    \A m \in Messages :
        msgFate[m] \notin {"none", "queued"} => msgFate'[m] = msgFate[m]

BufFatesKept ==
    \A b \in Buffers :
        bufFate[b] \notin {"none", "queued"} => bufFate'[b] = bufFate[b]

(* Unlinking an item leaves the other items, and not that one. *)
LEMMA OthersStay ==
    ASSUME NEW n \in Nat, NEW q \in Seq(1 .. n), Increasing(q),
           NEW k \in 1 .. Len(q)
    PROVE  \A j \in 1 .. Len(DeleteItem(q, k)) :
                /\ DeleteItem(q, k)[j] # q[k]
                /\ \E i \in 1 .. Len(q) : DeleteItem(q, k)[j] = q[i]
  <1> DEFINE d == DeleteItem(q, k)
             from(j) == IF j < k THEN j ELSE j + 1
  <1>0. Len(q) \in Nat
    BY LenProperties
  <1>1. /\ Len(d) = Len(q) - 1
        /\ \A j \in 1 .. Len(q) - 1 : d[j] = IF j < k THEN q[j] ELSE q[j + 1]
    BY DeleteItemSeq
  <1>2. \A j \in 1 .. Len(q) - 1 : from(j) \in 1 .. Len(q) /\ from(j) # k
    BY <1>0
  <1>3. \A j \in 1 .. Len(q) - 1 : d[j] = q[from(j)]
    BY <1>1
  <1>4. \A i \in 1 .. Len(q) : q[i] \in 1 .. n
    BY ElementOfSeq
  <1> HIDE DEF d, from
  <1>5. \A i \in 1 .. Len(q) : i # k => q[i] # q[k]
    BY <1>0, <1>4 DEF Increasing
  <1>6. \A j \in 1 .. Len(d) : d[j] # q[k] /\ \E i \in 1 .. Len(q) : d[j] = q[i]
    BY <1>1, <1>2, <1>3, <1>5
  <1> QED
    BY <1>6 DEF d

(* A new message or buffer: queued with no event, or refused at once.      *)
LEMMA AppendedFates ==
    ASSUME NEW n \in Nat, NEW q \in Seq(1 .. n), NEW m \in 1 .. n,
           NEW S, NEW f \in [1 .. n -> S], NEW g,
           \A i \in 1 .. Len(q) : f[q[i]] = "queued",
           f[m] = "none",
           g = [f EXCEPT ![m] = "queued"]
    PROVE  \A i \in 1 .. Len(Append(q, m)) : g[Append(q, m)[i]] = "queued"
  <1>1. /\ Len(Append(q, m)) = Len(q) + 1
        /\ Append(q, m)[Len(q) + 1] = m
        /\ \A i \in 1 .. Len(q) : Append(q, m)[i] = q[i]
        /\ Len(q) \in Nat
    BY AppendProperties, LenProperties
  <1>2. \A i \in 1 .. Len(q) : q[i] \in 1 .. n /\ g[q[i]] = "queued"
    BY ElementOfSeq
  <1>3. g[m] = "queued"
    OBVIOUS
  <1> QED
    BY <1>1, <1>2, <1>3

LEMMA SendFates ==
    ASSUME IInv, MsgFateInv, tapsConnectionSend
    PROVE  MsgFateInv' /\ MsgFatesKept
  <1> DEFINE m == sends + 1
  <1>0. SendTypes /\ SendInv /\ MaxSends \in Nat
    BY Sides, BoundsAssumption DEF SendSide
  <1>1. m \in Messages /\ m > sends /\ sends' = m /\ sends \in Nat
    BY <1>0 DEF tapsConnectionSend, SendTypes, Messages
  <1>2. msgFate[m] = "none"
    BY <1>1 DEF MsgFateInv
  <1>3. \A x \in Messages : x \in Nat
    BY <1>0 DEF Messages
  <1>4. CASE sndq' = sndq /\ msgFate' = [msgFate EXCEPT ![m] = "refused"]
    <2>1. \A i \in 1 .. Len(sndq) : sndq[i] \in Messages
      BY <1>0, ElementOfSeq DEF SendTypes
    <2>2. \A i \in 1 .. Len(sndq) : msgFate[sndq[i]] = "queued" /\ sndq[i] # m
      BY <1>2 DEF MsgFateInv
    <2>3. \A x \in Messages : msgFate'[x] = IF x = m THEN "refused" ELSE msgFate[x]
      BY <1>0, <1>4 DEF SendTypes
    <2> HIDE DEF m
    <2> QED
      BY <1>1, <1>2, <1>3, <1>4, <2>1, <2>2, <2>3 DEF MsgFateInv, MsgFatesKept
  <1>5. CASE sndq' = Append(sndq, m) /\ msgFate' = [msgFate EXCEPT ![m] = "queued"]
    <2>1. \A i \in 1 .. Len(sndq') : msgFate'[sndq'[i]] = "queued"
      <3>1. msgFate \in [1 .. MaxSends -> MsgFates]
        BY <1>0 DEF SendTypes, Messages
      <3>2. sndq \in Seq(1 .. MaxSends) /\ m \in 1 .. MaxSends
        BY <1>0, <1>1 DEF SendTypes, Messages
      <3>3. \A i \in 1 .. Len(sndq) : msgFate[sndq[i]] = "queued"
        BY DEF MsgFateInv
      <3> HIDE DEF m
      <3> QED
        BY <1>0, <1>2, <1>5, <3>1, <3>2, <3>3, AppendedFates
    <2>2. \A x \in Messages : msgFate'[x] = IF x = m THEN "queued" ELSE msgFate[x]
      BY <1>0, <1>5 DEF SendTypes
    <2> HIDE DEF m
    <2> QED
      BY <1>1, <1>2, <1>3, <1>5, <2>1, <2>2 DEF MsgFateInv, MsgFatesKept
  <1> QED
    BY <1>4, <1>5 DEF tapsConnectionSend

LEMMA SendDoneFates ==
    ASSUME IInv, MsgFateInv, NEW how \in SendEvents, SendDone(how)
    PROVE  MsgFateInv' /\ MsgFatesKept
  <1>0. /\ SendTypes /\ SendInv /\ MaxSends \in Nat
        /\ sndq \in Seq(1 .. MaxSends) /\ Increasing(sndq)
    BY Sides, BoundsAssumption DEF SendSide, SendTypes, SendInv, Messages
  <1>1. PICK k \in 1 .. Len(sndq) : sndq[k] = send_ctx
    BY <1>0 DEF SendDone, SendInv
  <1>2. Place(sndq, sndq[k]) = k
    BY <1>0, PlaceOf
  <1>3. /\ sndq' = DeleteItem(sndq, k)
        /\ msgFate' = [msgFate EXCEPT ![sndq[k]] = how]
        /\ sends' = sends
    BY <1>1, <1>2 DEF SendDone, SendCommon
  <1>4. sndq[k] \in Messages /\ msgFate[sndq[k]] = "queued"
    BY <1>0, ElementOfSeq DEF SendTypes, MsgFateInv
  <1>5. \A x \in Messages : x # sndq[k] => msgFate'[x] = msgFate[x]
    BY <1>0, <1>3 DEF SendTypes
  <1>6. \A j \in 1 .. Len(sndq') : msgFate'[sndq'[j]] = "queued"
    <2>1. \A i \in 1 .. Len(sndq) :
            msgFate[sndq[i]] = "queued" /\ sndq[i] \in Messages
      BY <1>0, ElementOfSeq DEF MsgFateInv, SendTypes
    <2>2. \A j \in 1 .. Len(sndq') :
            /\ sndq'[j] # sndq[k]
            /\ \E i \in 1 .. Len(sndq) : sndq'[j] = sndq[i]
      <3>1. MaxSends \in Nat /\ sndq \in Seq(1 .. MaxSends) /\ Increasing(sndq)
        BY <1>0
      <3>2. \A j \in 1 .. Len(DeleteItem(sndq, k)) :
              /\ DeleteItem(sndq, k)[j] # sndq[k]
              /\ \E i \in 1 .. Len(sndq) : DeleteItem(sndq, k)[j] = sndq[i]
        BY <3>1, OthersStay, ZenonT(60)
      <3> QED
        BY <1>3, <3>2, Zenon
    <2> QED
      <3> SUFFICES ASSUME NEW j \in 1 .. Len(sndq')
                   PROVE  msgFate'[sndq'[j]] = "queued"
        OBVIOUS
      <3>1. PICK i \in 1 .. Len(sndq) : sndq'[j] = sndq[i]
        BY <2>2
      <3>2. sndq[i] \in Messages /\ sndq[i] # sndq[k] /\ msgFate[sndq[i]] = "queued"
        BY <2>1, <2>2, <3>1
      <3> QED
        BY <1>5, <3>1, <3>2
  <1> QED
    BY <1>3, <1>4, <1>5, <1>6 DEF MsgFateInv, MsgFatesKept

(* The steps of the connection that leave the send queue and what the      *)
(* application knows of it alone.                                          *)
LEMMA SendFatesUnchanged ==
    ASSUME MsgFateInv, UNCHANGED <<sends, sndq, msgFate>>
    PROVE  MsgFateInv' /\ MsgFatesKept
  BY DEF MsgFateInv, MsgFatesKept

LEMMA ReceiveFates ==
    ASSUME IInv, BufFateInv, NEW min \in MinLengths, tapsConnectionReceive(min)
    PROVE  BufFateInv' /\ BufFatesKept
  <1> DEFINE b == recvs + 1
  <1>0. ReceiveTypes /\ MaxRecvs \in Nat
    BY Sides, BoundsAssumption DEF ReceiveSide
  <1>1. b \in Buffers /\ b > recvs /\ recvs' = b /\ recvs \in Nat
    BY <1>0 DEF tapsConnectionReceive, ReceiveTypes, Buffers
  <1>2. bufFate[b] = "none"
    BY <1>1 DEF BufFateInv
  <1>3. \A x \in Buffers : x \in Nat
    BY <1>0 DEF Buffers
  <1>4. CASE UNCHANGED <<rcvq, bufFate>>
    <2> HIDE DEF b
    <2> QED
      BY <1>1, <1>3, <1>4 DEF BufFateInv, BufFatesKept, b
  <1>5. CASE rcvq' = Append(rcvq, b) /\ bufFate' = [bufFate EXCEPT ![b] = "queued"]
    <2>1. \A i \in 1 .. Len(rcvq') : bufFate'[rcvq'[i]] = "queued"
      <3>1. bufFate \in [1 .. MaxRecvs -> BufFates]
        BY <1>0 DEF ReceiveTypes, Buffers
      <3>2. rcvq \in Seq(1 .. MaxRecvs) /\ b \in 1 .. MaxRecvs
        BY <1>0, <1>1 DEF ReceiveTypes, Buffers
      <3>3. \A i \in 1 .. Len(rcvq) : bufFate[rcvq[i]] = "queued"
        BY DEF BufFateInv
      <3> HIDE DEF b
      <3> QED
        BY <1>0, <1>2, <1>5, <3>1, <3>2, <3>3, AppendedFates
    <2>2. \A x \in Buffers : bufFate'[x] = IF x = b THEN "queued" ELSE bufFate[x]
      BY <1>0, <1>5 DEF ReceiveTypes
    <2> HIDE DEF b
    <2> QED
      BY <1>1, <1>2, <1>3, <1>5, <2>1, <2>2 DEF BufFateInv, BufFatesKept
  <1> QED
    BY <1>4, <1>5 DEF tapsConnectionReceive

(* The oldest receive gets its event, whichever it is.                     *)
LEMMA HeadFates ==
    ASSUME IInv, BufFateInv, conn = "open", receiveEvent = "added",
           NEW how, rcvq' = DeleteItem(rcvq, 1),
           bufFate' = [bufFate EXCEPT ![rcvq[1]] = how],
           recvs' = recvs
    PROVE  BufFateInv' /\ BufFatesKept
  <1>0. /\ ReceiveTypes /\ 1 \in 1 .. Len(rcvq) /\ rcvq[1] \in Buffers
        /\ MaxRecvs \in Nat /\ rcvq \in Seq(1 .. MaxRecvs) /\ Increasing(rcvq)
    BY HeadFacts, BoundsAssumption DEF ReceiveTypes, QueueInv, Buffers
  <1>1. \A x \in Buffers : x # rcvq[1] => bufFate'[x] = bufFate[x]
    BY <1>0 DEF ReceiveTypes
  <1>2. \A j \in 1 .. Len(rcvq') :
          /\ rcvq'[j] # rcvq[1]
          /\ \E i \in 1 .. Len(rcvq) : rcvq'[j] = rcvq[i]
    BY <1>0, OthersStay
  <1>3. \A i \in 1 .. Len(rcvq) : bufFate[rcvq[i]] = "queued" /\ rcvq[i] \in Buffers
    BY <1>0, ElementOfSeq DEF BufFateInv, ReceiveTypes
  <1>4. \A j \in 1 .. Len(rcvq') : bufFate'[rcvq'[j]] = "queued"
    BY <1>1, <1>2, <1>3
  <1>5. bufFate[rcvq[1]] = "queued"
    BY <1>0, <1>3
  <1> QED
    BY <1>0, <1>1, <1>4, <1>5 DEF BufFateInv, BufFatesKept

LEMMA BytesReceivedFates ==
    ASSUME IInv, BufFateInv, NEW how \in ReceiveEvents, BytesReceived(how)
    PROVE  BufFateInv' /\ BufFatesKept
  <1>1. /\ conn = "open" /\ receiveEvent = "added" /\ recvs' = recvs
        /\ Place(rcvq, receive_ctx) = 1
    BY HeadFacts DEF BytesReceived
  <1>2. \/ UNCHANGED <<rcvq, bufFate>>
        \/ \E event : /\ rcvq' = DeleteItem(rcvq, 1)
                      /\ bufFate' = [bufFate EXCEPT ![rcvq[1]] = event]
    BY <1>1 DEF BytesReceived, ReceivedPartial, Received, ReceiveError, Deliver
  <1>3. CASE UNCHANGED <<rcvq, bufFate>>
    BY <1>1, <1>3 DEF BufFateInv, BufFatesKept
  <1> QED
    BY <1>1, <1>2, <1>3, HeadFates

LEMMA ReceiveErrorFates ==
    ASSUME IInv, BufFateInv, ProtocolReceiveError
    PROVE  BufFateInv' /\ BufFatesKept
  <1>1. /\ conn = "open" /\ receiveEvent = "added" /\ recvs' = recvs
        /\ Place(rcvq, receive_ctx) = 1
    BY HeadFacts DEF ProtocolReceiveError
  <1> QED
    BY <1>1, HeadFates DEF ProtocolReceiveError, ReceiveError

LEMMA ReceiveFatesUnchanged ==
    ASSUME BufFateInv, UNCHANGED <<recvs, rcvq, bufFate>>
    PROVE  BufFateInv' /\ BufFatesKept
  BY DEF BufFateInv, BufFatesKept

(* Freeing the connection answers exactly what is still queued.            *)
LEMMA FreeFates ==
    ASSUME IInv, FateInv, tapsConnectionFree
    PROVE  FateInv' /\ MsgFatesKept /\ BufFatesKept
  <1>0. SendTypes /\ SendInv /\ ReceiveTypes /\ QueueInv
    BY Sides DEF SendSide, ReceiveSide
  <1>1. sends' = sends /\ recvs' = recvs
    BY DEF tapsConnectionFree
  <1>2. CASE UNCHANGED <<msgFate, bufFate, sndq, rcvq>>
    BY <1>1, <1>2, SendFatesUnchanged, ReceiveFatesUnchanged DEF FateInv
  <1>3. CASE /\ msgFate' = [m \in Messages |->
                  IF IsItem(sndq, m) THEN "sendError" ELSE msgFate[m]]
             /\ bufFate' = [b \in Buffers |->
                  IF IsItem(rcvq, b) THEN "receiveError" ELSE bufFate[b]]
             /\ sndq' = <<>> /\ rcvq' = <<>>
    <2>1. /\ DOMAIN sndq = 1 .. Len(sndq) /\ DOMAIN rcvq = 1 .. Len(rcvq)
          /\ Len(sndq') = 0 /\ Len(rcvq') = 0
      BY <1>0, <1>3, LenProperties, EmptySeq DEF SendTypes, ReceiveTypes
    <2>2. /\ \A m \in Messages : IsItem(sndq, m) => msgFate[m] = "queued"
          /\ \A b \in Buffers : IsItem(rcvq, b) => bufFate[b] = "queued"
      BY <2>1 DEF IsItem, FateInv, MsgFateInv, BufFateInv
    <2>3. MsgFateInv' /\ MsgFatesKept
      BY <1>1, <1>3, <2>1, <2>2 DEF FateInv, MsgFateInv, MsgFatesKept
    <2>4. BufFateInv' /\ BufFatesKept
      BY <1>1, <1>3, <2>1, <2>2 DEF FateInv, BufFateInv, BufFatesKept
    <2> QED
      BY <2>3, <2>4 DEF FateInv
  <1> QED
    BY <1>2, <1>3 DEF tapsConnectionFree

LEMMA InitFates == Init => FateInv
  BY EmptySeq DEF Init, FateInv, MsgFateInv, BufFateInv

LEMMA NextFates ==
    ASSUME IInv, FateInv, [Next]_vars
    PROVE  FateInv' /\ MsgFatesKept /\ BufFatesKept
  <1>0. MsgFateInv /\ BufFateInv
    BY DEF FateInv
  <1>1. CASE tapsConnectionSend
    <2>1. UNCHANGED <<recvs, rcvq, bufFate>>
      BY <1>1 DEF tapsConnectionSend, receiveVars
    <2> QED
      BY <1>0, <1>1, <2>1, SendFates, ReceiveFatesUnchanged DEF FateInv
  <1>2. ASSUME NEW min \in MinLengths, tapsConnectionReceive(min)
        PROVE  FateInv' /\ MsgFatesKept /\ BufFatesKept
    <2>1. UNCHANGED <<sends, sndq, msgFate>>
      BY <1>2 DEF tapsConnectionReceive, sendVars
    <2> QED
      BY <1>0, <1>2, <2>1, ReceiveFates, SendFatesUnchanged DEF FateInv
  <1>3. CASE tapsConnectionFree
    BY <1>3, FreeFates
  <1>4. ASSUME NEW how \in SendEvents, SendDone(how)
        PROVE  FateInv' /\ MsgFatesKept /\ BufFatesKept
    <2>1. UNCHANGED <<recvs, rcvq, bufFate>>
      BY <1>4 DEF SendDone, receiveVars
    <2> QED
      BY <1>0, <1>4, <2>1, SendDoneFates, ReceiveFatesUnchanged DEF FateInv
  <1>5. ASSUME NEW how \in ReceiveEvents, BytesReceived(how)
        PROVE  FateInv' /\ MsgFatesKept /\ BufFatesKept
    <2>1. UNCHANGED <<sends, sndq, msgFate>>
      BY <1>5 DEF BytesReceived, sendVars
    <2> QED
      BY <1>0, <1>5, <2>1, BytesReceivedFates, SendFatesUnchanged DEF FateInv
  <1>6. CASE ProtocolReceiveError
    <2>1. UNCHANGED <<sends, sndq, msgFate>>
      BY <1>6 DEF ProtocolReceiveError, sendVars
    <2> QED
      BY <1>0, <1>6, <2>1, ReceiveErrorFates, SendFatesUnchanged DEF FateInv
  <1>7. CASE NothingReceived \/ GarbageCallback \/ Closed \/ Peer \/ UNCHANGED vars
    <2>1. UNCHANGED <<sends, sndq, msgFate>> /\ UNCHANGED <<recvs, rcvq, bufFate>>
      BY <1>7 DEF NothingReceived, GarbageCallback, Closed, Peer, vars,
                  sendVars, receiveVars
    <2> QED
      BY <1>0, <2>1, SendFatesUnchanged, ReceiveFatesUnchanged DEF FateInv
  <1> QED
    BY <1>1, <1>2, <1>3, <1>4, <1>5, <1>6, <1>7 DEF Next, Application, EventLoop

(* Whatever fails, overlaps or is freed, a message or buffer whose event   *)
(* the application has got gets no other: it may free it (taps.h).         *)
THEOREM EventsAtMostOnce == Spec => EventAtMostOnce
  <1>1. Init => IInv /\ FateInv
    BY InitIInv, InitFates
  <1>2. IInv /\ FateInv /\ [Next]_vars => (IInv /\ FateInv)'
    BY NextIInv, NextFates
  <1>3. IInv /\ FateInv /\ [Next]_vars =>
          [MsgFatesKept /\ BufFatesKept]_vars
    BY NextFates
  <1>4. [MsgFatesKept /\ BufFatesKept]_vars =>
          [/\ \A m \in Messages :
                msgFate[m] \notin {"none", "queued"} => msgFate'[m] = msgFate[m]
           /\ \A b \in Buffers :
                bufFate[b] \notin {"none", "queued"} => bufFate'[b] = bufFate[b]
          ]_vars
    BY DEF MsgFatesKept, BufFatesKept
  <1> QED
    BY <1>1, <1>2, <1>3, <1>4, PTL DEF Spec, EventAtMostOnce

-----------------------------------------------------------------------------
(* The receiver over TCP *)

(* A protocol that reports a receive as received or as failed leaves the   *)
(* receiver stopped; TCP reports receivedPartial only.                     *)
LEMMA ArmedStep ==
    ASSUME ReceiveEvents \subseteq {"receivedPartial"},
           IInv, IInv', ReceiverArmed, [Next]_vars
    PROVE  ReceiverArmed'
  <1> SUFFICES ASSUME conn' = "open", ~rcvFault'
               PROVE  /\ receiveReady' <=> rcvq' = <<>>
                      /\ rcvq' # <<>> =>
                           /\ receive_ctx' = rcvq'[1]
                           /\ receiveEvent' = "added" \/ peerClosed'
    BY DEF ReceiverArmed
  <1>0. ReceiveTypes /\ QueueInv
    BY Sides DEF ReceiveSide
  <1>a. /\ Len(rcvq) \in Nat /\ readPos \in Nat /\ arrived \in Nat
        /\ receive_off \in 0 .. BufLen /\ BufLen \in Nat /\ readPos <= arrived
        /\ \A x \in Buffers : x \in Nat
    BY <1>0, QueueFacts, BoundsAssumption DEF ReceiveTypes, Buffers
  <1>b. ASSUME conn = "open", ~rcvFault
        PROVE  /\ receiveReady <=> rcvq = <<>>
               /\ rcvq # <<>> =>
                    /\ receive_ctx = rcvq[1]
                    /\ receiveEvent = "added" \/ peerClosed
    BY <1>b DEF ReceiverArmed
  <1>1. ASSUME NEW min \in MinLengths, tapsConnectionReceive(min)
        PROVE  /\ receiveReady' <=> rcvq' = <<>>
               /\ rcvq' # <<>> =>
                    /\ receive_ctx' = rcvq'[1]
                    /\ receiveEvent' = "added" \/ peerClosed'
    <2> DEFINE b == recvs + 1
    <2>1. /\ conn = "open" /\ ~rcvFault /\ peerClosed' = peerClosed
          /\ ~(receiveReady /\ ReceiveFailed)
      BY <1>1 DEF tapsConnectionReceive, socketVars
    <2>2. /\ rcvq' = Append(rcvq, b)
          /\ receiveReady' = FALSE
          /\ IF receiveReady
             THEN Receive(b, 0, receiveEvent = "added")
             ELSE UNCHANGED tcpReceiveVars
      BY <1>1 DEF tapsConnectionReceive
    <2>3. b \in Buffers
      BY <1>0, <1>1, BoundsAssumption DEF tapsConnectionReceive, ReceiveTypes, Buffers
    <2> HIDE DEF b
    <2>4. /\ rcvq' # <<>>
          /\ Len(rcvq') = Len(rcvq) + 1
          /\ rcvq'[Len(rcvq) + 1] = b
          /\ \A i \in 1 .. Len(rcvq) : rcvq'[i] = rcvq[i]
      <3>1. rcvq \in Seq(Buffers)
        BY <1>0 DEF ReceiveTypes
      <3> QED
        BY <2>2, <2>3, <3>1, <1>a, AppendProperties, EmptySeq
    <2>5. CASE receiveReady
      <3>1. rcvq = <<>> /\ receiveEvent # "added" /\ Len(rcvq) = 0
        BY <1>0, <2>1, <2>5, EmptySeq DEF QueueInv
      <3>2. receive_ctx' = b /\ receiveEvent' = "added"
        BY <2>1, <2>2, <2>5, <3>1 DEF Receive, ReceiveFailed
      <3> QED
        BY <2>2, <2>4, <3>1, <3>2
    <2>6. CASE ~receiveReady
      <3>1. rcvq # <<>> /\ receive_ctx = rcvq[1] /\ (receiveEvent = "added" \/ peerClosed)
        BY <1>b, <2>1, <2>6
      <3>2. Len(rcvq) > 0
        BY <1>0, <1>a, <3>1, EmptySeq DEF ReceiveTypes
      <3>3. rcvq'[1] = rcvq[1]
        BY <1>a, <2>4, <3>2
      <3> QED
        BY <2>1, <2>2, <2>4, <2>6, <3>1, <3>3 DEF tcpReceiveVars
    <2> QED
      BY <2>5, <2>6
  <1>2. ASSUME NEW how \in ReceiveEvents, BytesReceived(how)
        PROVE  /\ receiveReady' <=> rcvq' = <<>>
               /\ rcvq' # <<>> =>
                    /\ receive_ctx' = rcvq'[1]
                    /\ receiveEvent' = "added" \/ peerClosed'
    <2>1. /\ conn = "open" /\ receiveEvent = "added"
          /\ how = "receivedPartial"
      BY <1>2 DEF BytesReceived
    <2>2. /\ Len(rcvq) > 0 /\ 1 \in 1 .. Len(rcvq)
          /\ receive_ctx = rcvq[1]
          /\ Place(rcvq, receive_ctx) = 1
          /\ receiveReady = FALSE
      BY <2>1, HeadFacts
    <2>3. PICK len : ReceivedPartial(1, len)
      BY <1>2, <2>1, <2>2 DEF BytesReceived
    <2>4. CASE len < minLength[rcvq[1]]
      <3>1. /\ Receive(rcvq[1], TruncIovec(len), FALSE)
            /\ rcvFault' = (rcvFault \/ ReceiveFailed)
            /\ UNCHANGED <<rcvq, receiveReady>>
        BY <2>3, <2>4 DEF ReceivedPartial
      <3>2. receive_ctx' = rcvq[1] /\ receiveEvent' = "added"
        BY <3>1 DEF Receive, ReceiveFailed
      <3>3. rcvq # <<>>
        BY <2>2, EmptySeq
      <3>4. ~receiveReady'
        BY <2>2, <3>1, Zenon
      <3> QED
        BY <3>1, <3>2, <3>3, <3>4
    <2>5. CASE ~(len < minLength[rcvq[1]])
      <3>1. /\ QueueUpNext(1) /\ rcvq' = DeleteItem(rcvq, 1)
            /\ rcvFault' = (rcvFault \/ (1 < Len(rcvq) /\ ReceiveFailed))
        BY <2>3, <2>5 DEF ReceivedPartial, Deliver
      <3>2. /\ rcvq' \in Seq(Buffers)
            /\ Len(rcvq') = Len(rcvq) - 1
            /\ \A j \in 1 .. Len(rcvq) - 1 :
                 rcvq'[j] = IF j < 1 THEN rcvq[j] ELSE rcvq[j + 1]
        BY <1>0, <2>2, <3>1, DeleteItemSeq DEF ReceiveTypes
      <3>3. CASE 1 < Len(rcvq)
        <4>1. Receive(rcvq[1 + 1], 0, FALSE) /\ UNCHANGED receiveReady
          BY <3>1, <3>3 DEF QueueUpNext
        <4>2. receive_ctx' = rcvq[1 + 1] /\ receiveEvent' = "added"
          BY <3>1, <3>3, <4>1 DEF Receive, ReceiveFailed
        <4>3. rcvq' # <<>> /\ rcvq'[1] = rcvq[1 + 1]
          BY <1>a, <3>2, <3>3, EmptySeq
        <4>4. ~receiveReady'
          BY <2>2, <4>1, Zenon
        <4> QED
          BY <4>2, <4>3, <4>4
      <3>4. CASE ~(1 < Len(rcvq))
        <4>1. receiveReady' = TRUE
          BY <3>1, <3>4 DEF QueueUpNext
        <4>2. rcvq' = <<>>
          BY <1>a, <2>2, <3>2, <3>4, EmptySeq
        <4> QED
          BY <4>1, <4>2
      <3> QED
        BY <3>3, <3>4
    <2> QED
      BY <2>4, <2>5
  <1>3. CASE NothingReceived
    <2>1. PICK n \in ReadvResults :
            n <= 0 /\ rcvFault' = (rcvFault \/ n < 0 \/ receive_off = BufLen)
      BY <1>3 DEF NothingReceived
    <2>2. /\ conn = "open" /\ ~rcvFault /\ ~(n < 0) /\ receive_off # BufLen
          /\ arrived > readPos \/ peerClosed
      BY <1>3, <2>1 DEF NothingReceived, Readable
    <2>3. n = LeastOf(arrived - readPos, BufLen - receive_off)
      BY <2>1, <2>2 DEF ReadvResults
    <2>4. peerClosed
      BY <1>a, <2>1, <2>2, <2>3 DEF LeastOf
    <2>5. UNCHANGED <<receiveReady, rcvq, receive_ctx, peerClosed>>
      BY <1>3 DEF NothingReceived, socketVars
    <2> QED
      BY <1>b, <2>2, <2>4, <2>5
  <1>4. CASE ProtocolReceiveError
    BY <1>4 DEF ProtocolReceiveError
  <1>5. CASE tapsConnectionFree \/ GarbageCallback \/ Closed
    BY <1>5 DEF tapsConnectionFree, GarbageCallback, Closed
  <1>6. CASE tapsConnectionSend \/ (\E how \in SendEvents : SendDone(how)) \/ Peer
             \/ UNCHANGED vars
    <2>1. /\ conn = "open" /\ ~rcvFault
          /\ UNCHANGED <<receiveReady, rcvq, receive_ctx, receiveEvent>>
          /\ peerClosed => peerClosed'
      BY <1>6 DEF tapsConnectionSend, SendDone, Peer, PeerSend, PeerClose, vars,
                  tcpVars, receiveVars, tcpReceiveVars, socketVars
    <2> QED
      BY <1>b, <2>1
  <1> QED
    BY <1>1, <1>2, <1>3, <1>4, <1>5, <1>6 DEF Next, Application, EventLoop

(* Over TCP a queued receive is always with the protocol, until a call     *)
(* fails or the peer closes, and the receiver is ready only when nothing   *)
(* is queued, whatever the buffer and minimum lengths.                     *)
THEOREM ReceiverAlwaysArmed ==
    ASSUME ReceiveEvents \subseteq {"receivedPartial"}
    PROVE  Spec => []ReceiverArmed
  <1>1. Init => ReceiverArmed
    BY DEF Init, ReceiverArmed
  <1>2. IInv /\ IInv' /\ ReceiverArmed /\ [Next]_vars => ReceiverArmed'
    BY ArmedStep
  <1> QED
    BY <1>1, <1>2, Invariance, PTL DEF Spec

-----------------------------------------------------------------------------
(* Sending over TCP *)

(* SentTracksWire without the concatenation. *)
WireTracked ==
    conn = "open" =>
        wire = IF sendEvent = "added" THEN Append(reported, send_ctx) ELSE reported

LEMMA TrackedIsTracks == IInv => (SentTracksWire <=> WireTracked)
  <1> SUFFICES ASSUME IInv, conn = "open"
               PROVE  reported \o (IF sendEvent = "added" THEN <<send_ctx>> ELSE <<>>)
                      = IF sendEvent = "added" THEN Append(reported, send_ctx)
                        ELSE reported
    BY DEF SentTracksWire, WireTracked
  <1>0. reported \in Seq(Messages) /\ SendTypes /\ SendInv
    BY Sides DEF SendSide, SendTypes
  <1>1. CASE sendEvent = "added"
    <2>1. send_ctx \in Messages
      BY <1>0, <1>1, ElementOfSeq DEF SendInv, SendTypes
    <2>2. Append(reported, send_ctx) = reported \o <<send_ctx>>
      BY <1>0, <2>1, AppendIsConcat
    <2> QED
      BY <1>1, <2>2
  <1>2. CASE sendEvent # "added"
    <2>1. reported \o <<>> = reported
      BY <1>0, ConcatEmptySeq
    <2> QED
      BY <1>2, <2>1
  <1> QED
    BY <1>1, <1>2

LEMMA TrackedStep ==
    ASSUME "event_add" \notin Faults, SendEvents \subseteq {"sent"},
           IInv, WireTracked, [Next]_vars
    PROVE  WireTracked'
  <1>0. ASSUME NEW m, NEW pending \in BOOLEAN, NEW r, Send(m, pending, r)
        PROVE  IF pending
               THEN UNCHANGED <<sendEvent, send_ctx, wire>>
               ELSE wire' = IF sendEvent' = "added" THEN Append(wire, send_ctx')
                            ELSE wire
    BY <1>0 DEF Send
  <1>1. CASE tapsConnectionSend
    <2>1. conn = "open" /\ conn' = "open" /\ reported' = reported
      BY <1>1 DEF tapsConnectionSend
    <2>2. CASE UNCHANGED tcpSendVars
      BY <2>1, <2>2 DEF tcpSendVars, WireTracked
    <2>3. CASE \E r \in {"ok", "err"} : Send(sends + 1, sendEvent = "added", r)
      <3>1. CASE sendEvent = "added"
        BY <1>0, <2>1, <2>3, <3>1 DEF WireTracked
      <3>2. CASE sendEvent # "added"
        BY <1>0, <2>1, <2>3, <3>2 DEF WireTracked
      <3> QED
        BY <3>1, <3>2
    <2> QED
      BY <1>1, <2>2, <2>3 DEF tapsConnectionSend
  <1>2. ASSUME NEW how \in SendEvents, SendDone(how)
        PROVE  WireTracked'
    <2>1. /\ conn = "open" /\ conn' = "open" /\ sendEvent = "added"
          /\ reported' = Append(reported, send_ctx)
      BY <1>2 DEF SendDone
    <2>2. wire = reported'
      BY <2>1 DEF WireTracked
    <2>3. \/ \E m : \E r \in {"ok", "err"} : Send(m, FALSE, r)
          \/ sendEvent' = "idle" /\ wire' = wire
      BY <1>2 DEF SendDone, SendCommon
    <2> QED
      BY <1>0, <2>1, <2>2, <2>3 DEF WireTracked
  <1>3. CASE \/ \E min \in MinLengths : tapsConnectionReceive(min)
             \/ \E how \in ReceiveEvents : BytesReceived(how)
             \/ NothingReceived \/ ProtocolReceiveError \/ Peer \/ UNCHANGED vars
    <2>1. /\ conn' = "open" => conn = "open"
          /\ UNCHANGED <<sendEvent, send_ctx, wire, reported>>
      BY <1>3 DEF tapsConnectionReceive, BytesReceived, NothingReceived,
                  ProtocolReceiveError, Peer, vars, tcpVars, tcpSendVars, sendVars
    <2> QED
      BY <2>1 DEF WireTracked
  <1>4. CASE tapsConnectionFree \/ GarbageCallback \/ Closed
    BY <1>4 DEF tapsConnectionFree, GarbageCallback, Closed, WireTracked
  <1> QED
    BY <1>1, <1>2, <1>3, <1>4 DEF Next, Application, EventLoop

(* Over TCP, and when event_add does not fail, what is on the wire is what *)
(* was reported sent and then the one message whose event is outstanding;  *)
(* a failing malloc or writev does not disturb it.                         *)
THEOREM SentAlwaysTracksWire ==
    ASSUME "event_add" \notin Faults, SendEvents \subseteq {"sent"}
    PROVE  Spec => []SentTracksWire
  <1>1. Init => WireTracked
    BY DEF Init, TcpInit, WireTracked
  <1>2. IInv /\ WireTracked /\ [Next]_vars => WireTracked'
    BY TrackedStep
  <1>3. IInv /\ WireTracked => SentTracksWire
    BY TrackedIsTracks
  <1> QED
    BY <1>1, <1>2, <1>3, Invariance, PTL DEF Spec
=============================================================================
