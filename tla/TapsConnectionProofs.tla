------------------------ MODULE TapsConnectionProofs ------------------------
(***************************************************************************)
(* Proofs about TapsConnection for any number of sends, receives and       *)
(* bytes, any buffer length and minimum lengths, any protocol events and   *)
(* any failing calls.                                                      *)
(***************************************************************************)
EXTENDS TapsConnection, SequenceTheorems, TLAPS

Increasing(q) == \A i, j \in 1 .. Len(q) : i < j => q[i] < q[j]
AtMost(q, n)  == \A i \in 1 .. Len(q) : q[i] <= n

(* Sending: queue and wire both follow the order of the calls, and the     *)
(* outstanding message is the last one written and still queued.           *)
SendInv ==
    /\ Increasing(sndq) /\ AtMost(sndq, sends)
    /\ Increasing(wire) /\ AtMost(wire, sends)
    /\ conn = "open" /\ sendEvent = "added" =>
         /\ Len(wire) > 0
         /\ send_ctx = wire[Len(wire)]
         /\ \E i \in 1 .. Len(sndq) : sndq[i] = send_ctx

(* Receiving: only the oldest queued buffer is ever with the protocol or   *)
(* partly filled, and its fill is where receive_buffer points.             *)
QueueInv ==
    /\ Increasing(rcvq) /\ AtMost(rcvq, recvs)
    /\ \A i \in 2 .. Len(rcvq) : currLength[rcvq[i]] = 0
    /\ truncVecs = 0 \/ truncVecs = 1
    /\ conn = "open" =>
         /\ receiveReady => rcvq = <<>> /\ receiveEvent # "added"
         /\ truncVecs = 1 <=> Len(rcvq) > 0 /\ currLength[rcvq[1]] > 0
         /\ receiveEvent = "added" =>
              /\ Len(rcvq) > 0
              /\ receive_ctx = rcvq[1]
              /\ receive_off = currLength[rcvq[1]]

(* Bytes: as long as the receiver runs, every byte read has been delivered *)
(* or sits in the oldest buffer, in its place.                             *)
StreamInv ==
    /\ \A i \in 1 .. Len(stream) : stream[i] = i
    /\ conn = "open" /\ receiveReady => readPos = Len(stream)
    /\ conn = "open" /\ receiveEvent = "added" =>
         /\ readPos = Len(stream) + receive_off
         /\ \A i \in 0 .. BufLen - 1 :
              i < receive_off => memory[receive_ctx][i] = Len(stream) + 1 + i

IInv == TypeOK /\ SendInv /\ QueueInv /\ StreamInv

(* TypeOK by halves. *)
SendTypes ==
    /\ sendEvent \in EventStates
    /\ sent \in {"null", "taps", "garbage"}
    /\ send_ctx \in 0 .. MaxSends
    /\ wire \in Seq(Messages)
    /\ sends \in 0 .. MaxSends
    /\ sndq \in Seq(Messages)
    /\ sendReady \in BOOLEAN
    /\ msgFate \in [Messages -> MsgFates]
    /\ ret \in [Messages -> {"none", "ok", "err"}]
    /\ reported \in Seq(Messages)

ReceiveTypes ==
    /\ receiveEvent \in EventStates
    /\ received \in {"null", "taps", "garbage"}
    /\ receive_ctx \in 0 .. MaxRecvs
    /\ receive_off \in 0 .. BufLen
    /\ memory \in [Buffers -> [0 .. BufLen - 1 -> 0 .. MaxBytes]]
    /\ arrived \in 0 .. MaxBytes
    /\ readPos \in 0 .. arrived
    /\ peerClosed \in BOOLEAN
    /\ recvs \in 0 .. MaxRecvs
    /\ rcvq \in Seq(Buffers)
    /\ receiveReady \in BOOLEAN
    /\ minLength \in [Buffers -> Nat]
    /\ currLength \in [Buffers -> 0 .. BufLen]
    /\ bufFate \in [Buffers -> BufFates]
    /\ truncVecs \in Nat
    /\ stream \in Seq(0 .. MaxBytes)
    /\ rcvFault \in BOOLEAN

ConnTypes ==
    /\ closeEvent \in EventStates
    /\ conn \in {"open", "closed", "freed", "crashed"}

SendSide    == SendTypes /\ SendInv
ReceiveSide == ReceiveTypes /\ QueueInv /\ StreamInv

LEMMA Sides == IInv <=> SendSide /\ ReceiveSide /\ ConnTypes
  BY DEF IInv, TypeOK, TcpTypeOK, SendTypes, ReceiveTypes, ConnTypes,
         SendSide, ReceiveSide

-----------------------------------------------------------------------------
(* Queues *)

(* Unlinking an item keeps the others and their order. *)
LEMMA DeleteItemSeq ==
    ASSUME NEW S, NEW q \in Seq(S), NEW k \in 1 .. Len(q)
    PROVE  /\ DeleteItem(q, k) \in Seq(S)
           /\ Len(DeleteItem(q, k)) = Len(q) - 1
           /\ \A j \in 1 .. Len(q) - 1 :
                DeleteItem(q, k)[j] = IF j < k THEN q[j] ELSE q[j + 1]
  <1>1. Len(q) \in Nat /\ \A j \in 1 .. Len(q) : q[j] \in S
    BY LenProperties, ElementOfSeq
  <1>2. DeleteItem(q, k) \in [1 .. Len(q) - 1 -> S]
    BY <1>1 DEF DeleteItem
  <1>3. Len(q) - 1 \in Nat
    BY <1>1
  <1> QED
    BY <1>1, <1>2, <1>3 DEF DeleteItem

LEMMA DeleteItemOrder ==
    ASSUME NEW n \in Nat, NEW q \in Seq(1 .. n), NEW k \in 1 .. Len(q),
           NEW m \in Nat, Increasing(q), AtMost(q, m)
    PROVE  Increasing(DeleteItem(q, k)) /\ AtMost(DeleteItem(q, k), m)
  <1>1. /\ Len(DeleteItem(q, k)) = Len(q) - 1
        /\ \A j \in 1 .. Len(q) - 1 :
             DeleteItem(q, k)[j] = IF j < k THEN q[j] ELSE q[j + 1]
    BY DeleteItemSeq
  <1>2. Len(q) \in Nat
    BY LenProperties
  <1>3. AtMost(DeleteItem(q, k), m)
    BY <1>1, <1>2, SMTT(30) DEF AtMost
  <1>4. Increasing(DeleteItem(q, k))
    <2> DEFINE d == DeleteItem(q, k)
               from(j) == IF j < k THEN j ELSE j + 1
    <2>1. \A j \in 1 .. Len(q) - 1 : from(j) \in 1 .. Len(q) /\ d[j] = q[from(j)]
      BY <1>1, <1>2, SMTT(30)
    <2>2. \A i, j \in 1 .. Len(q) - 1 : i < j => from(i) < from(j)
      BY <1>2
    <2> HIDE DEF d, from
    <2>3. ASSUME NEW i \in 1 .. Len(q) - 1, NEW j \in 1 .. Len(q) - 1, i < j
          PROVE  d[i] < d[j]
      BY <2>1, <2>2, <2>3 DEF Increasing
    <2> QED
      BY <1>1, <2>3 DEF Increasing, d
  <1> QED
    BY <1>3, <1>4

(* Queueing the item of a new call. *)
LEMMA AppendOrder ==
    ASSUME NEW n \in Nat, NEW q \in Seq(1 .. n), NEW m \in 1 .. n,
           Increasing(q), \A i \in 1 .. Len(q) : q[i] < m
    PROVE  /\ Append(q, m) \in Seq(1 .. n)
           /\ Len(Append(q, m)) = Len(q) + 1
           /\ Append(q, m)[Len(q) + 1] = m
           /\ \A i \in 1 .. Len(q) : Append(q, m)[i] = q[i]
           /\ Increasing(Append(q, m))
           /\ AtMost(Append(q, m), m)
  <1>1. /\ Append(q, m) \in Seq(1 .. n)
        /\ Len(Append(q, m)) = Len(q) + 1
        /\ Append(q, m)[Len(q) + 1] = m
        /\ \A i \in 1 .. Len(q) : Append(q, m)[i] = q[i]
    BY AppendProperties
  <1>2. Len(q) \in Nat /\ \A i \in 1 .. Len(q) : q[i] \in 1 .. n
    BY LenProperties, ElementOfSeq
  <1>3. Increasing(Append(q, m))
    <2> DEFINE a == Append(q, m)
    <2>1. ASSUME NEW i \in 1 .. Len(q) + 1, NEW j \in 1 .. Len(q) + 1, i < j
          PROVE  a[i] < a[j]
      <3>1. i \in 1 .. Len(q) /\ a[i] = q[i]
        BY <1>1, <1>2, <2>1
      <3>2. CASE j = Len(q) + 1
        BY <1>1, <3>1, <3>2
      <3>3. CASE j \in 1 .. Len(q)
        <4>1. a[j] = q[j] /\ q[i] < q[j]
          BY <1>1, <2>1, <3>1, <3>3 DEF Increasing
        <4> QED
          BY <3>1, <4>1
      <3> QED
        BY <1>2, <3>2, <3>3
    <2> QED
      BY <1>1, <2>1 DEF Increasing
  <1>4. AtMost(Append(q, m), m)
    BY <1>1, <1>2 DEF AtMost
  <1> QED
    BY <1>1, <1>3, <1>4

(* Place finds the item of an ordered queue. *)
LEMMA PlaceOf ==
    ASSUME NEW n \in Nat, NEW q \in Seq(1 .. n), Increasing(q),
           NEW k \in 1 .. Len(q)
    PROVE  Place(q, q[k]) = k
  <1>1. DOMAIN q = 1 .. Len(q) /\ Len(q) \in Nat
    BY LenProperties
  <1>2. \A i \in 1 .. Len(q) : q[i] \in 1 .. n
    BY ElementOfSeq
  <1>3. \A i \in DOMAIN q : q[i] = q[k] <=> i = k
    BY <1>1, <1>2 DEF Increasing
  <1> QED
    BY <1>1, <1>3 DEF Place

-----------------------------------------------------------------------------
(* Sending *)

(* The protocol's Send, for a message later than everything on the wire. *)
LEMMA SendEffect ==
    ASSUME SendTypes, Increasing(wire),
           NEW m \in Messages, \A i \in 1 .. Len(wire) : wire[i] < m,
           NEW pending \in BOOLEAN, NEW r, Send(m, pending, r)
    PROVE  /\ sendEvent' \in EventStates
           /\ sent' \in {"null", "taps", "garbage"}
           /\ send_ctx' \in 0 .. MaxSends
           /\ pending => UNCHANGED <<sendEvent, send_ctx, wire>>
           /\ ~pending /\ sendEvent' = "added" =>
                send_ctx' = m /\ wire' = Append(wire, m)
           /\ wire' = wire \/ wire' = Append(wire, m)
  <1>1. m \in 0 .. MaxSends
    BY BoundsAssumption DEF Messages
  <1>2. sent' \in {"null", "taps", "garbage"}
    BY DEF Send, SetOnce, SendTypes
  <1>3. CASE pending
    BY <1>2, <1>3 DEF Send, SendTypes
  <1>4. CASE ~pending
    BY <1>1, <1>2, <1>4 DEF Send, EventStates
  <1> QED
    BY <1>3, <1>4

(* The wire stays ordered when such a message is written. *)
LEMMA WireEffect ==
    ASSUME SendTypes, Increasing(wire),
           NEW m \in Messages, \A i \in 1 .. Len(wire) : wire[i] < m,
           NEW n \in Nat, AtMost(wire, n), m <= n,
           wire' = wire \/ wire' = Append(wire, m)
    PROVE  /\ wire' \in Seq(Messages)
           /\ Increasing(wire') /\ AtMost(wire', n)
           /\ wire' = Append(wire, m) => Len(wire') > 0 /\ wire'[Len(wire')] = m
  <1>1. Len(wire) \in Nat /\ \A i \in 1 .. Len(wire) : wire[i] \in 1 .. MaxSends
    BY LenProperties, ElementOfSeq DEF SendTypes, Messages
  <1>2. CASE wire' = wire
    <2>1. wire # Append(wire, m)
      <3>1. Len(Append(wire, m)) = Len(wire) + 1
        BY AppendProperties DEF SendTypes
      <3> QED
        BY <1>1, <3>1
    <2> QED
      BY <1>2, <2>1 DEF SendTypes
  <1>3. CASE wire' = Append(wire, m)
    <2>1. /\ wire' \in Seq(Messages)
          /\ Len(wire') = Len(wire) + 1
          /\ wire'[Len(wire) + 1] = m
          /\ Increasing(wire')
          /\ AtMost(wire', m)
      BY <1>3, AppendOrder, BoundsAssumption DEF SendTypes, Messages
    <2>2. \A i \in 1 .. Len(wire') : wire'[i] \in 1 .. MaxSends
      BY <2>1, ElementOfSeq DEF Messages
    <2>3. m \in Nat
      BY BoundsAssumption DEF Messages
    <2>4. AtMost(wire', n)
      BY <2>1, <2>2, <2>3 DEF AtMost
    <2> QED
      BY <1>1, <2>1, <2>4
  <1> QED
    BY <1>2, <1>3

LEMMA SendStep == IInv /\ tapsConnectionSend => SendSide'
  <1> SUFFICES ASSUME IInv, tapsConnectionSend PROVE SendSide'
    OBVIOUS
  <1> DEFINE m == sends + 1
  <1>0. SendTypes /\ SendInv
    BY Sides DEF SendSide
  <1>1. /\ sends \in Nat /\ sends' = m /\ m \in Messages /\ m \in Nat
        /\ conn' = conn /\ sendReady' = sendReady /\ reported' = reported
        /\ sends' \in 0 .. MaxSends
    BY <1>0, BoundsAssumption DEF tapsConnectionSend, SendTypes, Messages
  <1>2. /\ Len(sndq) \in Nat /\ \A i \in 1 .. Len(sndq) : sndq[i] \in Nat
        /\ Len(wire) \in Nat /\ \A i \in 1 .. Len(wire) : wire[i] \in Nat
    BY <1>0, LenProperties, ElementOfSeq, BoundsAssumption
       DEF SendTypes, Messages
  <1>3. /\ \A i \in 1 .. Len(sndq) : sndq[i] < m
        /\ \A i \in 1 .. Len(wire) : wire[i] < m
        /\ AtMost(sndq, m) /\ AtMost(wire, m)
    BY <1>0, <1>1, <1>2 DEF SendInv, AtMost
  <1>4. /\ msgFate' \in [Messages -> MsgFates]
        /\ ret' \in [Messages -> {"none", "ok", "err"}]
    BY <1>0, <1>1 DEF tapsConnectionSend, SendTypes, MsgFates
  <1> HIDE DEF m
  <1>5. CASE UNCHANGED <<sndq, tcpSendVars>>
    BY <1>0, <1>1, <1>3, <1>4, <1>5 DEF SendSide, SendTypes, SendInv, tcpSendVars
  <1>6. CASE sndq' = Append(sndq, m) /\
             \/ UNCHANGED tcpSendVars
             \/ \E r \in {"ok", "err"} : Send(m, sendEvent = "added", r)
    <2>1. /\ sndq' \in Seq(Messages)
          /\ Len(sndq') = Len(sndq) + 1
          /\ sndq'[Len(sndq) + 1] = m
          /\ \A i \in 1 .. Len(sndq) : sndq'[i] = sndq[i]
          /\ Increasing(sndq')
          /\ AtMost(sndq', m)
      BY <1>0, <1>1, <1>3, <1>6, AppendOrder, BoundsAssumption, SMTT(30)
         DEF SendTypes, SendInv, Messages
    <2>2. ASSUME NEW x, \E i \in 1 .. Len(sndq) : sndq[i] = x
          PROVE  \E i \in 1 .. Len(sndq') : sndq'[i] = x
      BY <1>2, <2>1, <2>2
    <2>3. CASE UNCHANGED tcpSendVars
      BY <1>0, <1>1, <1>3, <1>4, <2>1, <2>2, <2>3
         DEF SendSide, SendTypes, SendInv, tcpSendVars
    <2>4. CASE \E r \in {"ok", "err"} : Send(m, sendEvent = "added", r)
      <3>1. /\ sendEvent' \in EventStates
            /\ sent' \in {"null", "taps", "garbage"}
            /\ send_ctx' \in 0 .. MaxSends
            /\ sendEvent = "added" => UNCHANGED <<sendEvent, send_ctx, wire>>
            /\ ~(sendEvent = "added") /\ sendEvent' = "added" =>
                 send_ctx' = m /\ wire' = Append(wire, m)
            /\ wire' = wire \/ wire' = Append(wire, m)
        BY <1>0, <1>1, <1>3, <2>4, SendEffect DEF SendInv
      <3>2. /\ wire' \in Seq(Messages)
            /\ Increasing(wire') /\ AtMost(wire', m)
            /\ wire' = Append(wire, m) => Len(wire') > 0 /\ wire'[Len(wire')] = m
        BY <1>0, <1>1, <1>3, <3>1, WireEffect DEF SendInv
      <3>3. conn' = "open" /\ sendEvent' = "added" =>
               /\ Len(wire') > 0
               /\ send_ctx' = wire'[Len(wire')]
               /\ \E i \in 1 .. Len(sndq') : sndq'[i] = send_ctx'
        <4>1. CASE sendEvent = "added"
          BY <1>0, <1>1, <2>2, <3>1, <4>1 DEF SendInv
        <4>2. CASE sendEvent # "added"
          <5>1. Len(sndq) + 1 \in 1 .. Len(sndq')
            BY <1>2, <2>1
          <5> QED
            BY <2>1, <3>1, <3>2, <4>2, <5>1
        <4> QED
          BY <4>1, <4>2
      <3> QED
        BY <1>0, <1>1, <1>4, <2>1, <3>1, <3>2, <3>3
           DEF SendSide, SendTypes, SendInv
    <2> QED
      BY <1>6, <2>3, <2>4
  <1> QED
    BY <1>5, <1>6 DEF tapsConnectionSend, m

LEMMA SendDoneStep ==
    ASSUME IInv, NEW how \in SendEvents, SendDone(how)
    PROVE  SendSide'
  <1>0. SendTypes /\ SendInv
    BY Sides DEF SendSide
  <1>1. PICK k \in 1 .. Len(sndq) : sndq[k] = send_ctx
    BY <1>0 DEF SendDone, SendInv
  <1>2. /\ Len(sndq) \in Nat /\ \A i \in 1 .. Len(sndq) : sndq[i] \in 1 .. MaxSends
        /\ Len(wire) \in Nat /\ \A i \in 1 .. Len(wire) : wire[i] \in 1 .. MaxSends
        /\ sends \in Nat
    BY <1>0, LenProperties, ElementOfSeq, BoundsAssumption, SMTT(30)
       DEF SendTypes, Messages
  <1>3. SendCommon(k)
    <2>1. Place(sndq, sndq[k]) = k
      BY <1>0, PlaceOf, BoundsAssumption DEF SendTypes, SendInv, Messages
    <2> QED
      BY <1>1, <2>1 DEF SendDone
  <1>4. /\ sndq' = DeleteItem(sndq, k)
        /\ sends' = sends /\ ret' = ret /\ conn' = conn
    BY <1>3 DEF SendCommon, SendDone
  <1>5. /\ sndq' \in Seq(Messages)
        /\ Len(sndq') = Len(sndq) - 1
        /\ \A j \in 1 .. Len(sndq) - 1 :
             sndq'[j] = IF j < k THEN sndq[j] ELSE sndq[j + 1]
        /\ Increasing(sndq') /\ AtMost(sndq', sends)
    <2>1. sndq' = DeleteItem(sndq, k) /\ sends \in Nat /\ MaxSends \in Nat
      BY <1>2, <1>4, BoundsAssumption
    <2>2. sndq \in Seq(1 .. MaxSends) /\ Increasing(sndq) /\ AtMost(sndq, sends)
      BY <1>0 DEF SendTypes, SendInv, Messages
    <2>3. /\ sndq' \in Seq(1 .. MaxSends)
          /\ Len(sndq') = Len(sndq) - 1
          /\ \A j \in 1 .. Len(sndq) - 1 :
               sndq'[j] = IF j < k THEN sndq[j] ELSE sndq[j + 1]
      BY <2>1, <2>2, DeleteItemSeq
    <2>4. Increasing(sndq') /\ AtMost(sndq', sends)
      BY <2>1, <2>2, DeleteItemOrder
    <2> QED
      BY <2>3, <2>4 DEF Messages
  <1>6. send_ctx \in Messages
    BY <1>1, <1>2 DEF Messages
  <1>7. /\ msgFate' \in [Messages -> MsgFates]
        /\ reported' \in Seq(Messages)
    <2>1. how \in MsgFates
      BY EventsAssumption DEF MsgFates
    <2>2. Append(reported, send_ctx) \in Seq(Messages)
      BY <1>0, <1>6, AppendProperties DEF SendTypes
    <2> QED
      BY <1>0, <2>1, <2>2 DEF SendDone, SendTypes
  <1>8. CASE k < Len(sndq)
    <2> DEFINE m == sndq[k + 1]
    <2>1. /\ k + 1 \in 1 .. Len(sndq) /\ m \in Messages
          /\ send_ctx < m /\ m <= sends
      BY <1>0, <1>1, <1>2, <1>8 DEF SendInv, Increasing, AtMost, Messages
    <2>2. \A i \in 1 .. Len(wire) : wire[i] < m
      <3>1. \A i \in 1 .. Len(wire) : wire[i] <= send_ctx
        BY <1>0, <1>2 DEF SendDone, SendInv, Increasing
      <3> QED
        BY <1>2, <1>6, <2>1, <3>1 DEF Messages
    <2>3. PICK r \in {"ok", "err"} : Send(m, FALSE, r)
      BY <1>3, <1>8 DEF SendCommon
    <2>4. sendReady' = sendReady
      BY <1>3, <1>8 DEF SendCommon
    <2> HIDE DEF m
    <2>5. /\ sendEvent' \in EventStates
          /\ sent' \in {"null", "taps", "garbage"}
          /\ send_ctx' \in 0 .. MaxSends
          /\ sendEvent' = "added" => send_ctx' = m /\ wire' = Append(wire, m)
          /\ wire' = wire \/ wire' = Append(wire, m)
      BY <1>0, <2>1, <2>2, <2>3, SendEffect DEF SendInv
    <2>6. /\ wire' \in Seq(Messages)
          /\ Increasing(wire') /\ AtMost(wire', sends)
          /\ wire' = Append(wire, m) => Len(wire') > 0 /\ wire'[Len(wire')] = m
      BY <1>0, <1>2, <2>1, <2>2, <2>5, WireEffect DEF SendInv
    <2>7. k \in 1 .. Len(sndq') /\ sndq'[k] = m
      BY <1>2, <1>5, <1>8 DEF m
    <2> QED
      BY <1>0, <1>4, <1>5, <1>7, <2>4, <2>5, <2>6, <2>7
         DEF SendSide, SendTypes, SendInv
  <1>9. CASE ~(k < Len(sndq))
    <2>1. /\ sendReady' = TRUE /\ sendEvent' = "idle"
          /\ UNCHANGED <<sent, send_ctx, wire>>
      BY <1>3, <1>9 DEF SendCommon
    <2> QED
      BY <1>0, <1>4, <1>5, <1>7, <2>1
         DEF SendSide, SendTypes, SendInv, EventStates
  <1> QED
    BY <1>8, <1>9

(* The other actions leave the send side alone, stop it, or empty it. *)
LEMMA SendSideUnchanged ==
    ASSUME IInv, UNCHANGED <<sendVars, tcpSendVars>>,
           conn' = "open" => conn = "open"
    PROVE  SendSide'
  BY Sides DEF SendSide, SendTypes, SendInv, sendVars, tcpSendVars

LEMMA SendSideClosed == IInv /\ Closed => SendSide'
  BY Sides DEF Closed, CloseSocket, SendSide, SendTypes, SendInv, sendVars,
               EventStates

LEMMA SendSideFree == IInv /\ tapsConnectionFree => SendSide'
  <1> SUFFICES ASSUME IInv, tapsConnectionFree PROVE SendSide'
    OBVIOUS
  <1>1. SendTypes /\ SendInv
    BY Sides DEF SendSide
  <1>2. /\ UNCHANGED <<tcpSendVars, sends, sendReady, ret, reported>>
        /\ conn' # "open"
        /\ sndq' = sndq \/ sndq' = <<>>
    BY DEF tapsConnectionFree, tcpVars
  <1>3. msgFate' \in [Messages -> MsgFates]
    BY <1>1 DEF tapsConnectionFree, SendTypes, MsgFates
  <1>4. /\ sndq' \in Seq(Messages)
        /\ Increasing(sndq') /\ AtMost(sndq', sends)
    <2>1. CASE sndq' = <<>>
      <3>1. sndq' \in Seq(Messages) /\ Len(sndq') = 0
        BY <2>1, EmptySeq
      <3> QED
        BY <3>1 DEF Increasing, AtMost
    <2>2. CASE sndq' = sndq
      BY <1>1, <2>2 DEF SendTypes, SendInv
    <2> QED
      BY <1>2, <2>1, <2>2
  <1> QED
    BY <1>1, <1>2, <1>3, <1>4 DEF SendSide, SendTypes, SendInv, tcpSendVars

-----------------------------------------------------------------------------
(* Receiving *)

(* Types of the receive queue's elements. *)
LEMMA QueueFacts ==
    ASSUME ReceiveTypes
    PROVE  /\ Len(rcvq) \in Nat
           /\ \A i \in 1 .. Len(rcvq) : rcvq[i] \in Buffers /\ rcvq[i] \in Nat
           /\ Len(stream) \in Nat
           /\ readPos \in Nat /\ arrived \in Nat /\ receive_off \in Nat
           /\ BufLen \in Nat
  <1>1. rcvq \in Seq(Buffers) /\ stream \in Seq(0 .. MaxBytes)
    BY DEF ReceiveTypes
  <1>2. Len(rcvq) \in Nat /\ Len(stream) \in Nat
    BY <1>1, LenProperties
  <1>3. \A i \in 1 .. Len(rcvq) : rcvq[i] \in Buffers
    BY <1>1, ElementOfSeq
  <1>4. \A x \in Buffers : x \in Nat
    BY BoundsAssumption DEF Buffers
  <1>5. readPos \in Nat /\ arrived \in Nat /\ receive_off \in Nat /\ BufLen \in Nat
    BY BoundsAssumption DEF ReceiveTypes
  <1> QED
    BY <1>2, <1>3, <1>4, <1>5

LEMMA ReceiveStep ==
    ASSUME IInv, NEW min \in MinLengths, tapsConnectionReceive(min)
    PROVE  ReceiveSide'
  <1> DEFINE b == recvs + 1
  <1>0. ReceiveTypes /\ QueueInv /\ StreamInv /\ conn = "open"
    BY Sides DEF ReceiveSide, tapsConnectionReceive
  <1>1. /\ recvs \in Nat /\ recvs' = b /\ b \in Buffers /\ b \in Nat
        /\ UNCHANGED <<truncVecs, stream, memory, arrived, readPos, peerClosed>>
        /\ recvs' \in 0 .. MaxRecvs
        /\ min \in Nat
    BY <1>0, BoundsAssumption, EventsAssumption
       DEF tapsConnectionReceive, ReceiveTypes, Buffers, socketVars
  <1>2. /\ Len(rcvq) \in Nat
        /\ \A i \in 1 .. Len(rcvq) : rcvq[i] \in Buffers /\ rcvq[i] \in Nat
    BY <1>0, QueueFacts
  <1>3. /\ \A i \in 1 .. Len(rcvq) : rcvq[i] < b
        /\ AtMost(rcvq, b)
    BY <1>0, <1>1, <1>2 DEF QueueInv, AtMost
  <1>4. rcvFault' \in BOOLEAN
    BY <1>0, Zenon DEF tapsConnectionReceive, ReceiveTypes
  <1> HIDE DEF b
  <1>5. CASE conn' = "crashed" /\ UNCHANGED <<rcvq, minLength, currLength,
                 bufFate, receiveReady, tcpReceiveVars>>
    <2>1. ReceiveTypes'
      BY <1>0, <1>1, <1>4, <1>5 DEF ReceiveTypes, tcpReceiveVars
    <2>2. QueueInv'
      BY <1>0, <1>1, <1>3, <1>5 DEF QueueInv
    <2>3. StreamInv'
      BY <1>0, <1>1, <1>5 DEF StreamInv
    <2> QED
      BY <2>1, <2>2, <2>3 DEF ReceiveSide
  <1>6. CASE /\ rcvq' = Append(rcvq, b)
             /\ minLength' = [minLength EXCEPT ![b] = min]
             /\ currLength' = [currLength EXCEPT ![b] = 0]
             /\ bufFate' = [bufFate EXCEPT ![b] = "queued"]
             /\ receiveReady' = FALSE
             /\ IF receiveReady
                THEN Receive(b, 0, receiveEvent = "added")
                ELSE UNCHANGED tcpReceiveVars
             /\ conn' = conn
    <2>1. /\ rcvq' \in Seq(Buffers)
          /\ Len(rcvq') = Len(rcvq) + 1
          /\ rcvq'[Len(rcvq) + 1] = b
          /\ \A i \in 1 .. Len(rcvq) : rcvq'[i] = rcvq[i]
          /\ Increasing(rcvq') /\ AtMost(rcvq', b)
      <3>1. MaxRecvs \in Nat /\ rcvq \in Seq(1 .. MaxRecvs) /\ b \in 1 .. MaxRecvs
        BY <1>0, <1>1, BoundsAssumption DEF ReceiveTypes, Buffers
      <3>2. Increasing(rcvq)
        BY <1>0 DEF QueueInv
      <3> QED
        BY <1>3, <1>6, <3>1, <3>2, AppendOrder DEF Buffers
    <2>2. /\ minLength' \in [Buffers -> Nat]
          /\ currLength' \in [Buffers -> 0 .. BufLen]
          /\ bufFate' \in [Buffers -> BufFates]
      BY <1>0, <1>1, <1>6, BoundsAssumption DEF ReceiveTypes, BufFates
    <2>3. /\ \A i \in 1 .. Len(rcvq) : currLength'[rcvq'[i]] = currLength[rcvq[i]]
          /\ currLength'[rcvq'[Len(rcvq) + 1]] = 0
      BY <1>0, <1>1, <1>2, <1>3, <1>6, <2>1 DEF ReceiveTypes
    <2>4. \A i \in 2 .. Len(rcvq') : currLength'[rcvq'[i]] = 0
      BY <1>0, <1>2, <2>1, <2>3 DEF QueueInv
    <2>5. truncVecs' = 1 <=> Len(rcvq') > 0 /\ currLength'[rcvq'[1]] > 0
      <3>1. CASE Len(rcvq) = 0
        BY <1>0, <1>1, <2>1, <2>3, <3>1 DEF QueueInv
      <3>2. CASE Len(rcvq) > 0
        BY <1>0, <1>1, <1>2, <2>1, <2>3, <3>2 DEF QueueInv
      <3> QED
        BY <1>2, <3>1, <3>2
    <2>6. CASE receiveReady
      <3>1. Len(rcvq) = 0 /\ receiveEvent # "added" /\ readPos = Len(stream)
        BY <1>0, <2>6, EmptySeq DEF QueueInv, StreamInv
      <3>2. /\ receive_ctx' = b /\ receive_off' = 0
            /\ receiveEvent' \in EventStates
            /\ received' \in {"null", "taps", "garbage"}
        BY <1>0, <1>6, <2>6, <3>1
           DEF Receive, SetOnce, ReceiveTypes, EventStates
      <3>3. ReceiveTypes'
        BY <1>0, <1>1, <1>4, <1>6, <2>1, <2>2, <3>2, BoundsAssumption
           DEF ReceiveTypes, Buffers
      <3>4. QueueInv'
        BY <1>0, <1>1, <1>6, <2>1, <2>3, <2>4, <2>5, <3>1, <3>2 DEF QueueInv
      <3>5. StreamInv'
        BY <1>0, <1>1, <1>6, <3>1, <3>2, QueueFacts DEF StreamInv
      <3> QED
        BY <3>3, <3>4, <3>5 DEF ReceiveSide
    <2>7. CASE ~receiveReady
      <3>1. UNCHANGED <<receiveEvent, received, receive_ctx, receive_off>>
        BY <1>6, <2>7 DEF tcpReceiveVars
      <3>2. ReceiveTypes'
        BY <1>0, <1>1, <1>4, <1>6, <2>1, <2>2, <3>1 DEF ReceiveTypes
      <3>3. QueueInv'
        BY <1>0, <1>1, <1>2, <1>6, <2>1, <2>3, <2>4, <2>5, <3>1 DEF QueueInv
      <3>4. StreamInv'
        BY <1>0, <1>1, <1>6, <3>1 DEF StreamInv
      <3> QED
        BY <3>2, <3>3, <3>4 DEF ReceiveSide
    <2> QED
      BY <2>6, <2>7
  <1> QED
    BY <1>5, <1>6 DEF tapsConnectionReceive, b

(* The outstanding receive is the head of the queue, and the callback      *)
(* leaves no truncated iovec behind.                                       *)
LEMMA HeadFacts ==
    ASSUME IInv, conn = "open", receiveEvent = "added"
    PROVE  /\ ReceiveTypes /\ QueueInv /\ StreamInv
           /\ Len(rcvq) > 0 /\ 1 \in 1 .. Len(rcvq)
           /\ receive_ctx = rcvq[1] /\ receive_ctx \in Buffers
           /\ currLength[receive_ctx] = receive_off
           /\ Place(rcvq, receive_ctx) = 1
           /\ FreeData = 0
           /\ receiveReady = FALSE
  <1>0. ReceiveTypes /\ QueueInv /\ StreamInv
    BY Sides DEF ReceiveSide
  <1>1. /\ Len(rcvq) > 0
        /\ receive_ctx = rcvq[1]
        /\ receive_off = currLength[rcvq[1]]
    BY <1>0 DEF QueueInv
  <1>2. /\ Len(rcvq) \in Nat
        /\ \A i \in 1 .. Len(rcvq) : rcvq[i] \in Buffers
        /\ receive_off \in Nat
    BY <1>0, QueueFacts
  <1>3. 1 \in 1 .. Len(rcvq)
    BY <1>1, <1>2
  <1>4. Place(rcvq, receive_ctx) = 1
    <2>1. MaxRecvs \in Nat /\ rcvq \in Seq(1 .. MaxRecvs) /\ Increasing(rcvq)
      BY <1>0, BoundsAssumption DEF ReceiveTypes, Buffers, QueueInv
    <2> QED
      BY <1>1, <1>3, <2>1, PlaceOf
  <1>5. FreeData = 0
    BY <1>0, <1>1, <1>2 DEF QueueInv, FreeData
  <1>6. receiveReady = FALSE
    <2>1. ~receiveReady
      BY <1>0 DEF QueueInv
    <2> QED
      BY <1>0, <2>1, Zenon DEF ReceiveTypes
  <1> QED
    BY <1>0, <1>1, <1>2, <1>3, <1>4, <1>5, <1>6

(* readv puts the next bytes of the stream behind those the buffer has. *)
LEMMA ReadFacts ==
    ASSUME IInv, conn = "open", receiveEvent = "added",
           NEW n \in ReadvResults, n > 0,
           memory' = ReadInto(receive_ctx, receive_off, n),
           readPos' = readPos + n,
           arrived' = arrived,
           currLength' = [currLength EXCEPT ![receive_ctx] = @ + n],
           NEW len, len = currLength[receive_ctx] + n
    PROVE  /\ len \in 1 .. BufLen
           /\ readPos' \in 0 .. arrived
           /\ readPos' = Len(stream) + len
           /\ memory' \in [Buffers -> [0 .. BufLen - 1 -> 0 .. MaxBytes]]
           /\ \A i \in 0 .. BufLen - 1 :
                i < len => memory'[receive_ctx][i] = Len(stream) + 1 + i
           /\ currLength' \in [Buffers -> 0 .. BufLen]
           /\ currLength'[receive_ctx] = len
           /\ \A i \in 2 .. Len(rcvq) : currLength'[rcvq[i]] = 0
  <1>0. /\ ReceiveTypes /\ QueueInv /\ StreamInv
        /\ Len(rcvq) > 0 /\ 1 \in 1 .. Len(rcvq)
        /\ receive_ctx = rcvq[1] /\ receive_ctx \in Buffers
        /\ currLength[receive_ctx] = receive_off
    BY HeadFacts
  <1>1. /\ Len(rcvq) \in Nat
        /\ \A i \in 1 .. Len(rcvq) : rcvq[i] \in Buffers /\ rcvq[i] \in Nat
        /\ Len(stream) \in Nat
        /\ readPos \in Nat /\ arrived \in Nat /\ receive_off \in Nat
        /\ BufLen \in Nat /\ MaxBytes \in Nat
        /\ readPos <= arrived /\ arrived <= MaxBytes
    BY <1>0, QueueFacts, BoundsAssumption, SMTT(30) DEF ReceiveTypes
  <1>2. n \in Nat /\ n <= arrived - readPos /\ n <= BufLen - receive_off
    BY <1>0, <1>1 DEF ReadvResults, LeastOf, ReceiveTypes
  <1>3. readPos = Len(stream) + receive_off
    BY <1>0 DEF StreamInv
  <1>4. len \in 1 .. BufLen /\ readPos' \in 0 .. arrived /\ readPos' = Len(stream) + len
    BY <1>0, <1>1, <1>2, <1>3
  <1>5. /\ currLength' \in [Buffers -> 0 .. BufLen]
        /\ currLength'[receive_ctx] = len
    BY <1>0, <1>4 DEF ReceiveTypes
  <1>6. \A i \in 2 .. Len(rcvq) : currLength'[rcvq[i]] = 0
    <2> SUFFICES ASSUME NEW i \in 2 .. Len(rcvq)
                 PROVE  currLength'[rcvq[i]] = 0
      OBVIOUS
    <2>1. i \in 1 .. Len(rcvq) /\ 1 < i
      BY <1>1
    <2>2. rcvq[1] < rcvq[i]
      BY <1>0, <2>1 DEF QueueInv, Increasing
    <2>3. rcvq[i] # receive_ctx /\ rcvq[i] \in Buffers
      BY <1>0, <1>1, <2>1, <2>2
    <2> QED
      BY <1>0, <2>3 DEF ReceiveTypes, QueueInv
  <1>7. memory' \in [Buffers -> [0 .. BufLen - 1 -> 0 .. MaxBytes]]
    <2> DEFINE row == [i \in 0 .. BufLen - 1 |->
                IF i \in receive_off .. receive_off + n - 1
                THEN readPos + 1 + i - receive_off ELSE memory[receive_ctx][i]]
    <2>1. memory' = [memory EXCEPT ![receive_ctx] = row]
      BY <1>0 DEF ReadInto, ReceiveTypes
    <2>2. row \in [0 .. BufLen - 1 -> 0 .. MaxBytes]
      <3> SUFFICES ASSUME NEW i \in 0 .. BufLen - 1
                   PROVE  row[i] \in 0 .. MaxBytes
        OBVIOUS
      <3>1. memory[receive_ctx][i] \in 0 .. MaxBytes
        BY <1>0 DEF ReceiveTypes
      <3>2. row[i] = IF i \in receive_off .. receive_off + n - 1
                     THEN readPos + 1 + i - receive_off ELSE memory[receive_ctx][i]
        OBVIOUS
      <3> HIDE DEF row
      <3>3. CASE i \in receive_off .. receive_off + n - 1
        <4>1. readPos + 1 + i - receive_off \in 0 .. MaxBytes
          BY <1>1, <1>2, <3>3
        <4> QED
          BY <3>2, <3>3, <4>1
      <3>4. CASE i \notin receive_off .. receive_off + n - 1
        BY <3>1, <3>2, <3>4
      <3> QED
        BY <3>3, <3>4
    <2> QED
      BY <1>0, <2>1, <2>2 DEF ReceiveTypes
  <1>8. ASSUME NEW i \in 0 .. BufLen - 1, i < len
        PROVE  memory'[receive_ctx][i] = Len(stream) + 1 + i
    <2>1. memory'[receive_ctx][i] =
            IF i \in receive_off .. receive_off + n - 1
            THEN readPos + 1 + i - receive_off ELSE memory[receive_ctx][i]
      BY <1>0 DEF ReadInto, ReceiveTypes
    <2>2. CASE i < receive_off
      <3>1. memory[receive_ctx][i] = Len(stream) + 1 + i
        BY <1>0, <2>2 DEF StreamInv
      <3>2. i \notin receive_off .. receive_off + n - 1
        BY <1>1, <1>2, <2>2
      <3> QED
        BY <2>1, <3>1, <3>2
    <2>3. CASE ~(i < receive_off)
      <3>1. i \in receive_off .. receive_off + n - 1
        BY <1>0, <1>1, <1>2, <1>8, <2>3
      <3>2. readPos + 1 + i - receive_off = Len(stream) + 1 + i
        BY <1>1, <1>3
      <3> QED
        BY <2>1, <3>1, <3>2
    <2> QED
      BY <2>2, <2>3
  <1> QED
    BY <1>4, <1>5, <1>6, <1>7, <1>8

(* Unlinking the head leaves an ordered queue of empty buffers. *)
LEMMA UnlinkHead ==
    ASSUME ReceiveTypes, QueueInv, Len(rcvq) > 0,
           rcvq' = DeleteItem(rcvq, 1), recvs' = recvs,
           \A i \in 2 .. Len(rcvq) : currLength'[rcvq[i]] = 0
    PROVE  /\ rcvq' \in Seq(Buffers)
           /\ Len(rcvq') = Len(rcvq) - 1
           /\ \A j \in 1 .. Len(rcvq) - 1 : rcvq'[j] = rcvq[j + 1]
           /\ Increasing(rcvq') /\ AtMost(rcvq', recvs')
           /\ \A i \in 1 .. Len(rcvq') : currLength'[rcvq'[i]] = 0
           /\ Len(rcvq') = 0 => rcvq' = <<>>
  <1>1. Len(rcvq) \in Nat /\ 1 \in 1 .. Len(rcvq) /\ recvs \in Nat
    BY QueueFacts, BoundsAssumption, SMTT(30) DEF ReceiveTypes
  <1>2. /\ rcvq' \in Seq(Buffers)
        /\ Len(rcvq') = Len(rcvq) - 1
        /\ \A j \in 1 .. Len(rcvq) - 1 :
             rcvq'[j] = IF j < 1 THEN rcvq[j] ELSE rcvq[j + 1]
    BY <1>1, DeleteItemSeq DEF ReceiveTypes
  <1>3. Increasing(rcvq') /\ AtMost(rcvq', recvs')
    <2>1. MaxRecvs \in Nat /\ rcvq \in Seq(1 .. MaxRecvs)
      BY BoundsAssumption DEF ReceiveTypes, Buffers
    <2> QED
      BY <1>1, <2>1, DeleteItemOrder DEF QueueInv
  <1>4. \A j \in 1 .. Len(rcvq) - 1 : rcvq'[j] = rcvq[j + 1]
    BY <1>1, <1>2
  <1>5. \A i \in 1 .. Len(rcvq') : currLength'[rcvq'[i]] = 0
    BY <1>1, <1>2, <1>4
  <1>6. Len(rcvq') = 0 => rcvq' = <<>>
    BY <1>2, EmptySeq
  <1> QED
    BY <1>2, <1>3, <1>4, <1>5, <1>6

(* Delivering a buffer whose bytes follow the stream extends the stream. *)
LEMMA DeliverStream ==
    ASSUME stream \in Seq(0 .. MaxBytes),
           \A i \in 1 .. Len(stream) : stream[i] = i,
           NEW len \in Nat, NEW row, Len(stream) + len <= MaxBytes,
           \A i \in 0 .. len - 1 : row[i] = Len(stream) + 1 + i,
           stream' = stream \o [k \in 1 .. len |-> row[k - 1]]
    PROVE  /\ stream' \in Seq(0 .. MaxBytes)
           /\ Len(stream') = Len(stream) + len
           /\ \A i \in 1 .. Len(stream') : stream'[i] = i
  <1> DEFINE t == [k \in 1 .. len |-> row[k - 1]]
  <1>1. Len(stream) \in Nat /\ MaxBytes \in Nat
    BY LenProperties, BoundsAssumption
  <1>2. \A k \in 1 .. len : t[k] = Len(stream) + k /\ t[k] \in 0 .. MaxBytes
    <2> SUFFICES ASSUME NEW k \in 1 .. len
                 PROVE  t[k] = Len(stream) + k /\ t[k] \in 0 .. MaxBytes
      OBVIOUS
    <2>1. k - 1 \in 0 .. len - 1
      OBVIOUS
    <2>2. row[k - 1] = Len(stream) + 1 + (k - 1)
      BY <2>1
    <2> QED
      BY <1>1, <2>2
  <1>3. t \in [1 .. len -> 0 .. MaxBytes]
    BY <1>2
  <1>4. t \in Seq(0 .. MaxBytes) /\ Len(t) = len
    BY <1>3
  <1> HIDE DEF t
  <1>5. /\ stream \o t \in Seq(0 .. MaxBytes)
        /\ Len(stream \o t) = Len(stream) + Len(t)
        /\ \A i \in 1 .. Len(stream) + Len(t) :
             (stream \o t)[i] = IF i <= Len(stream) THEN stream[i]
                                ELSE t[i - Len(stream)]
    BY <1>4, ConcatProperties
  <1>6. ASSUME NEW i \in 1 .. Len(stream) + len
        PROVE  (stream \o t)[i] = i
    <2>1. CASE i <= Len(stream)
      BY <1>1, <1>4, <1>5, <2>1
    <2>2. CASE ~(i <= Len(stream))
      <3>1. i - Len(stream) \in 1 .. len
        BY <1>1, <2>2
      <3>2. t[i - Len(stream)] = i
        BY <1>1, <1>2, <3>1
      <3> QED
        BY <1>4, <1>5, <2>2, <3>2
    <2> QED
      BY <2>1, <2>2
  <1> QED
    BY <1>4, <1>5, <1>6 DEF t

(* The socket and the buffers after a callback, whatever it does next. *)
AfterRead ==
    /\ conn' = conn /\ recvs' = recvs /\ minLength' = minLength
    /\ arrived' = arrived /\ peerClosed' = peerClosed
    /\ readPos' \in 0 .. arrived
    /\ memory' \in [Buffers -> [0 .. BufLen - 1 -> 0 .. MaxBytes]]
    /\ currLength' \in [Buffers -> 0 .. BufLen]
    /\ \A i \in 2 .. Len(rcvq) : currLength'[rcvq[i]] = 0
    /\ rcvFault' \in BOOLEAN

(* _taps_receive_error: the receiver stops with the head gone. *)
LEMMA ErrorEffect ==
    ASSUME IInv, conn = "open", receiveEvent = "added", AfterRead,
           ReceiveError(1), truncVecs' = FreeData
    PROVE  ReceiveSide'
  <1>0. /\ ReceiveTypes /\ QueueInv /\ StreamInv /\ Len(rcvq) > 0
        /\ 1 \in 1 .. Len(rcvq) /\ FreeData = 0 /\ receiveReady = FALSE
    BY HeadFacts
  <1>1. /\ rcvq' = DeleteItem(rcvq, 1)
        /\ bufFate' = [bufFate EXCEPT ![rcvq[1]] = "receiveError"]
        /\ receiveEvent' = "idle"
        /\ UNCHANGED <<receiveReady, stream, received, receive_ctx, receive_off>>
    BY DEF ReceiveError
  <1>2. /\ rcvq' \in Seq(Buffers)
        /\ Increasing(rcvq') /\ AtMost(rcvq', recvs')
        /\ \A i \in 1 .. Len(rcvq') : currLength'[rcvq'[i]] = 0
    BY <1>0, <1>1, UnlinkHead DEF AfterRead
  <1>3. Len(rcvq') \in Nat
    BY <1>2, LenProperties
  <1>4. ReceiveTypes'
    BY <1>0, <1>1, <1>2 DEF ReceiveTypes, AfterRead, EventStates, BufFates
  <1>5. QueueInv'
    BY <1>0, <1>1, <1>2, <1>3 DEF QueueInv, AfterRead
  <1>6. StreamInv'
    BY <1>0, <1>1 DEF StreamInv
  <1> QED
    BY <1>4, <1>5, <1>6 DEF ReceiveSide

(* The head delivered: the receiver goes on with the next buffer, is ready *)
(* for a new one, or stops.                                                *)
LEMMA DeliverEffect ==
    ASSUME IInv, conn = "open", receiveEvent = "added", AfterRead,
           NEW len \in 1 .. BufLen, NEW how \in BufFates,
           readPos' = Len(stream) + len,
           \A i \in 0 .. BufLen - 1 :
             i < len => memory'[receive_ctx][i] = Len(stream) + 1 + i,
           Deliver(1, len, how), truncVecs' = FreeData,
           received' \in {"null", "taps", "garbage"},
           \/ /\ Len(rcvq) > 1
              /\ receive_ctx' = rcvq[2] /\ receive_off' = 0
              /\ receiveEvent' \in {"added", "idle"}
              /\ receiveReady' = receiveReady
           \/ /\ ~(Len(rcvq) > 1)
              /\ receiveReady' = TRUE
              /\ receiveEvent' = "idle"
              /\ UNCHANGED <<receive_ctx, receive_off>>
           \/ /\ receiveEvent' = "idle"
              /\ UNCHANGED <<receiveReady, receive_ctx, receive_off>>
    PROVE  ReceiveSide'
  <1>0. /\ ReceiveTypes /\ QueueInv /\ StreamInv /\ Len(rcvq) > 0
        /\ 1 \in 1 .. Len(rcvq) /\ FreeData = 0 /\ receiveReady = FALSE
        /\ receive_ctx = rcvq[1]
    BY HeadFacts
  <1>1. /\ Len(rcvq) \in Nat
        /\ \A i \in 1 .. Len(rcvq) : rcvq[i] \in Buffers
        /\ Len(stream) \in Nat /\ BufLen \in Nat /\ MaxBytes \in Nat
        /\ arrived <= MaxBytes /\ arrived \in Nat
    BY <1>0, QueueFacts, BoundsAssumption, SMTT(30) DEF ReceiveTypes
  <1>2. /\ rcvq' = DeleteItem(rcvq, 1)
        /\ bufFate' = [bufFate EXCEPT ![rcvq[1]] = how]
        /\ stream' = stream \o [k \in 1 .. len |-> memory'[receive_ctx][k - 1]]
    BY <1>0 DEF Deliver
  <1>3. /\ rcvq' \in Seq(Buffers)
        /\ Len(rcvq') = Len(rcvq) - 1
        /\ \A j \in 1 .. Len(rcvq) - 1 : rcvq'[j] = rcvq[j + 1]
        /\ Increasing(rcvq') /\ AtMost(rcvq', recvs')
        /\ \A i \in 1 .. Len(rcvq') : currLength'[rcvq'[i]] = 0
        /\ Len(rcvq') = 0 => rcvq' = <<>>
    BY <1>0, <1>2, UnlinkHead DEF AfterRead
  <1>4. /\ stream' \in Seq(0 .. MaxBytes)
        /\ Len(stream') = Len(stream) + len
        /\ \A i \in 1 .. Len(stream') : stream'[i] = i
    <2>1. Len(stream) + len <= MaxBytes
      BY <1>1 DEF AfterRead
    <2>2. \A i \in 0 .. len - 1 :
            memory'[receive_ctx][i] = Len(stream) + 1 + i
      BY <1>1
    <2>3. len \in Nat /\ stream \in Seq(0 .. MaxBytes) /\
          \A i \in 1 .. Len(stream) : stream[i] = i
      BY <1>0, <1>1 DEF ReceiveTypes, StreamInv
    <2> QED
      BY <1>2, <2>1, <2>2, <2>3, DeliverStream
  <1>5. /\ receive_ctx' \in 0 .. MaxRecvs /\ receive_off' \in 0 .. BufLen
        /\ receiveEvent' \in EventStates
    <2>1. \A x \in Buffers : x \in 0 .. MaxRecvs
      BY BoundsAssumption DEF Buffers
    <2>2. Len(rcvq) > 1 => rcvq[2] \in Buffers
      BY <1>1
    <2>3. receive_ctx' \in 0 .. MaxRecvs
      <3>1. receive_ctx' = receive_ctx \/ (Len(rcvq) > 1 /\ receive_ctx' = rcvq[2])
        OBVIOUS
      <3> QED
        BY <1>0, <2>1, <2>2, <3>1 DEF ReceiveTypes
    <2>4. receive_off' \in 0 .. BufLen
      <3>1. receive_off' = receive_off \/ receive_off' = 0
        OBVIOUS
      <3>2. receive_off \in 0 .. BufLen
        BY <1>0 DEF ReceiveTypes
      <3>3. 0 \in 0 .. BufLen
        BY <1>1
      <3> QED
        BY <3>1, <3>2, <3>3
    <2>5. receiveEvent' \in EventStates
      BY DEF EventStates
    <2> QED
      BY <2>3, <2>4, <2>5
  <1>6. receiveReady' \in BOOLEAN
    BY <1>0, Zenon
  <1>7. ReceiveTypes'
    <2>1. bufFate' \in [Buffers -> BufFates]
      BY <1>0, <1>2 DEF ReceiveTypes
    <2> QED
      BY <1>0, <1>3, <1>4, <1>5, <1>6, <2>1 DEF ReceiveTypes, AfterRead
  <1>8. QueueInv'
    <2>1. receiveReady' => rcvq' = <<>> /\ receiveEvent' # "added"
      <3>1. receiveReady' => ~(Len(rcvq) > 1) /\ receiveEvent' = "idle"
        BY <1>0, Zenon
      <3>2. ~(Len(rcvq) > 1) => Len(rcvq') = 0
        BY <1>0, <1>1, <1>3
      <3> QED
        BY <1>3, <3>1, <3>2
    <2>2. receiveEvent' = "added" =>
            Len(rcvq') > 0 /\ receive_ctx' = rcvq'[1] /\ receive_off' = 0
      BY <1>1, <1>3
    <2>3. Len(rcvq') \in Nat
      BY <1>1, <1>3, <1>0
    <2>4. Len(rcvq') > 0 => currLength'[rcvq'[1]] = 0
      BY <1>3, <2>3
    <2> QED
      BY <1>0, <1>3, <2>1, <2>2, <2>3, <2>4 DEF QueueInv, AfterRead
  <1>9. StreamInv'
    <2>1. receiveEvent' = "added" => receive_off' = 0
      OBVIOUS
    <2>2. readPos' = Len(stream') /\ Len(stream') \in Nat
      BY <1>1, <1>4
    <2> QED
      BY <1>4, <2>1, <2>2 DEF StreamInv
  <1> QED
    BY <1>7, <1>8, <1>9 DEF ReceiveSide

(* _tcp_received with bytes, and the TAPS callback it calls. *)
LEMMA BytesReceivedStep ==
    ASSUME IInv, NEW how \in ReceiveEvents, BytesReceived(how)
    PROVE  ReceiveSide'
  <1>0. /\ conn = "open" /\ receiveEvent = "added"
        /\ conn' = conn /\ recvs' = recvs /\ minLength' = minLength
        /\ arrived' = arrived /\ peerClosed' = peerClosed
    BY DEF BytesReceived
  <1>1. /\ ReceiveTypes /\ QueueInv /\ StreamInv
        /\ Len(rcvq) > 0 /\ 1 \in 1 .. Len(rcvq)
        /\ receive_ctx = rcvq[1] /\ receive_ctx \in Buffers
        /\ Place(rcvq, receive_ctx) = 1
        /\ FreeData = 0
        /\ receiveReady = FALSE
    BY <1>0, HeadFacts
  <1>2. PICK n \in ReadvResults :
          /\ n > 0
          /\ memory' = ReadInto(receive_ctx, receive_off, n)
          /\ readPos' = readPos + n
          /\ currLength' = [currLength EXCEPT ![receive_ctx] = @ + n]
          /\ \/ ReceivedPartial(1, currLength[receive_ctx] + n)
             \/ Received(1, currLength[receive_ctx] + n)
    BY <1>1 DEF BytesReceived
  <1> DEFINE len == currLength[receive_ctx] + n
  <1>3. /\ len \in 1 .. BufLen
        /\ readPos' \in 0 .. arrived
        /\ readPos' = Len(stream) + len
        /\ memory' \in [Buffers -> [0 .. BufLen - 1 -> 0 .. MaxBytes]]
        /\ \A i \in 0 .. BufLen - 1 :
             i < len => memory'[receive_ctx][i] = Len(stream) + 1 + i
        /\ currLength' \in [Buffers -> 0 .. BufLen]
        /\ currLength'[receive_ctx] = len
        /\ \A i \in 2 .. Len(rcvq) : currLength'[rcvq[i]] = 0
    BY <1>0, <1>2, ReadFacts
  <1>4. ReceivedPartial(1, len) \/ Received(1, len)
    BY <1>2
  <1> HIDE DEF len
  <1>5. /\ rcvFault \in BOOLEAN
        /\ received \in {"null", "taps", "garbage"}
        /\ SetOnce(received) \in {"null", "taps", "garbage"}
        /\ {"receivedPartial", "received"} \subseteq BufFates
    BY <1>1 DEF ReceiveTypes, SetOnce, BufFates
  <1>6. rcvFault' \in BOOLEAN => AfterRead
    BY <1>0, <1>3 DEF AfterRead
  <1>7. CASE ReceivedPartial(1, len) /\ len < minLength[rcvq[1]]
    <2>1. CASE /\ ReceiveError(1) /\ truncVecs' = FreeData
               /\ rcvFault' = TRUE
      BY <1>0, <1>6, <2>1, ErrorEffect
    <2>2. CASE /\ Receive(rcvq[1], TruncIovec(len), FALSE)
               /\ truncVecs' = FreeData + 1
               /\ rcvFault' = (rcvFault \/ ReceiveFailed)
               /\ UNCHANGED <<rcvq, bufFate, receiveReady, stream>>
      <3>1. /\ receive_ctx' = rcvq[1] /\ receive_off' = len
            /\ receiveEvent' \in {"added", "idle"}
            /\ received' \in {"null", "taps", "garbage"}
        BY <1>5, <2>2 DEF Receive, TruncIovec
      <3>2. rcvFault' \in BOOLEAN
        BY <2>2
      <3>3. truncVecs' = 1
        BY <1>1, <2>2
      <3>4. BufLen \in Nat /\ len \in Nat /\ len > 0 /\ len \in 0 .. BufLen
        BY <1>3, BoundsAssumption
      <3>5. ReceiveTypes'
        <4>1. receive_ctx' \in 0 .. MaxRecvs
          BY <1>1, <3>1 DEF ReceiveTypes
        <4>2. truncVecs' \in Nat
          BY <3>3
        <4>3. receive_off' \in 0 .. BufLen
          BY <3>1, <3>4
        <4> QED
          BY <1>0, <1>1, <1>3, <2>2, <3>1, <3>2, <4>1, <4>2, <4>3
             DEF ReceiveTypes, EventStates
      <3>6. ~receiveReady'
        BY <1>1, <2>2, Zenon
      <3>7. currLength'[rcvq'[1]] = len
        BY <1>1, <1>3, <2>2
      <3>8. QueueInv'
        BY <1>0, <1>1, <1>3, <2>2, <3>1, <3>3, <3>4, <3>6, <3>7 DEF QueueInv
      <3>9. StreamInv'
        BY <1>0, <1>1, <1>3, <2>2, <3>1, <3>6 DEF StreamInv
      <3> QED
        BY <3>5, <3>8, <3>9 DEF ReceiveSide
    <2> QED
      BY <1>7, <2>1, <2>2 DEF ReceivedPartial
  <1>8. CASE ReceivedPartial(1, len) /\ ~(len < minLength[rcvq[1]])
    <2>1. /\ QueueUpNext(1)
          /\ Deliver(1, len, "receivedPartial")
          /\ truncVecs' = FreeData
          /\ rcvFault' = (rcvFault \/ (1 < Len(rcvq) /\ ReceiveFailed))
      BY <1>8 DEF ReceivedPartial
    <2>2. Len(rcvq) \in Nat
      BY <1>1, QueueFacts
    <2>3. AfterRead
      BY <1>6, <2>1
    <2>4. CASE Len(rcvq) > 1
      <3>1. Receive(rcvq[2], 0, FALSE) /\ receiveReady' = receiveReady
        <4>1. 1 < Len(rcvq) /\ 1 + 1 = 2
          BY <2>2, <2>4
        <4> QED
          BY <2>1, <4>1 DEF QueueUpNext
      <3>2. /\ receive_ctx' = rcvq[2] /\ receive_off' = 0
            /\ receiveEvent' \in {"added", "idle"}
            /\ received' \in {"null", "taps", "garbage"}
        BY <1>5, <3>1 DEF Receive
      <3> QED
        BY <1>0, <1>3, <1>5, <2>1, <2>3, <2>4, <3>1, <3>2, DeliverEffect
    <2>5. CASE ~(Len(rcvq) > 1)
      <3>1. /\ receiveReady' = TRUE /\ receiveEvent' = "idle"
            /\ UNCHANGED <<received, receive_ctx, receive_off>>
        BY <2>1, <2>2, <2>5 DEF QueueUpNext
      <3> QED
        BY <1>0, <1>3, <1>5, <2>1, <2>3, <2>5, <3>1, DeliverEffect
    <2> QED
      BY <2>4, <2>5
  <1>9. CASE Received(1, len)
    <2>1. truncVecs' = FreeData /\ rcvFault' = rcvFault /\ AfterRead
      BY <1>5, <1>6, <1>9 DEF Received
    <2>2. CASE len < minLength[rcvq[1]]
      BY <1>0, <1>9, <2>1, <2>2, ErrorEffect DEF Received
    <2>3. CASE ~(len < minLength[rcvq[1]])
      <3>1. /\ Deliver(1, len, "received") /\ receiveEvent' = "idle"
            /\ UNCHANGED <<receiveReady, received, receive_ctx, receive_off>>
        BY <1>9, <2>3 DEF Received
      <3> QED
        BY <1>0, <1>3, <1>5, <2>1, <3>1, DeliverEffect
    <2> QED
      BY <2>2, <2>3
  <1> QED
    BY <1>4, <1>7, <1>8, <1>9

(* _tcp_received without bytes: the receiver stops as it is. *)
LEMMA NothingReceivedStep ==
    ASSUME IInv, NothingReceived
    PROVE  ReceiveSide'
  <1>1. ReceiveTypes /\ QueueInv /\ StreamInv
    BY Sides DEF ReceiveSide
  <1>2. /\ conn' = conn /\ receiveEvent' = "idle" /\ rcvFault' \in BOOLEAN
        /\ UNCHANGED <<recvs, rcvq, receiveReady, minLength, currLength>>
        /\ UNCHANGED <<bufFate, truncVecs, stream, received, receive_ctx>>
        /\ UNCHANGED <<receive_off, memory, arrived, readPos, peerClosed>>
    BY DEF NothingReceived, socketVars
  <1>3. ReceiveTypes'
    BY <1>1, <1>2 DEF ReceiveTypes, EventStates
  <1>4. QueueInv'
    BY <1>1, <1>2 DEF QueueInv
  <1>5. StreamInv'
    BY <1>1, <1>2 DEF StreamInv
  <1> QED
    BY <1>3, <1>4, <1>5 DEF ReceiveSide

(* A protocol reports that the outstanding receive failed. *)
LEMMA ProtocolReceiveErrorStep ==
    ASSUME IInv, ProtocolReceiveError
    PROVE  ReceiveSide'
  <1>0. /\ conn = "open" /\ receiveEvent = "added"
        /\ ReceiveError(Place(rcvq, receive_ctx))
        /\ truncVecs' = FreeData
        /\ UNCHANGED <<conn, recvs, minLength, currLength, rcvFault>>
        /\ UNCHANGED <<memory, arrived, readPos, peerClosed>>
    BY DEF ProtocolReceiveError, socketVars
  <1>1. ReceiveTypes /\ QueueInv /\ Place(rcvq, receive_ctx) = 1
    BY <1>0, HeadFacts
  <1>2. AfterRead
    BY <1>0, <1>1 DEF AfterRead, ReceiveTypes, QueueInv
  <1> QED
    BY <1>0, <1>1, <1>2, ErrorEffect

(* Steps that leave the receiver alone, or end the connection. *)
LEMMA ReceiveSideUnchanged ==
    ASSUME IInv,
           UNCHANGED receiveVars, UNCHANGED tcpReceiveVars,
           UNCHANGED <<memory, readPos>>,
           arrived' \in 0 .. MaxBytes, arrived <= arrived',
           peerClosed' \in BOOLEAN,
           conn' = "open" => conn = "open"
    PROVE  ReceiveSide'
  <1>1. ReceiveTypes /\ QueueInv /\ StreamInv
    BY Sides DEF ReceiveSide
  <1>2. /\ UNCHANGED <<recvs, rcvq, receiveReady, minLength, currLength>>
        /\ UNCHANGED <<bufFate, truncVecs, stream, rcvFault, receiveEvent>>
        /\ UNCHANGED <<received, receive_ctx, receive_off, memory, readPos>>
    BY DEF receiveVars, tcpReceiveVars
  <1>3. readPos' \in 0 .. arrived'
    BY <1>1, <1>2, BoundsAssumption DEF ReceiveTypes
  <1>4. ReceiveTypes'
    BY <1>1, <1>2, <1>3 DEF ReceiveTypes
  <1>5. QueueInv'
    BY <1>1, <1>2 DEF QueueInv
  <1>6. StreamInv'
    BY <1>1, <1>2 DEF StreamInv
  <1> QED
    BY <1>4, <1>5, <1>6 DEF ReceiveSide

LEMMA ReceiveSideClosed ==
    ASSUME IInv, Closed
    PROVE  ReceiveSide'
  <1>1. ReceiveTypes /\ QueueInv /\ StreamInv
    BY Sides DEF ReceiveSide
  <1>2. /\ conn' = "closed" /\ receiveEvent' = "freed"
        /\ UNCHANGED <<recvs, rcvq, receiveReady, minLength, currLength>>
        /\ UNCHANGED <<bufFate, truncVecs, stream, rcvFault, peerClosed>>
        /\ UNCHANGED <<received, receive_ctx, receive_off>>
        /\ UNCHANGED <<memory, arrived, readPos>>
    BY DEF Closed, CloseSocket, receiveVars, socketVars
  <1>3. ReceiveTypes'
    BY <1>1, <1>2 DEF ReceiveTypes, EventStates
  <1>4. QueueInv'
    BY <1>1, <1>2 DEF QueueInv
  <1>5. StreamInv'
    BY <1>1, <1>2 DEF StreamInv
  <1> QED
    BY <1>3, <1>4, <1>5 DEF ReceiveSide

LEMMA ReceiveSideFree ==
    ASSUME IInv, tapsConnectionFree
    PROVE  ReceiveSide'
  <1>1. ReceiveTypes /\ QueueInv /\ StreamInv
    BY Sides DEF ReceiveSide
  <1>2. /\ conn' # "open"
        /\ UNCHANGED <<recvs, receiveReady, minLength, currLength, truncVecs>>
        /\ UNCHANGED <<stream, rcvFault, receiveEvent, received, receive_ctx>>
        /\ UNCHANGED <<receive_off, memory, arrived, readPos, peerClosed>>
    BY DEF tapsConnectionFree, tcpVars, tcpReceiveVars, socketVars
  <1>3. \/ rcvq' = <<>> /\ bufFate' = [b \in Buffers |->
                IF IsItem(rcvq, b) THEN "receiveError" ELSE bufFate[b]]
        \/ rcvq' = rcvq /\ bufFate' = bufFate
    BY DEF tapsConnectionFree
  <1>4. rcvq' \in Seq(Buffers) /\ bufFate' \in [Buffers -> BufFates]
    <2>1. <<>> \in Seq(Buffers)
      BY EmptySeq
    <2>2. rcvq \in Seq(Buffers) /\ bufFate \in [Buffers -> BufFates]
      BY <1>1 DEF ReceiveTypes
    <2>3. "receiveError" \in BufFates
      BY DEF BufFates
    <2>4. rcvq' \in Seq(Buffers)
      BY <1>3, <2>1, <2>2
    <2>5. bufFate' \in [Buffers -> BufFates]
      BY <1>3, <2>2, <2>3
    <2> QED
      BY <2>4, <2>5
  <1>5. ReceiveTypes'
    BY <1>1, <1>2, <1>4 DEF ReceiveTypes
  <1>6. QueueInv'
    <2>1. CASE rcvq' = <<>>
      <3>1. Len(rcvq') = 0
        BY <2>1, EmptySeq
      <3> QED
        BY <1>1, <1>2, <3>1 DEF QueueInv, Increasing, AtMost
    <2>2. CASE rcvq' = rcvq
      BY <1>1, <1>2, <2>2 DEF QueueInv
    <2> QED
      BY <1>3, <2>1, <2>2
  <1>7. StreamInv'
    BY <1>1, <1>2 DEF StreamInv
  <1> QED
    BY <1>5, <1>6, <1>7 DEF ReceiveSide

-----------------------------------------------------------------------------
(* The invariant *)

LEMMA InitIInv == Init => IInv
  <1> SUFFICES ASSUME Init PROVE IInv
    OBVIOUS
  <1>1. /\ Len(sndq) = 0 /\ Len(rcvq) = 0 /\ Len(wire) = 0
        /\ Len(stream) = 0 /\ Len(reported) = 0
        /\ sndq \in Seq(Messages) /\ rcvq \in Seq(Buffers)
        /\ wire \in Seq(Messages) /\ stream \in Seq(0 .. MaxBytes)
        /\ reported \in Seq(Messages)
    BY EmptySeq DEF Init, TcpInit
  <1>2. ConnTypes
    BY DEF Init, TcpInit, ConnTypes, EventStates
  <1>3. SendTypes
    <2>1. 0 \in 0 .. MaxSends
      BY BoundsAssumption
    <2> QED
      BY <1>1, <2>1, FaultsAssumption
         DEF Init, TcpInit, SendTypes, EventStates, MsgFates
  <1>4. SendInv
    BY <1>1 DEF Init, TcpInit, SendInv, Increasing, AtMost
  <1>5. ReceiveTypes
    <2>1. /\ 0 \in 0 .. MaxRecvs /\ 0 \in 0 .. BufLen /\ 0 \in 0 .. MaxBytes
          /\ 0 \in 0 .. 0 /\ 0 \in Nat
      BY BoundsAssumption
    <2>2. memory \in [Buffers -> [0 .. BufLen - 1 -> 0 .. MaxBytes]]
      BY <2>1 DEF Init, TcpInit
    <2> QED
      BY <1>1, <2>1, <2>2, FaultsAssumption
         DEF Init, TcpInit, ReceiveTypes, EventStates, BufFates
  <1>6. QueueInv
    BY <1>1 DEF Init, TcpInit, QueueInv, Increasing, AtMost
  <1>7. StreamInv
    BY <1>1 DEF Init, TcpInit, StreamInv
  <1> QED
    BY <1>2, <1>3, <1>4, <1>5, <1>6, <1>7, Sides DEF SendSide, ReceiveSide

LEMMA NextIInv == IInv /\ [Next]_vars => IInv'
  <1> SUFFICES ASSUME IInv, [Next]_vars PROVE IInv'
    OBVIOUS
  <1>0. ReceiveTypes /\ ConnTypes
    BY Sides DEF ReceiveSide
  <1> SUFFICES SendSide' /\ ReceiveSide' /\ ConnTypes'
    <2>1. SendSide' /\ ReceiveSide' /\ ConnTypes' => IInv'
      BY DEF IInv, TypeOK, TcpTypeOK, SendTypes, ReceiveTypes, ConnTypes,
             SendSide, ReceiveSide
    <2> QED
      BY <2>1
  <1>a. /\ arrived \in 0 .. MaxBytes /\ arrived <= arrived
        /\ peerClosed \in BOOLEAN
    BY <1>0, BoundsAssumption DEF ReceiveTypes
  <1>1. CASE tapsConnectionSend
    <2>1. /\ UNCHANGED <<conn, closeEvent>>
          /\ UNCHANGED receiveVars /\ UNCHANGED tcpReceiveVars
          /\ UNCHANGED <<memory, arrived, readPos, peerClosed>>
      BY <1>1 DEF tapsConnectionSend, socketVars
    <2> QED
      BY <1>0, <1>1, <1>a, <2>1, SendStep, ReceiveSideUnchanged DEF ConnTypes
  <1>2. ASSUME NEW min \in MinLengths, tapsConnectionReceive(min)
        PROVE  SendSide' /\ ReceiveSide' /\ ConnTypes'
    <2>1. /\ conn = "open" /\ conn' \in {"open", "crashed"}
          /\ UNCHANGED <<sendVars, tcpSendVars, closeEvent>>
      BY <1>2 DEF tapsConnectionReceive
    <2> QED
      BY <1>0, <1>2, <2>1, ReceiveStep, SendSideUnchanged DEF ConnTypes
  <1>3. CASE tapsConnectionFree
    <2>1. conn' \in {"freed", "crashed"} /\ UNCHANGED closeEvent
      BY <1>3 DEF tapsConnectionFree, tcpVars
    <2> QED
      BY <1>0, <1>3, <2>1, SendSideFree, ReceiveSideFree DEF ConnTypes
  <1>4. ASSUME NEW how \in SendEvents, SendDone(how)
        PROVE  SendSide' /\ ReceiveSide' /\ ConnTypes'
    <2>1. /\ UNCHANGED <<conn, closeEvent>>
          /\ UNCHANGED receiveVars /\ UNCHANGED tcpReceiveVars
          /\ UNCHANGED <<memory, arrived, readPos, peerClosed>>
      BY <1>4 DEF SendDone, socketVars
    <2> QED
      BY <1>0, <1>4, <1>a, <2>1, SendDoneStep, ReceiveSideUnchanged
         DEF ConnTypes
  <1>5. ASSUME NEW how \in ReceiveEvents, BytesReceived(how)
        PROVE  SendSide' /\ ReceiveSide' /\ ConnTypes'
    <2>1. UNCHANGED <<conn, sendVars, tcpSendVars, closeEvent>>
      BY <1>5 DEF BytesReceived
    <2> QED
      BY <1>0, <1>5, <2>1, BytesReceivedStep, SendSideUnchanged DEF ConnTypes
  <1>6. CASE NothingReceived
    <2>1. UNCHANGED <<conn, sendVars, tcpSendVars, closeEvent>>
      BY <1>6 DEF NothingReceived
    <2> QED
      BY <1>0, <1>6, <2>1, NothingReceivedStep, SendSideUnchanged
         DEF ConnTypes
  <1>7. CASE ProtocolReceiveError
    <2>1. UNCHANGED <<conn, sendVars, tcpSendVars, closeEvent>>
      BY <1>7 DEF ProtocolReceiveError
    <2> QED
      BY <1>0, <1>7, <2>1, ProtocolReceiveErrorStep, SendSideUnchanged
         DEF ConnTypes
  <1>8. CASE GarbageCallback
    <2>1. /\ conn' = "crashed" /\ UNCHANGED closeEvent
          /\ UNCHANGED <<sendVars, tcpSendVars>>
          /\ UNCHANGED receiveVars /\ UNCHANGED tcpReceiveVars
          /\ UNCHANGED <<memory, arrived, readPos, peerClosed>>
      BY <1>8 DEF GarbageCallback, tcpVars, socketVars
    <2> QED
      BY <1>0, <1>a, <2>1, SendSideUnchanged, ReceiveSideUnchanged
         DEF ConnTypes
  <1>9. CASE Closed
    <2>1. conn' = "closed" /\ closeEvent' = "freed"
      BY <1>9 DEF Closed, CloseSocket
    <2> QED
      BY <1>9, <2>1, SendSideClosed, ReceiveSideClosed
         DEF ConnTypes, EventStates
  <1>10. CASE Peer
    <2>1. /\ UNCHANGED <<sendVars, tcpSendVars, closeEvent, conn>>
          /\ UNCHANGED receiveVars /\ UNCHANGED tcpReceiveVars
          /\ UNCHANGED <<memory, readPos>>
      BY <1>10 DEF Peer, PeerSend, PeerClose
    <2>2. arrived' \in 0 .. MaxBytes /\ arrived <= arrived'
      BY <1>10, <1>a, BoundsAssumption DEF Peer, PeerSend, PeerClose
    <2>3. peerClosed' \in BOOLEAN
      BY <1>10, <1>a, Zenon DEF Peer, PeerSend, PeerClose
    <2> QED
      BY <1>0, <2>1, <2>2, <2>3, SendSideUnchanged, ReceiveSideUnchanged
         DEF ConnTypes
  <1>11. CASE UNCHANGED vars
    <2>1. /\ UNCHANGED <<sendVars, tcpSendVars, closeEvent, conn>>
          /\ UNCHANGED receiveVars /\ UNCHANGED tcpReceiveVars
          /\ UNCHANGED <<memory, arrived, readPos, peerClosed>>
      BY <1>11 DEF vars, tcpVars, socketVars
    <2> QED
      BY <1>0, <1>a, <2>1, SendSideUnchanged, ReceiveSideUnchanged
         DEF ConnTypes
  <1> QED
    BY <1>1, <1>2, <1>3, <1>4, <1>5, <1>6, <1>7, <1>8, <1>9, <1>10, <1>11
       DEF Next, Application, EventLoop

(* The invariant holds in every state of every behaviour. *)
THEOREM Invariance == Spec => []IInv
  BY InitIInv, NextIInv, PTL DEF Spec

(* Every variable of the connection keeps its type. *)
THEOREM TypeCorrect == Spec => []TypeOK
  <1>1. IInv => TypeOK
    BY DEF IInv
  <1> QED
    BY <1>1, Invariance, PTL

(* The send event always answers for the message written last, which is    *)
(* still queued: _taps_sent never gets a freed item from the protocol.     *)
THEOREM SendCtxAlwaysQueued == Spec => []SendCtxQueued
  <1>1. IInv => SendCtxQueued
    <2> SUFFICES ASSUME IInv, conn = "open", sendEvent = "added"
                 PROVE  /\ IsItem(sndq, send_ctx) /\ wire # <<>>
                        /\ send_ctx = wire[Len(wire)]
      BY DEF SendCtxQueued
    <2>1. SendTypes /\ SendInv
      BY Sides DEF SendSide
    <2>2. /\ Len(wire) > 0 /\ send_ctx = wire[Len(wire)]
          /\ \E i \in 1 .. Len(sndq) : sndq[i] = send_ctx
      BY <2>1 DEF SendInv
    <2>3. DOMAIN sndq = 1 .. Len(sndq)
      BY <2>1, LenProperties DEF SendTypes
    <2>4. wire # <<>>
      BY <2>2, EmptySeq
    <2> QED
      BY <2>2, <2>3, <2>4 DEF IsItem
  <1> QED
    BY <1>1, Invariance, PTL

(* Messages are written in the order of the tapsConnectionSend calls, none *)
(* twice, whatever number of sends overlap and whichever calls fail.       *)
THEOREM WireAlwaysInOrder == Spec => []WireInOrder
  <1>1. IInv => WireInOrder
    <2> SUFFICES ASSUME IInv PROVE WireInOrder
      OBVIOUS
    <2>1. SendTypes /\ SendInv
      BY Sides DEF SendSide
    <2>2. DOMAIN wire = 1 .. Len(wire)
      BY <2>1, LenProperties DEF SendTypes
    <2> QED
      BY <2>1, <2>2 DEF SendInv, Increasing, WireInOrder
  <1> QED
    BY <1>1, Invariance, PTL

(* The application reads the peer's bytes in order, none lost or repeated. *)
THEOREM StreamAlwaysIntact == Spec => []StreamIntact
  <1>1. IInv => StreamIntact
    <2> SUFFICES ASSUME IInv PROVE StreamIntact
      OBVIOUS
    <2>1. ReceiveTypes /\ StreamInv
      BY Sides DEF ReceiveSide
    <2>2. DOMAIN stream = 1 .. Len(stream)
      BY <2>1, LenProperties DEF ReceiveTypes
    <2> QED
      BY <2>1, <2>2 DEF StreamInv, StreamIntact
  <1> QED
    BY <1>1, Invariance, PTL

(* A truncated iovec exists exactly while a queued buffer is part filled.  *)
THEOREM TruncVecAlwaysOwned == Spec => []TruncVecOwned
  <1>1. IInv => TruncVecOwned
    <2> SUFFICES ASSUME IInv, conn = "open"
                 PROVE  truncVecs = IF \E i \in DOMAIN rcvq :
                                         currLength[rcvq[i]] > 0
                                    THEN 1 ELSE 0
      BY DEF TruncVecOwned
    <2>1. ReceiveTypes /\ QueueInv
      BY Sides DEF ReceiveSide
    <2>2. DOMAIN rcvq = 1 .. Len(rcvq) /\ Len(rcvq) \in Nat
      BY <2>1, LenProperties DEF ReceiveTypes
    <2>3. (\E i \in 1 .. Len(rcvq) : currLength[rcvq[i]] > 0) <=>
            Len(rcvq) > 0 /\ currLength[rcvq[1]] > 0
      BY <2>1, <2>2 DEF QueueInv
    <2>4. /\ truncVecs = 0 \/ truncVecs = 1
          /\ truncVecs = 1 <=> Len(rcvq) > 0 /\ currLength[rcvq[1]] > 0
      BY <2>1 DEF QueueInv
    <2> QED
      BY <2>2, <2>3, <2>4
  <1> QED
    BY <1>1, Invariance, PTL
=============================================================================
