--------------------------- MODULE EchoAppProofs ---------------------------
(***************************************************************************)
(* Proofs about EchoApp: the echo server is a client of TapsConnection     *)
(* like any other, so that everything proved of the connection holds of it *)
(* too; and what it echoes and frees, for any number of bytes and any      *)
(* buffer length.                                                          *)
(***************************************************************************)
EXTENDS EchoApp, ConnectionEventProofs

-----------------------------------------------------------------------------
(* Vectors of one entry *)

(* The message of buffer b after its first n bytes.                        *)
Cut(b, n) ==
    [list |-> <<[buf |-> b, off |-> 0, len |-> n]>>, iovcnt |-> 1]

LEMMA NewIsCut ==
    ASSUME NEW b PROVE tapsMessageNew(b, BufLen) = Cut(b, BufLen)
  BY DEF tapsMessageNew, IovecAt, Cut

(* The loops over a single entry run once.                                 *)
LEMMA RemainingOfOne ==
    ASSUME NEW b, NEW len \in Nat, NEW n \in Nat
    PROVE  Remaining(Cut(b, len).list, 1, n)[0] = n
  <1> DEFINE v == Cut(b, len).list
             Is(f) == f = [r \in 0 .. 1 |-> IF r = 0 THEN n ELSE f[r - 1] - v[r].len]
             g == [r \in 0 .. 1 |-> IF r = 0 THEN n ELSE n - v[1].len]
             remaining == CHOOSE f : Is(f)
  <1>1. Is(g)
    OBVIOUS
  <1>2. Remaining(v, 1, n) = remaining
    BY DEF Remaining
  <1>3. Is(remaining)
    BY <1>1
  <1> HIDE DEF v, remaining
  <1>4. remaining[0] = n
    BY <1>3
  <1> QED
    BY <1>2, <1>4 DEF v

(* A length that fits stops the loop at once.                              *)
LEMMA StopsAtOnce ==
    ASSUME NEW b, NEW len \in Nat, NEW n \in 0 .. len
    PROVE  StopRow(Cut(b, len).list, 1, n) = 0
  <1> DEFINE v == Cut(b, len).list
             remaining == Remaining(v, 1, n)
             Stops(r) == r = 1 \/ remaining[r] <= v[r + 1].len
             First(r) == Stops(r) /\ \A q \in 0 .. r - 1 : ~Stops(q)
  <1>1. remaining[0] = n
    BY RemainingOfOne
  <1>2. v[0 + 1].len = len
    BY DEF Cut
  <1> HIDE DEF v, remaining
  <1>3. Stops(0)
    BY <1>1, <1>2
  <1> HIDE DEF Stops
  <1>4. First(0)
    BY <1>3
  <1>5. \A r \in 0 .. 1 : First(r) => r = 0
    BY <1>3
  <1>6. (CHOOSE r \in 0 .. 1 : First(r)) = 0
    BY <1>4, <1>5
  <1> QED
    BY <1>6 DEF StopRow, Stops, remaining, v

(* Truncating to a length that fits cuts the message there.                *)
LEMMA TruncateCuts ==
    ASSUME NEW b, NEW len \in Nat, NEW n \in 0 .. len
    PROVE  tapsMessageTruncate(Cut(b, len), n) = Cut(b, n)
  <1> DEFINE m   == Cut(b, len)
             row == StopRow(m.list, m.iovcnt, n)
             rem == Remaining(m.list, m.iovcnt, n)[row]
  <1>1. m.iovcnt = 1
    BY DEF Cut
  <1>2. row = 0
    BY <1>1, StopsAtOnce
  <1>3. rem = n
    BY <1>1, <1>2, RemainingOfOne
  <1>4. tapsMessageTruncate(m, n) =
          IF row = m.iovcnt
          THEN [m EXCEPT !.iovcnt = 0]
          ELSE [m EXCEPT !.iovcnt = row + 1, !.list[row + 1].len = rem]
    BY DEF tapsMessageTruncate
  <1> HIDE DEF row, rem
  <1>5. [m EXCEPT !.iovcnt = row + 1, !.list[row + 1].len = rem] = Cut(b, n)
    <2> DEFINE entry == [buf |-> b, off |-> 0, len |-> n]
    <2>1. [m.list[1] EXCEPT !.len = n] = entry
      BY DEF Cut
    <2>2. [m.list EXCEPT ![1] = entry] = <<entry>>
      <3> HIDE DEF entry
      <3> QED
        BY DEF Cut
    <2>3. [m EXCEPT !.iovcnt = 1, !.list = <<entry>>] = Cut(b, n)
      <3> DEFINE list == <<entry>>
      <3>1. Cut(b, n) = [list |-> list, iovcnt |-> 1]
        BY DEF Cut
      <3>2. PICK old : m = [list |-> old, iovcnt |-> 1]
        BY DEF Cut
      <3> HIDE DEF list, m
      <3>3. [m EXCEPT !.iovcnt = 1, !.list = list] \in [list : {list}, iovcnt : {1}]
        BY <3>2
      <3>4. \A x \in [list : {list}, iovcnt : {1}] : x = [list |-> list, iovcnt |-> 1]
        OBVIOUS
      <3> QED
        BY <3>1, <3>3, <3>4 DEF list
    <2>4. row + 1 = 1
      BY <1>2
    <2>5. [m EXCEPT !.iovcnt = row + 1, !.list[row + 1].len = rem] =
            [m EXCEPT !.iovcnt = 1, !.list = [m.list EXCEPT ![1] = [m.list[1] EXCEPT !.len = n]]]
      BY <1>3, <2>4 DEF Cut
    <2> QED
      BY <2>1, <2>2, <2>3, <2>5
  <1> QED
    BY <1>1, <1>2, <1>4, <1>5

(* A cut message covers the first bytes of its buffer, in order.           *)
LEMMA CutAddresses ==
    ASSUME NEW b, NEW n \in Nat
    PROVE  Addresses(tapsMessageGetIovec(Cut(b, n))) = [k \in 1 .. n |-> <<b, k - 1>>]
  <1> DEFINE v == Cut(b, n).list
             row == [k \in 1 .. v[1].len |-> <<v[1].buf, v[1].off + k - 1>>]
             Is(f) == f = [i \in 0 .. Len(v) |->
                        IF i = 0 THEN <<>>
                        ELSE f[i - 1] \o
                             [k \in 1 .. v[i].len |-> <<v[i].buf, v[i].off + k - 1>>]]
             g == [i \in 0 .. 1 |-> IF i = 0 THEN <<>> ELSE <<>> \o row]
             upto == CHOOSE f : Is(f)
  <1>1. tapsMessageGetIovec(Cut(b, n)) = v
    <2>1. v \in Seq({v[1]}) /\ Len(v) = 1 /\ Cut(b, n).iovcnt = 1
      BY DEF Cut
    <2> HIDE DEF v
    <2>2. SubSeq(v, 1, 1) = v
      BY <2>1, SubSeqFull
    <2> QED
      BY <2>1, <2>2 DEF tapsMessageGetIovec, v
  <1>2. Len(v) = 1 /\ v[1].buf = b /\ v[1].off = 0 /\ v[1].len = n
    BY DEF Cut
  <1>3. Addresses(v) = upto[Len(v)]
    BY DEF Addresses
  <1> HIDE DEF v
  <1>4. Is(g)
    BY <1>2
  <1>5. Is(upto)
    BY <1>4
  <1> HIDE DEF upto
  <1>6. upto[0] = <<>> /\ upto[1] = <<>> \o row
    <2>1. upto[0] = <<>>
      BY <1>2, <1>5
    <2>2. upto[1] = upto[1 - 1] \o row
      BY <1>2, <1>5
    <2> HIDE DEF row
    <2>3. 1 - 1 = 0
      OBVIOUS
    <2> QED
      BY <2>1, <2>2, <2>3, Zenon
  <1>7. row = [k \in 1 .. n |-> <<b, k - 1>>]
    BY <1>2
  <1> DEFINE S == {<<b, k - 1>> : k \in 1 .. n}
  <1>8. row \in Seq(S)
    <2>1. row \in [1 .. n -> S]
      BY <1>7
    <2> HIDE DEF row, S
    <2> QED
      BY <2>1
  <1> HIDE DEF S
  <1>9. <<>> \o row = row
    BY <1>8, ConcatEmptySeq
  <1> QED
    BY <1>1, <1>2, <1>3, <1>6, <1>7, <1>9

-----------------------------------------------------------------------------
(* The echo server as a client of the connection *)

LEMMA EchoStepIsStep ==
    ASSUME [EchoNext]_echoVars PROVE [Next]_vars
  <1>1. CASE ReceiveMore
    <2>1. 0 \in MinLengths
      BY EchoAssumption
    <2> QED
      BY <1>1, <2>1 DEF ReceiveMore, Next, Application
  <1>2. CASE UNCHANGED echoVars
    BY <1>2 DEF echoVars
  <1> QED
    BY <1>1, <1>2 DEF EchoNext, Echo, AppReceived, AppSent, AppNothing,
       AppClosed, AppFree, EchoPeer, Next, Application, EventLoop

(* The echo server keeps the contract of taps.h: every behaviour of it is  *)
(* a behaviour of a connection with an arbitrary application, so whatever  *)
(* is proved of that one (the order of the wire, the stream, one event for *)
(* each message and buffer) holds of the echo server, with any peer and    *)
(* any failing calls.                                                      *)
THEOREM EchoIsClient == EchoSpec => Spec
  <1>1. EchoInit => Init
    BY DEF EchoInit
  <1>2. [EchoNext]_echoVars => [Next]_vars
    BY EchoStepIsStep
  <1> QED
    BY <1>1, <1>2, PTL DEF EchoSpec, Spec

-----------------------------------------------------------------------------
(* Types *)

Cuts == {Cut(b, n) : b \in Buffers, n \in 0 .. BufLen}

AppTypes ==
    /\ handler \in {"none", "echo", "more", "free", "exited"}
    /\ current \in 0 .. MaxRecvs
    /\ message \in [Buffers -> Cuts]
    /\ echoOf \in [Messages -> 0 .. MaxRecvs]
    /\ frees \in [Buffers -> Nat]
    /\ structFrees \in [Buffers -> Nat]
    /\ echoed \in Seq(0 .. MaxBytes)
    /\ shortWrite \in BOOLEAN
    /\ outOfMemory \in BOOLEAN
    /\ overlapped \in BOOLEAN

(* No receive event for this buffer yet.                                   *)
Untouched(b) == bufFate[b] \in {"none", "queued"}

(* A message is cut once, by the callback that is given it, and every      *)
(* queued send is one of these.                                            *)
ShapeInv ==
    /\ \A b \in Buffers : \E n \in 0 .. BufLen : message[b] = Cut(b, n)
    /\ \A b \in Buffers : Untouched(b) => message[b] = Cut(b, BufLen)
    /\ handler = "echo" =>
         /\ current \in Buffers
         /\ ~Untouched(current)
         /\ message[current] = Cut(current, BufLen)
    /\ \A i \in 1 .. Len(sndq) : echoOf[sndq[i]] \in Buffers

EchoInv == IInv /\ FateInv /\ AppTypes /\ ShapeInv

(* The bytes of a cut message are what its buffer holds, as long as none   *)
(* of its parts is freed.                                                  *)
LEMMA BytesOfCut ==
    ASSUME ReceiveTypes, NEW b \in Buffers, NEW n \in 0 .. BufLen,
           NEW msgs, msgs[b] = Cut(b, n)
    PROVE  /\ Bytes(b, msgs) \in Seq(0 .. MaxBytes)
           /\ Len(Bytes(b, msgs)) = n
           /\ \A k \in 1 .. n :
                Bytes(b, msgs)[k] = IF frees[b] + structFrees[b] > 0 THEN 0
                                    ELSE memory[b][k - 1]
  <1> DEFINE a == Addresses(tapsMessageGetIovec(msgs[b]))
             freed == frees[b] + structFrees[b] > 0
             bytes == [i \in DOMAIN a |-> IF freed THEN 0 ELSE memory[b][a[i][2]]]
  <1>0. n \in Nat /\ BufLen \in Nat /\ MaxBytes \in Nat
    BY BoundsAssumption
  <1>1. a = [k \in 1 .. n |-> <<b, k - 1>>]
    BY <1>0, CutAddresses
  <1>2. Bytes(b, msgs) = bytes
    BY DEF Bytes
  <1> HIDE DEF a, freed
  <1>3. DOMAIN a = 1 .. n /\ \A k \in 1 .. n : a[k][2] = k - 1
    BY <1>1
  <1>4. \A k \in 1 .. n : memory[b][k - 1] \in 0 .. MaxBytes
    BY <1>0 DEF ReceiveTypes
  <1>5. \A k \in 1 .. n : bytes[k] = IF freed THEN 0 ELSE memory[b][k - 1]
    BY <1>3
  <1>6. bytes \in [1 .. n -> 0 .. MaxBytes]
    BY <1>0, <1>3, <1>4
  <1> HIDE DEF bytes
  <1>7. bytes \in Seq(0 .. MaxBytes) /\ Len(bytes) = n
    BY <1>0, <1>6
  <1> QED
    BY <1>2, <1>5, <1>7 DEF freed

(* What a step that writes the message of buffer b adds to the echo.       *)
LEMMA WrittenEffect ==
    ASSUME ReceiveTypes, AppTypes, NEW b \in Buffers, NEW n \in 0 .. BufLen,
           message'[b] = Cut(b, n), wire' # wire,
           echoOf'[wire'[Len(wire')]] = b, Written
    PROVE  \E taken \in 0 .. n :
             /\ echoed' \in Seq(0 .. MaxBytes)
             /\ Len(echoed') = Len(echoed) + taken
             /\ \A i \in 1 .. Len(echoed) : echoed'[i] = echoed[i]
             /\ \A k \in 1 .. taken :
                  echoed'[Len(echoed) + k] =
                      IF frees[b] + structFrees[b] > 0 THEN 0 ELSE memory[b][k - 1]
             /\ shortWrite' = (shortWrite \/ taken < n)
  <1> DEFINE bytes == Bytes(b, message')
             byte(k) == IF frees[b] + structFrees[b] > 0 THEN 0 ELSE memory[b][k - 1]
  <1>0. n \in Nat /\ BufLen \in Nat /\ MaxBytes \in Nat
    BY BoundsAssumption
  <1>1. /\ bytes \in Seq(0 .. MaxBytes) /\ Len(bytes) = n
        /\ \A k \in 1 .. n : bytes[k] = byte(k)
    BY BytesOfCut
  <1>2. PICK taken \in (IF ShortWrites THEN 1 .. Len(bytes) ELSE {}) \cup {Len(bytes)} :
          /\ echoed' = echoed \o SubSeq(bytes, 1, taken)
          /\ shortWrite' = (shortWrite \/ taken < Len(bytes))
    BY DEF Written
  <1> HIDE DEF bytes, byte
  <1>3. taken \in 0 .. n
    BY <1>0, <1>1, <1>2
  <1> DEFINE s == SubSeq(bytes, 1, taken)
  <1>4. s \in Seq(0 .. MaxBytes) /\ Len(s) = taken /\ \A k \in 1 .. taken : s[k] = bytes[k]
    <2>1. \A k \in 1 .. taken : bytes[k] \in 0 .. MaxBytes
      BY <1>0, <1>1, <1>3, ElementOfSeq
    <2>2. /\ s \in Seq(0 .. MaxBytes)
          /\ Len(s) = IF 1 <= taken THEN taken - 1 + 1 ELSE 0
          /\ \A i \in 1 .. taken - 1 + 1 : s[i] = bytes[1 + i - 1]
      BY <1>3, <2>1, SubSeqProperties
    <2> QED
      BY <1>0, <1>3, <2>2
  <1>5. echoed \in Seq(0 .. MaxBytes) /\ Len(echoed) \in Nat
    BY LenProperties DEF AppTypes
  <1> HIDE DEF s
  <1>6. /\ echoed' \in Seq(0 .. MaxBytes)
        /\ Len(echoed') = Len(echoed) + taken
        /\ \A i \in 1 .. Len(echoed) : echoed'[i] = echoed[i]
        /\ \A k \in 1 .. taken : echoed'[Len(echoed) + k] = s[k]
    <2>0. echoed' = echoed \o s
      BY <1>2 DEF s
    <2>1. /\ echoed \o s \in Seq(0 .. MaxBytes)
          /\ Len(echoed \o s) = Len(echoed) + Len(s)
          /\ \A i \in 1 .. Len(echoed) + Len(s) :
               (echoed \o s)[i] = IF i <= Len(echoed) THEN echoed[i]
                                  ELSE s[i - Len(echoed)]
      <3>1. s \in Seq(0 .. MaxBytes) /\ echoed \in Seq(0 .. MaxBytes)
        BY <1>4, <1>5
      <3> QED
        BY <3>1, ConcatProperties, Zenon
    <2> QED
      BY <1>0, <1>3, <1>4, <1>5, <2>0, <2>1, SMTT(30)
  <1>7. \A k \in 1 .. taken : echoed'[Len(echoed) + k] = byte(k)
    BY <1>0, <1>1, <1>3, <1>4, <1>6
  <1>8. shortWrite' = (shortWrite \/ taken < n)
    BY <1>1, <1>2
  <1> QED
    BY <1>3, <1>6, <1>7, <1>8 DEF byte

LEMMA EchoInvFacts ==
    ASSUME EchoInv
    PROVE  /\ SendTypes /\ SendInv /\ ReceiveTypes /\ QueueInv /\ StreamInv
           /\ MsgFateInv /\ BufFateInv
           /\ Len(sndq) \in Nat /\ \A i \in 1 .. Len(sndq) : sndq[i] \in Messages
           /\ \A b \in Buffers : b \in Nat /\ b \in 0 .. MaxRecvs
           /\ BufLen \in Nat /\ MaxBytes \in Nat /\ MaxSends \in Nat
           /\ BufLen \in 0 .. BufLen
  <1>1. SendTypes /\ SendInv /\ ReceiveTypes /\ QueueInv /\ StreamInv
    BY Sides DEF EchoInv, SendSide, ReceiveSide
  <1>2. Len(sndq) \in Nat /\ \A i \in 1 .. Len(sndq) : sndq[i] \in Messages
    BY <1>1, LenProperties, ElementOfSeq DEF SendTypes
  <1> QED
    BY <1>1, <1>2, BoundsAssumption DEF EchoInv, FateInv, Buffers

(* The part of _app_received_partial that sends the message back.          *)
LEMMA EchoEffect ==
    ASSUME EchoInv, Echo
    PROVE  /\ current \in Buffers /\ sends + 1 \in Messages
           /\ currLength[current] \in 0 .. BufLen
           /\ message' \in [Buffers -> Cuts]
           /\ message'[current] = Cut(current, currLength[current])
           /\ \A b \in Buffers : b # current => message'[b] = message[b]
           /\ echoOf' \in [Messages -> 0 .. MaxRecvs]
           /\ echoOf'[sends + 1] = current
           /\ \A i \in 1 .. Len(sndq) : echoOf'[sndq[i]] = echoOf[sndq[i]]
           /\ wire' # wire => wire'[Len(wire')] = sends + 1
           /\ sndq' = sndq \/ sndq' = Append(sndq, sends + 1)
  <1> DEFINE m == sends + 1
  <1>0. /\ SendTypes /\ SendInv /\ ReceiveTypes
        /\ \A i \in 1 .. Len(sndq) : sndq[i] \in Messages
        /\ \A b \in Buffers : b \in 0 .. MaxRecvs
        /\ BufLen \in Nat /\ MaxSends \in Nat
    BY EchoInvFacts
  <1>1. /\ current \in Buffers /\ message[current] = Cut(current, BufLen)
        /\ AppTypes /\ ShapeInv /\ IInv
    BY DEF EchoInv, ShapeInv, Echo
  <1>2. /\ m \in Messages /\ m \in Nat /\ m > sends /\ sends \in Nat
        /\ tapsConnectionSend
    BY <1>0 DEF Echo, tapsConnectionSend, SendTypes, Messages
  <1>3. currLength[current] \in 0 .. BufLen
    BY <1>0, <1>1 DEF ReceiveTypes
  <1>4. message' = [message EXCEPT ![current] = Cut(current, currLength[current])]
    <2>1. EchoLength(current) = Cut(current, currLength[current])
      BY <1>0, <1>1, <1>3, TruncateCuts DEF EchoLength
    <2> QED
      BY <2>1 DEF Echo
  <1>5. Cut(current, currLength[current]) \in Cuts
    BY <1>1, <1>3 DEF Cuts
  <1>6. /\ message' \in [Buffers -> Cuts]
        /\ message'[current] = Cut(current, currLength[current])
        /\ \A b \in Buffers : b # current => message'[b] = message[b]
    BY <1>1, <1>4, <1>5 DEF AppTypes
  <1>7. echoOf' = [echoOf EXCEPT ![m] = current]
    BY DEF Echo
  <1> HIDE DEF m
  <1>8. \A i \in 1 .. Len(sndq) : sndq[i] # m
    BY <1>0, <1>2 DEF SendInv, AtMost, Messages
  <1>9. /\ echoOf' \in [Messages -> 0 .. MaxRecvs]
        /\ echoOf'[m] = current
        /\ \A i \in 1 .. Len(sndq) : echoOf'[sndq[i]] = echoOf[sndq[i]]
    BY <1>0, <1>1, <1>2, <1>7, <1>8 DEF AppTypes
  <1>10. wire' # wire => wire'[Len(wire')] = m
    <2>1. \/ UNCHANGED wire
          \/ \E pending \in BOOLEAN : \E r \in {"ok", "err"} : Send(m, pending, r)
      BY <1>2 DEF tapsConnectionSend, tcpSendVars, m
    <2>2. wire' = wire \/ wire' = Append(wire, m)
      BY <2>1 DEF Send
    <2>3. /\ Len(Append(wire, m)) = Len(wire) + 1
          /\ Append(wire, m)[Len(wire) + 1] = m
      BY <1>0, <1>2, AppendProperties DEF SendTypes
    <2> QED
      BY <2>2, <2>3
  <1>11. sndq' = sndq \/ sndq' = Append(sndq, m)
    BY <1>2 DEF tapsConnectionSend, m
  <1> QED
    BY <1>1, <1>2, <1>3, <1>6, <1>9, <1>10, <1>11 DEF m

LEMMA BumpType ==
    ASSUME NEW f \in [Buffers -> Nat], NEW b \in Buffers
    PROVE  /\ Bump(f, b) \in [Buffers -> Nat]
           /\ \A c \in Buffers : Bump(f, b)[c] = IF c = b THEN f[c] + 1 ELSE f[c]
  BY DEF Bump

LEMMA EchoShape ==
    ASSUME EchoInv, Echo
    PROVE  AppTypes' /\ ShapeInv'
  <1> DEFINE m == sends + 1
  <1>0. /\ SendTypes /\ ReceiveTypes /\ AppTypes /\ ShapeInv
        /\ Len(sndq) \in Nat
    BY EchoInvFacts DEF EchoInv
  <1>1. /\ current \in Buffers /\ m \in Messages
        /\ currLength[current] \in 0 .. BufLen
        /\ message' \in [Buffers -> Cuts]
        /\ message'[current] = Cut(current, currLength[current])
        /\ \A b \in Buffers : b # current => message'[b] = message[b]
        /\ echoOf' \in [Messages -> 0 .. MaxRecvs]
        /\ echoOf'[m] = current
        /\ \A i \in 1 .. Len(sndq) : echoOf'[sndq[i]] = echoOf[sndq[i]]
        /\ wire' # wire => wire'[Len(wire')] = m
        /\ sndq' = sndq \/ sndq' = Append(sndq, m)
    BY EchoEffect
  <1> HIDE DEF m
  <1>2. handler' = "more" /\ current' = current /\ bufFate' = bufFate
        /\ \A b : message[b] = Cut(b, BufLen) /\ Untouched(b) /\ b \in Buffers => b # current
    BY <1>0 DEF Echo, AfterEcho, tapsConnectionSend, receiveVars, ShapeInv
  <1>3. frees' \in [Buffers -> Nat] /\ structFrees' \in [Buffers -> Nat]
    BY <1>0, <1>1, BumpType DEF Echo, EchoFrees, AppTypes
  <1>4. echoed' \in Seq(0 .. MaxBytes) /\ shortWrite' \in BOOLEAN
    <2>1. CASE wire' = wire
      BY <1>0, <2>1 DEF Echo, Written, AppTypes
    <2>2. CASE wire' # wire
      <3>1. Written
        BY DEF Echo
      <3>2. echoOf'[wire'[Len(wire')]] = current
        BY <1>1, <2>2
      <3>3. PICK taken \in 0 .. currLength[current] :
              /\ echoed' \in Seq(0 .. MaxBytes)
              /\ shortWrite' = (shortWrite \/ taken < currLength[current])
        BY <1>0, <1>1, <2>2, <3>1, <3>2, WrittenEffect
      <3>4. shortWrite' \in BOOLEAN
        BY <1>0, <3>3, Zenon DEF AppTypes
      <3> QED
        BY <3>3, <3>4
    <2> QED
      BY <2>1, <2>2
  <1>5. outOfMemory' \in BOOLEAN /\ overlapped' \in BOOLEAN
    BY <1>0, Zenon DEF Echo, AppTypes
  <1>6. AppTypes'
    BY <1>0, <1>1, <1>2, <1>3, <1>4, <1>5 DEF AppTypes
  <1>7. \A i \in 1 .. Len(sndq') : echoOf'[sndq'[i]] \in Buffers
    <2>1. \A i \in 1 .. Len(sndq) : echoOf'[sndq[i]] \in Buffers
      BY <1>0, <1>1 DEF ShapeInv
    <2>2. CASE sndq' = sndq
      BY <2>1, <2>2
    <2>3. CASE sndq' = Append(sndq, m)
      <3>1. /\ Len(sndq') = Len(sndq) + 1
            /\ sndq'[Len(sndq) + 1] = m
            /\ \A i \in 1 .. Len(sndq) : sndq'[i] = sndq[i]
        BY <1>0, <1>1, <2>3, AppendProperties DEF SendTypes
      <3> QED
        BY <1>0, <1>1, <2>1, <3>1
    <2> QED
      BY <1>1, <2>2, <2>3
  <1>8. \A b \in Buffers : Untouched(b)' <=> Untouched(b)
    BY <1>2 DEF Untouched
  <1>9. /\ \A b \in Buffers : \E n \in 0 .. BufLen : message'[b] = Cut(b, n)
        /\ \A b \in Buffers : Untouched(b) => message'[b] = Cut(b, BufLen)
    <2>1. /\ \A b \in Buffers : \E n \in 0 .. BufLen : message[b] = Cut(b, n)
          /\ \A b \in Buffers : Untouched(b) => message[b] = Cut(b, BufLen)
      BY <1>0 DEF ShapeInv
    <2>2. \A b \in Buffers : \E n \in 0 .. BufLen : message'[b] = Cut(b, n)
      <3> TAKE b \in Buffers
      <3>1. CASE b = current
        BY <1>1, <3>1
      <3>2. CASE b # current
        <4>1. message'[b] = message[b]
          BY <1>1, <3>2
        <4> QED
          BY <2>1, <4>1
      <3> QED
        BY <3>1, <3>2
    <2>3. \A b \in Buffers : Untouched(b) => message'[b] = Cut(b, BufLen)
      BY <1>1, <1>2, <2>1, Zenon
    <2> QED
      BY <2>2, <2>3
  <1> QED
    BY <1>2, <1>6, <1>7, <1>8, <1>9 DEF ShapeInv

(* The steps that cut no message and queue no send.                        *)
LEMMA ShapeKept ==
    ASSUME ShapeInv, UNCHANGED <<message, echoOf>>, BufFatesKept,
           handler' = "echo" => handler = "echo" /\ current' = current,
           \A i \in 1 .. Len(sndq') : \E j \in 1 .. Len(sndq) : sndq'[i] = sndq[j]
    PROVE  ShapeInv'
  <1>1. \A b \in Buffers : ~Untouched(b) => ~Untouched(b)'
    BY DEF Untouched, BufFatesKept
  <1> QED
    BY <1>1 DEF ShapeInv

LEMMA ReceiveMoreShape ==
    ASSUME EchoInv, BufFatesKept, ReceiveMore
    PROVE  AppTypes' /\ ShapeInv'
  <1>1. /\ UNCHANGED <<current, message, echoOf, frees, structFrees, echoed, shortWrite>>
        /\ UNCHANGED overlapped
        /\ handler' \in {"none", "exited"}
        /\ sndq' = sndq
    BY DEF ReceiveMore, tapsConnectionReceive, sendVars, vars
  <1>2. outOfMemory' \in BOOLEAN
    BY Zenon DEF ReceiveMore, EchoInv, AppTypes
  <1>3. ShapeInv /\ AppTypes
    BY DEF EchoInv
  <1> QED
    BY <1>1, <1>2, <1>3, ShapeKept DEF AppTypes

LEMMA AppReceivedShape ==
    ASSUME EchoInv, BufFatesKept, AppReceived
    PROVE  AppTypes' /\ ShapeInv'
  <1>0. /\ AppTypes /\ ShapeInv
        /\ \A b \in Buffers : b \in 0 .. MaxRecvs
    BY EchoInvFacts DEF EchoInv
  <1>1. PICK b \in Buffers : /\ bufFate[b] = "queued"
                             /\ bufFate'[b] \in {"received", "receivedPartial"}
                             /\ current' = b
    BY DEF AppReceived
  <1>2. handler' = "echo" /\ sndq' = sndq
        /\ UNCHANGED <<message, echoOf, frees, structFrees>>
        /\ UNCHANGED <<echoed, shortWrite, outOfMemory, overlapped>>
    BY DEF AppReceived, BytesReceived, sendVars, history
  <1>3. AppTypes'
    BY <1>0, <1>1, <1>2 DEF AppTypes
  <1>4. Untouched(b) /\ ~Untouched(b)'
    BY <1>1 DEF Untouched
  <1>5. \A c \in Buffers : Untouched(c)' => Untouched(c)
    BY DEF Untouched, BufFatesKept
  <1> QED
    BY <1>0, <1>1, <1>2, <1>3, <1>4, <1>5 DEF ShapeInv

(* A send has its event, and the next one goes to the socket.              *)
LEMMA AppSentEffect ==
    ASSUME EchoInv, AppSent
    PROVE  \E k \in 1 .. Len(sndq) :
             /\ sndq[k] = send_ctx
             /\ echoOf[send_ctx] \in Buffers
             /\ sndq' = DeleteItem(sndq, k)
             /\ wire' # wire => k < Len(sndq) /\ wire'[Len(wire')] = sndq[k + 1]
             /\ ~(k < Len(sndq)) => sendEvent' = "idle" /\ wire' = wire
  <1>0. /\ SendTypes /\ SendInv /\ MaxSends \in Nat /\ ShapeInv
        /\ sndq \in Seq(1 .. MaxSends) /\ Increasing(sndq)
        /\ Len(sndq) \in Nat /\ \A i \in 1 .. Len(sndq) : sndq[i] \in Messages
    BY EchoInvFacts DEF EchoInv, SendTypes, SendInv, Messages
  <1>1. PICK how \in SendEvents : SendDone(how)
    BY DEF AppSent
  <1>2. PICK k \in 1 .. Len(sndq) : sndq[k] = send_ctx
    BY <1>0, <1>1 DEF SendDone, SendInv
  <1>3. Place(sndq, sndq[k]) = k
    BY <1>0, PlaceOf
  <1>4. SendCommon(k)
    BY <1>1, <1>2, <1>3 DEF SendDone
  <1>5. CASE k < Len(sndq)
    <2> DEFINE m == sndq[k + 1]
    <2>1. m \in Messages
      BY <1>0, <1>5
    <2>2. wire' = wire \/ wire' = Append(wire, m)
      BY <1>4, <1>5 DEF SendCommon, Send
    <2> HIDE DEF m
    <2>3. /\ Len(Append(wire, m)) = Len(wire) + 1
          /\ Append(wire, m)[Len(wire) + 1] = m
      BY <1>0, <2>1, AppendProperties DEF SendTypes
    <2>4. wire' # wire => wire'[Len(wire')] = m
      BY <2>2, <2>3
    <2> QED
      BY <1>0, <1>2, <1>4, <1>5, <2>4 DEF SendCommon, ShapeInv, m
  <1>6. CASE ~(k < Len(sndq))
    BY <1>0, <1>2, <1>4, <1>6 DEF SendCommon, ShapeInv
  <1> QED
    BY <1>5, <1>6

LEMMA AppSentShape ==
    ASSUME EchoInv, BufFatesKept, AppSent
    PROVE  AppTypes' /\ ShapeInv'
  <1>0. /\ AppTypes /\ ShapeInv /\ ReceiveTypes /\ MaxSends \in Nat
        /\ sndq \in Seq(1 .. MaxSends) /\ Increasing(sndq)
        /\ Len(sndq) \in Nat
    BY EchoInvFacts DEF EchoInv, SendTypes, SendInv, Messages
  <1>1. PICK k \in 1 .. Len(sndq) :
          /\ sndq[k] = send_ctx
          /\ echoOf[send_ctx] \in Buffers
          /\ sndq' = DeleteItem(sndq, k)
          /\ wire' # wire => k < Len(sndq) /\ wire'[Len(wire')] = sndq[k + 1]
    BY AppSentEffect
  <1>2. UNCHANGED <<handler, current, message, echoOf, outOfMemory, overlapped>>
    BY DEF AppSent
  <1>3. frees' \in [Buffers -> Nat] /\ structFrees' \in [Buffers -> Nat]
    BY <1>0, <1>1, BumpType DEF AppSent, AppTypes
  <1>4. echoed' \in Seq(0 .. MaxBytes) /\ shortWrite' \in BOOLEAN
    <2>1. CASE wire' = wire
      BY <1>0, <2>1 DEF AppSent, Written, AppTypes
    <2>2. CASE wire' # wire
      <3> DEFINE b == echoOf[sndq[k + 1]]
      <3>1. Written
        BY DEF AppSent
      <3>2. b \in Buffers /\ echoOf'[wire'[Len(wire')]] = b
        BY <1>0, <1>1, <1>2, <2>2 DEF ShapeInv
      <3>3. PICK n \in 0 .. BufLen : message'[b] = Cut(b, n)
        BY <1>0, <1>2, <3>2 DEF ShapeInv
      <3> HIDE DEF b
      <3>4. PICK taken \in 0 .. n :
              /\ echoed' \in Seq(0 .. MaxBytes)
              /\ shortWrite' = (shortWrite \/ taken < n)
        BY <1>0, <2>2, <3>1, <3>2, <3>3, WrittenEffect
      <3>5. shortWrite' \in BOOLEAN
        BY <1>0, <3>4, Zenon DEF AppTypes
      <3> QED
        BY <3>4, <3>5
    <2> QED
      BY <2>1, <2>2
  <1>5. AppTypes'
    BY <1>0, <1>2, <1>3, <1>4 DEF AppTypes
  <1>6. \A i \in 1 .. Len(sndq') : \E j \in 1 .. Len(sndq) : sndq'[i] = sndq[j]
    <2>1. sndq' = DeleteItem(sndq, k)
      BY <1>1
    <2>2. \A i \in 1 .. Len(DeleteItem(sndq, k)) :
            /\ DeleteItem(sndq, k)[i] # sndq[k]
            /\ \E j \in 1 .. Len(sndq) : DeleteItem(sndq, k)[i] = sndq[j]
      <3>1. MaxSends \in Nat /\ sndq \in Seq(1 .. MaxSends) /\ Increasing(sndq)
        BY <1>0
      <3> QED
        BY <3>1, OthersStay, ZenonT(60)
    <2> QED
      BY <2>1, <2>2
  <1> QED
    BY <1>0, <1>2, <1>5, <1>6, ShapeKept

LEMMA AppFreeShape ==
    ASSUME EchoInv, BufFatesKept, AppFree
    PROVE  AppTypes' /\ ShapeInv'
  <1>0. AppTypes /\ ShapeInv /\ Len(sndq) \in Nat
    BY EchoInvFacts DEF EchoInv
  <1>1. /\ sndq' = <<>> /\ handler' = "none"
        /\ UNCHANGED <<current, message, echoOf>>
        /\ UNCHANGED <<echoed, shortWrite, outOfMemory, overlapped>>
    BY EchoAssumption DEF AppFree, tapsConnectionFree, history
  <1>2. frees' \in [Buffers -> Nat] /\ structFrees' \in [Buffers -> Nat]
    BY <1>0 DEF AppFree, AppTypes
  <1>3. AppTypes'
    BY <1>0, <1>1, <1>2 DEF AppTypes
  <1>4. Len(sndq') = 0
    BY <1>1, EmptySeq
  <1> QED
    BY <1>0, <1>1, <1>3, <1>4, ShapeKept

LEMMA OtherShape ==
    ASSUME EchoInv, BufFatesKept,
           AppNothing \/ AppClosed \/ EchoPeer \/ UNCHANGED echoVars
    PROVE  AppTypes' /\ ShapeInv'
  <1>1. /\ UNCHANGED <<current, message, echoOf, frees, structFrees>>
        /\ UNCHANGED <<echoed, shortWrite, outOfMemory, overlapped>>
        /\ handler' = handler \/ handler' = "free"
        /\ sndq' = sndq
    BY DEF AppNothing, AppClosed, AfterClosed, EchoPeer, echoVars, appVars, history,
           NothingReceived, Closed, Peer, sendVars, vars
  <1>2. AppTypes /\ ShapeInv
    BY DEF EchoInv
  <1> QED
    BY <1>1, <1>2, ShapeKept DEF AppTypes

LEMMA EchoInitInv == EchoInit => EchoInv
  <1> SUFFICES ASSUME EchoInit PROVE EchoInv
    OBVIOUS
  <1>1. IInv /\ FateInv
    BY InitIInv, InitFates DEF EchoInit
  <1>2. MaxRecvs \in Nat /\ BufLen \in 0 .. BufLen /\ MaxBytes \in Nat
    BY BoundsAssumption
  <1>3. message = [b \in Buffers |-> Cut(b, BufLen)]
    BY NewIsCut DEF EchoInit
  <1>4. message \in [Buffers -> Cuts]
    BY <1>2, <1>3 DEF Cuts
  <1>5. AppTypes
    <2>1. echoed \in Seq(0 .. MaxBytes)
      BY EmptySeq DEF EchoInit
    <2>2. 0 \in 0 .. MaxRecvs /\ 0 \in Nat
      BY <1>2
    <2>3. /\ echoOf \in [Messages -> 0 .. MaxRecvs]
          /\ frees \in [Buffers -> Nat] /\ structFrees \in [Buffers -> Nat]
      BY <2>2 DEF EchoInit
    <2> QED
      BY <1>4, <2>1, <2>2, <2>3 DEF EchoInit, AppTypes
  <1>6. Len(sndq) = 0
    BY EmptySeq DEF EchoInit, Init
  <1>7. ShapeInv
    BY <1>2, <1>3, <1>6 DEF EchoInit, ShapeInv
  <1> QED
    BY <1>1, <1>5, <1>7 DEF EchoInv

LEMMA EchoNextInv ==
    ASSUME EchoInv, [EchoNext]_echoVars
    PROVE  EchoInv' /\ BufFatesKept
  <1>0. IInv /\ FateInv /\ [Next]_vars
    BY EchoStepIsStep DEF EchoInv
  <1>1. IInv' /\ FateInv' /\ BufFatesKept
    BY <1>0, NextIInv, NextFates
  <1>2. AppTypes' /\ ShapeInv'
    BY <1>1, EchoShape, ReceiveMoreShape, AppReceivedShape, AppSentShape,
       AppFreeShape, OtherShape DEF EchoNext
  <1> QED
    BY <1>1, <1>2 DEF EchoInv

(* The types hold, and a message has one entry or none, with any peer, any *)
(* failing calls and any protocol events.                                  *)
THEOREM EchoTypeCorrect == EchoSpec => []EchoTypeOK
  <1>1. EchoInit => EchoInv
    BY EchoInitInv
  <1>2. EchoInv /\ [EchoNext]_echoVars => EchoInv'
    BY EchoNextInv
  <1>3. EchoInv => EchoTypeOK
    <2> SUFFICES ASSUME EchoInv PROVE EchoTypeOK
      OBVIOUS
    <2>1. TypeOK /\ AppTypes
      BY DEF EchoInv, IInv
    <2>2. \A b \in Buffers : message[b].iovcnt \in 0 .. 1
      <3>1. \A x \in Cuts : x.iovcnt = 1
        BY DEF Cuts, Cut
      <3> QED
        BY <2>1, <3>1 DEF AppTypes
    <2> QED
      BY <2>1, <2>2 DEF EchoTypeOK, AppTypes
  <1> QED
    BY <1>1, <1>2, <1>3, PTL DEF EchoSpec

-----------------------------------------------------------------------------
(* One send at a time *)

(* What the echo server holds to as long as no send has found another one  *)
(* outstanding: every receive event hands over what it has read, and the   *)
(* outstanding send is the last of the queue.                              *)
PaceInv ==
    /\ truncVecs = 0
    /\ \A b \in Buffers : minLength[b] = 0
    /\ sendReady = TRUE
    /\ conn = "open" /\ sendEvent = "added" => send_ctx = sndq[Len(sndq)]

(* The message goes to the socket at once, or there is no memory for it.   *)
LEMMA EchoAlone ==
    ASSUME ~overlapped', EchoInv, PaceInv, Echo
    PROVE  /\ conn = "open" /\ conn' = "open" /\ sendReady' = TRUE
           /\ sendEvent # "added"
           /\ \/ /\ ret'[sends + 1] = "err" /\ msgFate'[sends + 1] = "refused"
                 /\ UNCHANGED <<sndq, wire, sendEvent>>
              \/ /\ msgFate'[sends + 1] = "queued"
                 /\ sndq' = Append(sndq, sends + 1)
                 /\ wire' # wire \/ "writev" \in Faults
                 /\ \/ ret'[sends + 1] = "ok" /\ sendEvent' = "added"
                       /\ send_ctx' = sends + 1
                    \/ sendEvent' = "idle" /\ Faults \cap {"writev", "event_add"} # {}
  <1> DEFINE m == sends + 1
  <1>0. /\ SendTypes
        /\ m \in Messages /\ conn = "open" /\ conn' = "open"
        /\ handler = "echo" /\ sendReady = TRUE /\ sendReady' = TRUE
        /\ sendEvent # "added"
    BY EchoInvFacts, EchoEffect DEF Echo, tapsConnectionSend, PaceInv
  <1>1. wire # Append(wire, m)
    <2>1. Len(Append(wire, m)) = Len(wire) + 1 /\ Len(wire) \in Nat
      BY <1>0, AppendProperties, LenProperties DEF SendTypes
    <2> QED
      BY <2>1
  <1>2. CASE /\ ret' = [ret EXCEPT ![m] = "err"]
             /\ msgFate' = [msgFate EXCEPT ![m] = "refused"]
             /\ UNCHANGED <<sndq, tcpSendVars>>
    BY <1>0, <1>2 DEF SendTypes, tcpSendVars
  <1>3. CASE /\ sndq' = Append(sndq, m)
             /\ msgFate' = [msgFate EXCEPT ![m] = "queued"]
             /\ \E r \in {"ok", "err"} :
                  /\ Send(m, sendEvent = "added", r)
                  /\ ret' = [ret EXCEPT ![m] = r]
    <2>2. PICK r \in {"ok", "err"} : /\ Send(m, sendEvent = "added", r)
                                     /\ ret' = [ret EXCEPT ![m] = r]
      BY <1>3
    <2>3. /\ wire' = Append(wire, m) \/ "writev" \in Faults
          /\ \/ r = "ok" /\ sendEvent' = "added" /\ send_ctx' = m
             \/ /\ sendEvent' = "idle"
                /\ "writev" \in Faults \/ "event_add" \in Faults
      BY <1>0, <2>2 DEF Send
    <2> QED
      BY <1>0, <1>1, <1>3, <2>2, <2>3 DEF SendTypes
  <1> QED
    BY <1>0, <1>2, <1>3 DEF Echo, tapsConnectionSend

(* A receive event hands over all that was read.                           *)
LEMMA AppReceivedEffect ==
    ASSUME EchoInv, PaceInv, AppReceived
    PROVE  /\ conn = "open" /\ conn' = "open"
           /\ UNCHANGED <<sndq, sendReady, sendEvent, send_ctx, minLength>>
           /\ truncVecs' = 0
           /\ current' \in Buffers
           /\ bufFate[current'] = "queued"
           /\ currLength'[current'] \in 0 .. BufLen
           /\ Len(stream') = Len(stream) + currLength'[current']
           /\ \A k \in 0 .. currLength'[current'] - 1 :
                memory'[current'][k] = Len(stream) + 1 + k
  <1>1. PICK how \in ReceiveEvents : BytesReceived(how)
    BY DEF AppReceived
  <1>2. /\ conn = "open" /\ receiveEvent = "added" /\ conn' = conn /\ IInv
        /\ UNCHANGED <<sndq, sendReady, sendEvent, send_ctx, minLength, arrived>>
    BY <1>1 DEF BytesReceived, sendVars, tcpSendVars, EchoInv
  <1>3. /\ ReceiveTypes /\ QueueInv /\ StreamInv
        /\ receive_ctx = rcvq[1] /\ receive_ctx \in Buffers
        /\ currLength[receive_ctx] = receive_off
        /\ Place(rcvq, receive_ctx) = 1
        /\ FreeData = 0
        /\ Len(rcvq) > 0
    BY <1>2, HeadFacts
  <1>4. PICK n \in ReadvResults :
          /\ n > 0
          /\ memory' = ReadInto(receive_ctx, receive_off, n)
          /\ readPos' = readPos + n
          /\ currLength' = [currLength EXCEPT ![receive_ctx] = @ + n]
          /\ \/ ReceivedPartial(1, currLength[receive_ctx] + n)
             \/ Received(1, currLength[receive_ctx] + n)
    BY <1>1, <1>3 DEF BytesReceived
  <1> DEFINE len == currLength[receive_ctx] + n
  <1>5. /\ len \in 1 .. BufLen
        /\ readPos' = Len(stream) + len
        /\ \A i \in 0 .. BufLen - 1 :
             i < len => memory'[receive_ctx][i] = Len(stream) + 1 + i
        /\ currLength'[receive_ctx] = len
    BY <1>2, <1>4, ReadFacts
  <1>6. /\ readPos \in Nat /\ arrived \in Nat /\ Len(stream) \in Nat
        /\ BufLen \in Nat /\ MaxBytes \in Nat /\ arrived <= MaxBytes
        /\ readPos <= arrived
        /\ receive_off = 0
    <2>1. receive_off = 0
      <3>1. receive_off \in Nat
        BY <1>3, QueueFacts
      <3> QED
        BY <1>2, <1>3, <3>1 DEF QueueInv, PaceInv
    <2> QED
      BY <1>3, <2>1, QueueFacts, BoundsAssumption DEF ReceiveTypes
  <1>7. n = LeastOf(arrived - readPos, BufLen - receive_off)
    BY <1>4 DEF ReadvResults
  <1>8. readPos' <= arrived
    BY <1>4, <1>6, <1>7 DEF LeastOf
  <1> HIDE DEF len
  <1>10. ~(len < minLength[rcvq[1]])
    BY <1>3, <1>5, <1>6 DEF PaceInv
  <1>11. PICK event : Deliver(1, len, event) /\ truncVecs' = FreeData
    BY <1>4, <1>10 DEF ReceivedPartial, Received, len
  <1>12. /\ bufFate' = [bufFate EXCEPT ![receive_ctx] = event]
         /\ stream' = stream \o [k \in 1 .. len |-> memory'[receive_ctx][k - 1]]
    BY <1>3, <1>11 DEF Deliver
  <1>13. current' = receive_ctx /\ bufFate[current'] = "queued"
    <2>1. PICK b \in Buffers : /\ bufFate[b] = "queued"
                               /\ bufFate'[b] \in {"received", "receivedPartial"}
                               /\ current' = b
      BY DEF AppReceived
    <2>2. b = receive_ctx
      BY <1>3, <1>12, <2>1 DEF ReceiveTypes
    <2> QED
      BY <2>1, <2>2
  <1>14. \A k \in 0 .. len - 1 : memory'[receive_ctx][k] = Len(stream) + 1 + k
    BY <1>5, <1>6
  <1>15. Len(stream') = Len(stream) + len
    <2> DEFINE row == memory'[receive_ctx]
    <2>1. /\ stream \in Seq(0 .. MaxBytes)
          /\ \A i \in 1 .. Len(stream) : stream[i] = i
          /\ len \in Nat
          /\ Len(stream) + len <= MaxBytes
      BY <1>3, <1>5, <1>6, <1>8, BoundsAssumption DEF ReceiveTypes, StreamInv
    <2>2. \A k \in 0 .. len - 1 : row[k] = Len(stream) + 1 + k
      BY <1>14
    <2>3. stream' = stream \o [k \in 1 .. len |-> row[k - 1]]
      BY <1>12
    <2> HIDE DEF row
    <2> QED
      BY <2>1, <2>2, <2>3, DeliverStream
  <1>16. len \in 0 .. BufLen
    BY <1>5, <1>6
  <1> QED
    BY <1>2, <1>3, <1>5, <1>11, <1>13, <1>14, <1>15, <1>16

(* A send event answers for the last send: nothing is written behind it.   *)
LEMMA AppSentAlone ==
    ASSUME EchoInv, PaceInv, AppSent
    PROVE  /\ Len(sndq) \in 1 .. Len(sndq)
           /\ sndq[Len(sndq)] = send_ctx
           /\ echoOf[send_ctx] \in Buffers
           /\ sndq' = DeleteItem(sndq, Len(sndq))
           /\ sendEvent' = "idle" /\ wire' = wire
  <1>0. /\ SendInv /\ Len(sndq) \in Nat /\ MaxSends \in Nat
        /\ \A i \in 1 .. Len(sndq) : sndq[i] \in Messages
    BY EchoInvFacts
  <1>1. PICK k \in 1 .. Len(sndq) :
          /\ sndq[k] = send_ctx
          /\ echoOf[send_ctx] \in Buffers
          /\ sndq' = DeleteItem(sndq, k)
          /\ ~(k < Len(sndq)) => sendEvent' = "idle" /\ wire' = wire
    BY AppSentEffect
  <1>2. sndq[Len(sndq)] = send_ctx /\ Len(sndq) \in 1 .. Len(sndq)
    BY <1>0, <1>1 DEF AppSent, SendDone, PaceInv
  <1>3. k = Len(sndq)
    BY <1>0, <1>1, <1>2 DEF SendInv, Increasing, Messages
  <1> QED
    BY <1>1, <1>2, <1>3

LEMMA PaceStep ==
    ASSUME ~overlapped', EchoInv, PaceInv, [EchoNext]_echoVars
    PROVE  PaceInv'
  <1>0. /\ SendTypes /\ ReceiveTypes /\ Len(sndq) \in Nat
        /\ BufLen \in Nat /\ readPos \in Nat /\ arrived \in Nat
    BY EchoInvFacts, QueueFacts
  <1>1. CASE Echo
    <2> DEFINE m == sends + 1
    <2>1. /\ conn = "open" /\ sendReady' = TRUE /\ sendEvent # "added"
          /\ \/ sendEvent' = sendEvent
             \/ sndq' = Append(sndq, m) /\ sendEvent' = "added" /\ send_ctx' = m
             \/ sendEvent' = "idle"
      BY <1>1, EchoAlone
    <2>2. /\ handler = "echo" /\ handler' = "more"
          /\ UNCHANGED <<truncVecs, minLength>>
      BY <1>1 DEF Echo, AfterEcho, tapsConnectionSend, receiveVars
    <2>3. m \in Messages
      BY <1>1, EchoEffect
    <2> HIDE DEF m
    <2>4. /\ Len(Append(sndq, m)) = Len(sndq) + 1
          /\ Append(sndq, m)[Len(sndq) + 1] = m
      BY <1>0, <2>3, AppendProperties DEF SendTypes
    <2>5. sendEvent' = "added" => send_ctx' = sndq'[Len(sndq')]
      BY <2>1, <2>4
    <2> QED
      BY <2>1, <2>2, <2>5 DEF PaceInv
  <1>2. CASE ReceiveMore
    <2>1. /\ handler = "more" /\ handler' # "echo"
          /\ UNCHANGED <<truncVecs, sendReady, sndq, sendEvent, send_ctx>>
          /\ conn' = "open" => conn = "open"
      BY <1>2 DEF ReceiveMore, tapsConnectionReceive, sendVars, socketVars,
                  tcpSendVars, receiveVars, vars, tcpVars
    <2>2. \A b \in Buffers : minLength'[b] = 0
      <3>1. \/ minLength' = minLength
            \/ minLength' = [minLength EXCEPT ![recvs + 1] = 0]
        BY <1>2 DEF ReceiveMore, tapsConnectionReceive, vars, receiveVars
      <3> QED
        BY <1>0, <3>1 DEF PaceInv, ReceiveTypes
    <2> QED
      BY <2>1, <2>2 DEF PaceInv
  <1>3. CASE AppReceived
    <2>1. /\ conn = "open" /\ conn' = "open"
          /\ UNCHANGED <<sndq, sendReady, sendEvent, send_ctx, minLength>>
          /\ truncVecs' = 0
      BY <1>3, AppReceivedEffect
    <2> QED
      BY <1>0, <2>1 DEF PaceInv
  <1>4. CASE AppSent
    <2>1. sendEvent' = "idle"
      BY <1>4, AppSentAlone
    <2>2. /\ conn = "open" /\ handler' = handler /\ handler = "none"
          /\ UNCHANGED <<truncVecs, minLength>>
          /\ sendReady' = sendReady \/ sendReady' = TRUE
      BY <1>4 DEF AppSent, SendDone, SendCommon, receiveVars
    <2>3. sendReady' = TRUE
      BY <2>2, Zenon DEF PaceInv
    <2> QED
      BY <2>1, <2>2, <2>3 DEF PaceInv
  <1>5. CASE AppNothing \/ EchoPeer \/ UNCHANGED echoVars
    <2>1. UNCHANGED <<truncVecs, minLength, sendReady, sndq, conn, sendEvent, send_ctx>>
      BY <1>5 DEF AppNothing, NothingReceived, EchoPeer, Peer, echoVars, sendVars,
                  receiveVars, tcpSendVars, vars, tcpVars
    <2> QED
      BY <2>1 DEF PaceInv
  <1>6. CASE AppClosed
    <2>1. conn' = "closed" /\ UNCHANGED <<truncVecs, minLength, sendReady>>
      BY <1>6 DEF AppClosed, Closed, sendVars, receiveVars
    <2> QED
      BY <2>1 DEF PaceInv
  <1>7. CASE AppFree
    <2>1. conn' = "freed" /\ UNCHANGED <<truncVecs, minLength, sendReady>>
      BY <1>7, EchoAssumption DEF AppFree, tapsConnectionFree
    <2> QED
      BY <2>1 DEF PaceInv
  <1> QED
    BY <1>1, <1>2, <1>3, <1>4, <1>5, <1>6, <1>7 DEF EchoNext

(* Once a send has overlapped another, the history says so for ever.       *)
LEMMA OverlapStays ==
    ASSUME [EchoNext]_echoVars, ~overlapped'
    PROVE  ~overlapped
  BY DEF EchoNext, Echo, ReceiveMore, AppReceived, AppSent, AppNothing,
         AppClosed, AppFree, EchoPeer, echoVars, history

LEMMA PaceInit == EchoInit => PaceInv
  BY EmptySeq, BoundsAssumption DEF EchoInit, Init, TcpInit, PaceInv

-----------------------------------------------------------------------------
(* Who frees what *)

Unfreed(b) == frees[b] = 0 /\ structFrees[b] = 0

(* A buffer with no receive event yet and the one its callback is working  *)
(* on are not freed; the ones queued to be sent have had their event.      *)
AliveInv ==
    /\ \A b \in Buffers : Untouched(b) => Unfreed(b)
    /\ handler = "echo" => Unfreed(current)
    /\ \A i \in 1 .. Len(sndq) : ~Untouched(echoOf[sndq[i]])

(* Adding one to the frees of b alone.                                     *)
BumpedAt(b) ==
    \A c \in Buffers \ {b} : frees'[c] = frees[c] /\ structFrees'[c] = structFrees[c]

(* What is freed has had its event, so the buffers that have had none stay *)
(* unfreed.                                                                *)
LEMMA UntouchedStay ==
    ASSUME AliveInv, BufFatesKept, NEW b \in Buffers, ~Untouched(b), BumpedAt(b)
    PROVE  \A c \in Buffers : Untouched(c)' => Unfreed(c)'
  BY DEF AliveInv, Untouched, Unfreed, BufFatesKept, BumpedAt

LEMMA AliveStep ==
    ASSUME EchoInv, PaceInv, AliveInv, BufFatesKept, [EchoNext]_echoVars
    PROVE  AliveInv'
  <1>0. /\ AppTypes /\ ShapeInv /\ ReceiveTypes /\ SendTypes /\ BufFateInv
        /\ Len(sndq) \in Nat
    BY EchoInvFacts DEF EchoInv
  <1>a. \A b \in Buffers : ~Untouched(b) => bufFate'[b] \notin {"none", "queued"}
    BY DEF Untouched, BufFatesKept
  <1>b. \A i \in 1 .. Len(sndq) :
          bufFate'[echoOf[sndq[i]]] \notin {"none", "queued"}
    BY <1>0, <1>a DEF ShapeInv, AliveInv
  <1>1. CASE Echo
    <2> DEFINE m == sends + 1
    <2>1. /\ current \in Buffers /\ m \in Messages
          /\ echoOf'[m] = current
          /\ \A i \in 1 .. Len(sndq) : echoOf'[sndq[i]] = echoOf[sndq[i]]
          /\ sndq' = sndq \/ sndq' = Append(sndq, m)
      BY <1>1, EchoEffect
    <2>2. /\ frees' = EchoFrees(frees, m) /\ structFrees' = EchoFrees(structFrees, m)
          /\ handler = "echo" /\ handler' = "more"
      BY <1>1 DEF Echo, AfterEcho
    <2>3. ~Untouched(current)
      BY <1>0, <2>2 DEF ShapeInv
    <2> HIDE DEF m
    <2>4. BumpedAt(current)
      BY <1>0, <2>1, <2>2 DEF EchoFrees, Bump, AppTypes, BumpedAt
    <2>5. \A c \in Buffers : Untouched(c)' => Unfreed(c)'
      BY <2>1, <2>3, <2>4, UntouchedStay
    <2>6. \A i \in 1 .. Len(sndq') : bufFate'[echoOf'[sndq'[i]]] \notin {"none", "queued"}
      <3>1. \A i \in 1 .. Len(sndq) : bufFate'[echoOf'[sndq[i]]] \notin {"none", "queued"}
        BY <1>b, <2>1
      <3>2. CASE sndq' = sndq
        BY <3>1, <3>2
      <3>3. CASE sndq' = Append(sndq, m)
        <4>1. /\ Len(sndq') = Len(sndq) + 1
              /\ sndq'[Len(sndq) + 1] = m
              /\ \A i \in 1 .. Len(sndq) : sndq'[i] = sndq[i]
          BY <1>0, <2>1, <3>3, AppendProperties DEF SendTypes
        <4>2. bufFate'[echoOf'[m]] \notin {"none", "queued"}
          BY <1>a, <2>1, <2>3
        <4> QED
          BY <1>0, <3>1, <4>1, <4>2
      <3> QED
        BY <2>1, <3>2, <3>3
    <2> QED
      BY <2>2, <2>5, <2>6 DEF AliveInv, Untouched
  <1>2. CASE ReceiveMore \/ AppNothing \/ AppClosed \/ EchoPeer \/ UNCHANGED echoVars
    <2>1. /\ UNCHANGED <<current, echoOf, frees, structFrees, sndq>>
          /\ handler' = "echo" => handler = "echo"
      BY <1>2 DEF ReceiveMore, AppNothing, AppClosed, AfterClosed, EchoPeer, echoVars,
           appVars, tapsConnectionReceive, NothingReceived, Closed, Peer, sendVars, vars
    <2> QED
      BY <1>a, <1>b, <2>1 DEF AliveInv, Unfreed, Untouched
  <1>3. CASE AppReceived
    <2>1. sndq' = sndq /\ current' \in Buffers /\ bufFate[current'] = "queued"
      BY <1>3, AppReceivedEffect
    <2>2. UNCHANGED <<frees, structFrees, echoOf>>
      BY <1>3 DEF AppReceived
    <2>3. Unfreed(current')
      BY <2>1 DEF AliveInv, Untouched
    <2> QED
      BY <1>a, <1>b, <2>1, <2>2, <2>3 DEF AliveInv, Unfreed, Untouched
  <1>4. CASE AppSent
    <2> DEFINE b == echoOf[send_ctx]
    <2>1. PICK k \in 1 .. Len(sndq) :
            /\ sndq[k] = send_ctx
            /\ b \in Buffers
            /\ sndq' = DeleteItem(sndq, k)
      BY <1>4, AppSentEffect
    <2>2. ~Untouched(b)
      BY <2>1 DEF AliveInv
    <2>3. /\ handler' = "none" /\ echoOf' = echoOf
          /\ frees' = Bump(frees, b)
          /\ structFrees' = structFrees \/ structFrees' = Bump(structFrees, b)
      BY <1>4 DEF AppSent
    <2>4. \A i \in 1 .. Len(sndq') : \E j \in 1 .. Len(sndq) : sndq'[i] = sndq[j]
      <3>1. MaxSends \in Nat /\ sndq \in Seq(1 .. MaxSends) /\ Increasing(sndq)
        BY EchoInvFacts DEF SendTypes, SendInv, Messages
      <3>2. \A i \in 1 .. Len(DeleteItem(sndq, k)) :
              /\ DeleteItem(sndq, k)[i] # sndq[k]
              /\ \E j \in 1 .. Len(sndq) : DeleteItem(sndq, k)[i] = sndq[j]
        BY <3>1, OthersStay
      <3> QED
        BY <2>1, <3>2
    <2> HIDE DEF b
    <2>5. BumpedAt(b)
      BY <1>0, <2>1, <2>3 DEF Bump, AppTypes, BumpedAt
    <2>6. \A c \in Buffers : Untouched(c)' => Unfreed(c)'
      BY <2>1, <2>2, <2>5, UntouchedStay
    <2>7. \A i \in 1 .. Len(sndq') : bufFate'[echoOf'[sndq'[i]]] \notin {"none", "queued"}
      BY <1>b, <2>3, <2>4
    <2> QED
      BY <2>3, <2>6, <2>7 DEF AliveInv, Untouched
  <1>5. CASE AppFree
    <2>1. /\ handler' = "none"
          /\ frees' = [b \in Buffers |->
                IF \E m \in Messages : IsItem(sndq, m) /\ echoOf[m] = b
                THEN frees[b] + 1 ELSE frees[b]]
          /\ structFrees' = [b \in Buffers |->
                IF IsItem(rcvq, b) THEN structFrees[b] + 1 ELSE structFrees[b]]
          /\ bufFate' = [b \in Buffers |->
                IF IsItem(rcvq, b) THEN "receiveError" ELSE bufFate[b]]
          /\ sndq' = <<>>
      BY <1>5, EchoAssumption DEF AppFree, tapsConnectionFree
    <2>2. DOMAIN sndq = 1 .. Len(sndq) /\ Len(sndq') = 0
      BY <1>0, <2>1, LenProperties, EmptySeq DEF SendTypes
    <2>3. \A b \in Buffers : \A m \in Messages :
            IsItem(sndq, m) /\ echoOf[m] = b => ~Untouched(b)
      BY <2>2 DEF IsItem, AliveInv
    <2>4. \A b \in Buffers : Untouched(b)' => Untouched(b) /\ ~IsItem(rcvq, b)
      BY <1>a, <2>1 DEF Untouched
    <2>5. \A b \in Buffers : Untouched(b)' => Unfreed(b)'
      BY <2>1, <2>3, <2>4 DEF AliveInv, Unfreed
    <2> QED
      BY <2>1, <2>2, <2>5 DEF AliveInv
  <1> QED
    BY <1>1, <1>2, <1>3, <1>4, <1>5 DEF EchoNext

LEMMA AliveInit == EchoInit => AliveInv
  BY EmptySeq DEF EchoInit, Init, AliveInv, Unfreed

(* Without a failing writev or event_add there is at most one send at a    *)
(* time, it is not freed, and no part is freed twice.                      *)
OwnInv ==
    /\ Len(sndq) <= 1
    /\ conn = "open" /\ sendEvent # "added" => sndq = <<>>
    /\ \A i \in 1 .. Len(sndq) : Unfreed(echoOf[sndq[i]])
    /\ \A b \in Buffers : frees[b] <= 1 /\ structFrees[b] <= 1

LEMMA OwnStep ==
    ASSUME "writev" \notin Faults, "event_add" \notin Faults, ~overlapped',
           EchoInv, PaceInv, AliveInv, OwnInv, [EchoNext]_echoVars
    PROVE  OwnInv'
  <1>0. /\ AppTypes /\ ReceiveTypes /\ SendTypes /\ BufFateInv
        /\ Len(sndq) \in Nat
    BY EchoInvFacts DEF EchoInv
  <1>1. CASE Echo
    <2> DEFINE m == sends + 1
    <2>1. /\ current \in Buffers /\ m \in Messages
          /\ echoOf'[m] = current
      BY <1>1, EchoEffect
    <2>2. /\ conn = "open" /\ sendEvent # "added"
          /\ \/ /\ ret'[m] = "err" /\ sndq' = sndq
             \/ /\ ret'[m] = "ok" /\ sndq' = Append(sndq, m)
                /\ sendEvent' = "added"
      BY <1>1, EchoAlone
    <2>3. sndq = <<>>
      BY <2>2 DEF OwnInv
    <2>4. /\ frees' = EchoFrees(frees, m) /\ structFrees' = EchoFrees(structFrees, m)
          /\ handler = "echo"
      BY <1>1 DEF Echo
    <2>5. Unfreed(current)
      BY <2>4 DEF AliveInv
    <2> HIDE DEF m
    <2>6. CASE ret'[m] = "err" /\ sndq' = sndq
      <3>1. \A c \in Buffers :
              /\ frees'[c] = IF c = current THEN frees[c] + 1 ELSE frees[c]
              /\ structFrees'[c] = IF c = current THEN structFrees[c] + 1 ELSE structFrees[c]
        BY <1>0, <2>1, <2>4, <2>6 DEF EchoFrees, Bump, AppTypes
      <3>2. sndq' = <<>> /\ Len(sndq') = 0
        BY <2>3, <2>6, EmptySeq
      <3>3. \A c \in Buffers : frees'[c] <= 1 /\ structFrees'[c] <= 1
        BY <2>5, <3>1 DEF OwnInv, Unfreed
      <3> QED
        BY <3>2, <3>3 DEF OwnInv
    <2>7. CASE ret'[m] = "ok" /\ sndq' = Append(sndq, m) /\ sendEvent' = "added"
      <3>1. frees' = frees /\ structFrees' = structFrees
        BY <2>4, <2>7 DEF EchoFrees
      <3>2. sndq' = <<m>>
        BY <2>3, <2>7
      <3>3. Len(sndq') = 1 /\ \A i \in 1 .. Len(sndq') : sndq'[i] = m
        BY <3>2
      <3> QED
        BY <2>1, <2>5, <2>7, <3>1, <3>3 DEF OwnInv, Unfreed
    <2> QED
      BY <2>2, <2>6, <2>7
  <1>2. CASE ReceiveMore \/ AppReceived \/ AppNothing \/ EchoPeer \/ UNCHANGED echoVars
    <2>1. /\ UNCHANGED <<echoOf, frees, structFrees, sndq, sendEvent>>
          /\ conn' = "open" => conn = "open"
      <3>1. CASE ReceiveMore
        BY <3>1 DEF ReceiveMore, tapsConnectionReceive, sendVars, tcpSendVars, vars, tcpVars
      <3>2. CASE AppReceived
        BY <3>2 DEF AppReceived, BytesReceived, sendVars, tcpSendVars
      <3>3. CASE AppNothing
        BY <3>3 DEF AppNothing, NothingReceived, appVars, sendVars, tcpSendVars
      <3>4. CASE EchoPeer \/ UNCHANGED echoVars
        BY <3>4 DEF EchoPeer, Peer, echoVars, appVars, sendVars, tcpSendVars, vars, tcpVars
      <3> QED
        BY <1>2, <3>1, <3>2, <3>3, <3>4
    <2> QED
      BY <2>1 DEF OwnInv, Unfreed
  <1>3. CASE AppClosed
    <2>1. conn' = "closed" /\ UNCHANGED <<echoOf, frees, structFrees, sndq>>
      BY <1>3 DEF AppClosed, Closed, sendVars
    <2> QED
      BY <2>1 DEF OwnInv, Unfreed
  <1>4. CASE AppSent
    <2> DEFINE b == echoOf[send_ctx]
    <2>1. /\ Len(sndq) \in 1 .. Len(sndq)
          /\ sndq[Len(sndq)] = send_ctx
          /\ b \in Buffers
          /\ sndq' = DeleteItem(sndq, Len(sndq))
      BY <1>4, AppSentAlone
    <2>2. Unfreed(b)
      BY <2>1 DEF OwnInv
    <2>3. sndq' = <<>> /\ Len(sndq') = 0
      <3> DEFINE k == Len(sndq)
      <3>1. k \in 1 .. Len(sndq)
        BY <2>1
      <3> HIDE DEF k
      <3>2. DeleteItem(sndq, k) \in Seq(Messages) /\ Len(DeleteItem(sndq, k)) = Len(sndq) - 1
        BY <1>0, <3>1, DeleteItemSeq DEF SendTypes
      <3>3. Len(sndq) = 1
        <4>1. Len(sndq) <= 1
          BY DEF OwnInv
        <4> QED
          BY <1>0, <2>1, <4>1
      <3> QED
        BY <2>1, <3>2, <3>3, EmptySeq DEF k
    <2>4. /\ frees' = Bump(frees, b)
          /\ structFrees' = structFrees \/ structFrees' = Bump(structFrees, b)
      BY <1>4 DEF AppSent
    <2> HIDE DEF b
    <2>5. \A c \in Buffers :
            /\ frees'[c] = IF c = b THEN frees[c] + 1 ELSE frees[c]
            /\ c # b => structFrees'[c] = structFrees[c]
            /\ structFrees'[b] = structFrees[b] \/ structFrees'[b] = structFrees[b] + 1
      BY <1>0, <2>1, <2>4 DEF Bump, AppTypes
    <2>6. \A c \in Buffers : frees'[c] <= 1 /\ structFrees'[c] <= 1
      BY <2>1, <2>2, <2>5 DEF OwnInv, Unfreed
    <2> QED
      BY <2>3, <2>6 DEF OwnInv
  <1>5. CASE AppFree
    <2>1. /\ frees' = [b \in Buffers |->
                IF \E m \in Messages : IsItem(sndq, m) /\ echoOf[m] = b
                THEN frees[b] + 1 ELSE frees[b]]
          /\ structFrees' = [b \in Buffers |->
                IF IsItem(rcvq, b) THEN structFrees[b] + 1 ELSE structFrees[b]]
          /\ sndq' = <<>>
      BY <1>5, EchoAssumption DEF AppFree, tapsConnectionFree
    <2>2. DOMAIN sndq = 1 .. Len(sndq) /\ DOMAIN rcvq = 1 .. Len(rcvq) /\ Len(sndq') = 0
      BY <1>0, <2>1, LenProperties, EmptySeq DEF SendTypes, ReceiveTypes
    <2>3. \A b \in Buffers : \A m \in Messages :
            IsItem(sndq, m) /\ echoOf[m] = b => Unfreed(b)
      BY <2>2 DEF IsItem, OwnInv
    <2>4. \A b \in Buffers : IsItem(rcvq, b) => Unfreed(b)
      BY <1>0, <2>2 DEF IsItem, AliveInv, BufFateInv, Untouched
    <2>5. \A b \in Buffers : frees'[b] <= 1 /\ structFrees'[b] <= 1
      BY <1>0, <2>1, <2>3, <2>4 DEF OwnInv, Unfreed, AppTypes
    <2> QED
      BY <2>1, <2>2, <2>5 DEF OwnInv
  <1> QED
    BY <1>1, <1>2, <1>3, <1>4, <1>5 DEF EchoNext

LEMMA OwnInit == EchoInit => OwnInv
  BY EmptySeq DEF EchoInit, Init, OwnInv, Unfreed

(* However the peer times what it sends, and unless writev or event_add    *)
(* fails, the echo server frees nothing that TAPS still has on a queue and *)
(* nothing twice, on any path (sent, expired, refused for want of memory,  *)
(* closed with a send and receives queued), before a send of its own finds *)
(* the event of another one pending.                                       *)
THEOREM MessagesAlwaysOwned ==
    ASSUME "writev" \notin Faults, "event_add" \notin Faults
    PROVE  EchoSpec => []MessagesOwned
  <1> DEFINE Inv == EchoInv /\ (~overlapped => PaceInv /\ AliveInv /\ OwnInv)
  <1>1. EchoInit => Inv
    BY EchoInitInv, PaceInit, AliveInit, OwnInit
  <1>2. Inv /\ [EchoNext]_echoVars => Inv'
    <2> SUFFICES ASSUME Inv, [EchoNext]_echoVars PROVE Inv'
      OBVIOUS
    <2>1. EchoInv' /\ BufFatesKept
      BY EchoNextInv
    <2>2. ASSUME ~overlapped' PROVE PaceInv' /\ AliveInv' /\ OwnInv'
      <3>1. EchoInv /\ PaceInv /\ AliveInv /\ OwnInv
        BY <2>2, OverlapStays
      <3> QED
        BY <2>1, <2>2, <3>1, PaceStep, AliveStep, OwnStep
    <2> QED
      BY <2>1, <2>2
  <1>3. Inv => MessagesOwned
    <2> SUFFICES ASSUME Inv, ~overlapped PROVE MessagesOwned
      BY DEF MessagesOwned
    <2>1. SendTypes /\ ReceiveTypes /\ BufFateInv
      BY EchoInvFacts
    <2>2. /\ DOMAIN sndq = 1 .. Len(sndq)
          /\ DOMAIN rcvq = 1 .. Len(rcvq)
          /\ \A i \in 1 .. Len(rcvq) : rcvq[i] \in Buffers /\ Untouched(rcvq[i])
      BY <2>1, LenProperties, ElementOfSeq
         DEF SendTypes, ReceiveTypes, BufFateInv, Untouched
    <2> QED
      BY <2>2 DEF MessagesOwned, AliveInv, OwnInv, Unfreed
  <1> HIDE DEF Inv
  <1> QED
    BY <1>1, <1>2, <1>3, PTL DEF EchoSpec

-----------------------------------------------------------------------------
(* What is echoed *)

(* How far the callbacks that have ended have come in the stream.          *)
Echoable == Len(stream) - (IF handler = "echo" THEN currLength[current] ELSE 0)

(* The echo is an ordered part of the stream up to there, all of it unless *)
(* something went wrong, and the buffer a callback is working on holds     *)
(* what follows.                                                           *)
FaithInv ==
    /\ Echoable >= 0
    /\ handler = "echo" =>
         \A k \in 0 .. currLength[current] - 1 :
            memory[current][k] = Echoable + 1 + k
    /\ \A i \in 1 .. Len(echoed) : 1 <= echoed[i] /\ echoed[i] <= Echoable
    /\ \A i, j \in 1 .. Len(echoed) : i < j => echoed[i] < echoed[j]
    /\ ~outOfMemory /\ ~shortWrite =>
         Len(echoed) = Echoable /\ \A i \in 1 .. Len(echoed) : echoed[i] = i

LEMMA FaithEcho ==
    ASSUME "writev" \notin Faults, ~overlapped',
           EchoInv, PaceInv, AliveInv, FaithInv, Echo
    PROVE  FaithInv'
  <1> DEFINE m == sends + 1
             n == currLength[current]
             e == Len(echoed)
  <1>0. /\ AppTypes /\ ReceiveTypes /\ BufLen \in Nat
        /\ Len(stream) \in Nat /\ e \in Nat
        /\ \A i \in 1 .. e : echoed[i] \in Nat
    <2>1. AppTypes /\ ReceiveTypes /\ BufLen \in Nat /\ MaxBytes \in Nat
      BY EchoInvFacts DEF EchoInv
    <2>2. echoed \in Seq(0 .. MaxBytes)
      BY <2>1 DEF AppTypes
    <2>3. e \in Nat /\ \A i \in 1 .. e : echoed[i] \in 0 .. MaxBytes
      BY <2>2, LenProperties, ElementOfSeq
    <2>4. Len(stream) \in Nat
      BY <2>1, QueueFacts
    <2> HIDE DEF e
    <2> QED
      BY <2>1, <2>3, <2>4
  <1>1. /\ current \in Buffers /\ m \in Messages
        /\ n \in 0 .. BufLen
        /\ message'[current] = Cut(current, n)
        /\ echoOf'[m] = current
        /\ wire' # wire => wire'[Len(wire')] = m
    BY EchoEffect
  <1>2. /\ handler = "echo" /\ handler' = "more"
        /\ UNCHANGED <<stream, currLength, memory>>
        /\ outOfMemory' = (outOfMemory \/ msgFate'[m] = "refused")
        /\ Written
    BY DEF Echo, AfterEcho, tapsConnectionSend, receiveVars, socketVars
  <1>3. \/ msgFate'[m] = "refused" /\ wire' = wire
        \/ msgFate'[m] = "queued" /\ wire' # wire
    BY EchoAlone
  <1> HIDE DEF m, n, e
  <1>4. /\ Echoable = Len(stream) - n /\ Echoable' = Len(stream)
        /\ Echoable \in Nat /\ Echoable' = Echoable + n /\ n \in Nat
        /\ \A k \in 0 .. n - 1 : memory[current][k] = Echoable + 1 + k
    <2>1. Echoable = Len(stream) - n /\ Echoable' = Len(stream)
      BY <1>2 DEF Echoable, n
    <2>2. Echoable >= 0 /\ \A k \in 0 .. n - 1 : memory[current][k] = Echoable + 1 + k
      BY <1>2 DEF FaithInv, n
    <2> QED
      BY <1>0, <1>1, <2>1, <2>2
  <1>5. /\ \A i \in 1 .. e : 1 <= echoed[i] /\ echoed[i] <= Echoable
        /\ \A i, j \in 1 .. e : i < j => echoed[i] < echoed[j]
        /\ ~outOfMemory /\ ~shortWrite => e = Echoable /\ \A i \in 1 .. e : echoed[i] = i
    BY DEF FaithInv, e
  <1>6. CASE msgFate'[m] = "refused" /\ wire' = wire
    <2>1. echoed' = echoed /\ outOfMemory'
      BY <1>2, <1>6 DEF Written
    <2>2. \A i \in 1 .. Len(echoed') : 1 <= echoed'[i] /\ echoed'[i] <= Echoable'
      BY <1>0, <1>4, <1>5, <2>1 DEF e
    <2>3. Echoable' >= 0
      BY <1>4
    <2> QED
      BY <1>2, <1>5, <2>1, <2>2, <2>3 DEF FaithInv, e
  <1>7. CASE msgFate'[m] = "queued" /\ wire' # wire
    <2>1. frees[current] + structFrees[current] = 0
      BY <1>2 DEF AliveInv, Unfreed
    <2>2. echoOf'[wire'[Len(wire')]] = current
      BY <1>1, <1>7
    <2>3. PICK taken \in 0 .. n :
            /\ echoed' \in Seq(0 .. MaxBytes)
            /\ Len(echoed') = Len(echoed) + taken
            /\ \A i \in 1 .. Len(echoed) : echoed'[i] = echoed[i]
            /\ \A k \in 1 .. taken :
                 echoed'[Len(echoed) + k] =
                     IF frees[current] + structFrees[current] > 0 THEN 0
                     ELSE memory[current][k - 1]
            /\ shortWrite' = (shortWrite \/ taken < n)
      BY <1>0, <1>1, <1>2, <1>7, <2>2, WrittenEffect
    <2>4. /\ Len(echoed') = e + taken
          /\ \A i \in 1 .. e : echoed'[i] = echoed[i]
          /\ \A i \in e + 1 .. e + taken : echoed'[i] = Echoable + (i - e)
      <3>1. \A k \in 1 .. taken : echoed'[e + k] = Echoable + k
        <4> SUFFICES ASSUME NEW k \in 1 .. taken
                     PROVE  echoed'[e + k] = Echoable + k
          OBVIOUS
        <4>1. k - 1 \in 0 .. n - 1 /\ taken \in Nat
          BY <1>4, <2>3
        <4>2. memory[current][k - 1] = Echoable + 1 + (k - 1)
          BY <1>4, <4>1
        <4>3. echoed'[e + k] = memory[current][k - 1]
          <5>1. echoed'[Len(echoed) + k] =
                  IF frees[current] + structFrees[current] > 0 THEN 0
                  ELSE memory[current][k - 1]
            BY <2>3
          <5> QED
            BY <2>1, <5>1 DEF e
        <4> QED
          BY <1>4, <4>1, <4>2, <4>3
      <3>2. \A i \in e + 1 .. e + taken : i - e \in 1 .. taken /\ e + (i - e) = i
        BY <1>0, <1>4, <2>3
      <3>3. \A i \in e + 1 .. e + taken : echoed'[i] = Echoable + (i - e)
        BY <3>1, <3>2
      <3> QED
        BY <2>3, <3>3 DEF e
    <2>5. \A i \in 1 .. e + taken : 1 <= echoed'[i] /\ echoed'[i] <= Echoable'
      <3> SUFFICES ASSUME NEW i \in 1 .. e + taken
                   PROVE  1 <= echoed'[i] /\ echoed'[i] <= Echoable'
        OBVIOUS
      <3>1. CASE i \in 1 .. e
        <4>1. echoed'[i] = echoed[i] /\ 1 <= echoed[i] /\ echoed[i] <= Echoable
              /\ echoed[i] \in Nat
          BY <1>0, <1>5, <2>4, <3>1
        <4>2. Echoable <= Echoable'
          BY <1>4
        <4>3. Echoable' \in Nat
          BY <1>4
        <4> QED
          BY <1>4, <4>1, <4>2, <4>3
      <3>2. CASE i \in e + 1 .. e + taken
        <4>1. echoed'[i] = Echoable + (i - e)
          BY <2>4, <3>2
        <4>2. 1 <= i - e /\ i - e <= n
          BY <1>0, <1>4, <2>3, <3>2
        <4> QED
          BY <1>0, <1>4, <3>2, <4>1, <4>2
      <3> QED
        BY <1>0, <2>3, <3>1, <3>2
    <2>6. \A i, j \in 1 .. e + taken : i < j => echoed'[i] < echoed'[j]
      <3> SUFFICES ASSUME NEW i \in 1 .. e + taken, NEW j \in 1 .. e + taken, i < j
                   PROVE  echoed'[i] < echoed'[j]
        OBVIOUS
      <3>1. CASE j \in 1 .. e
        <4>1. i \in 1 .. e
          BY <1>0, <3>1
        <4> QED
          BY <1>5, <2>4, <3>1, <4>1
      <3>2. CASE i \in 1 .. e /\ j \in e + 1 .. e + taken
        <4>1. echoed'[i] = echoed[i] /\ echoed[i] <= Echoable /\ echoed[i] \in Nat
          BY <1>0, <1>5, <2>4, <3>2
        <4>2. echoed'[j] = Echoable + (j - e) /\ j - e >= 1 /\ j - e \in Nat
          BY <1>0, <2>3, <2>4, <3>2
        <4> QED
          BY <1>4, <4>1, <4>2
      <3>3. CASE i \in e + 1 .. e + taken /\ j \in e + 1 .. e + taken
        BY <1>0, <1>4, <2>3, <2>4, <3>3
      <3> QED
        BY <1>0, <2>3, <3>1, <3>2, <3>3
    <2>7. ASSUME ~outOfMemory', ~shortWrite'
          PROVE  e + taken = Echoable' /\ \A i \in 1 .. e + taken : echoed'[i] = i
      <3>1. ~outOfMemory /\ ~shortWrite /\ ~(taken < n)
        BY <1>2, <2>3, <2>7
      <3>2. taken = n /\ e = Echoable /\ \A i \in 1 .. e : echoed[i] = i
        BY <1>4, <1>5, <2>3, <3>1
      <3>3. \A i \in e + 1 .. e + taken : echoed'[i] = i
        BY <1>0, <1>4, <2>3, <2>4, <3>2
      <3>4. \A i \in 1 .. e + taken : i \in 1 .. e \/ i \in e + 1 .. e + taken
        BY <1>0, <2>3
      <3> QED
        BY <1>4, <2>4, <3>2, <3>3, <3>4
    <2> QED
      BY <1>2, <1>4, <2>4, <2>5, <2>6, <2>7 DEF FaithInv
  <1> QED
    BY <1>3, <1>6, <1>7

LEMMA FaithStep ==
    ASSUME "writev" \notin Faults, ~overlapped',
           EchoInv, PaceInv, AliveInv, FaithInv, [EchoNext]_echoVars
    PROVE  FaithInv'
  <1>0. /\ AppTypes /\ ReceiveTypes /\ Len(sndq) \in Nat /\ BufLen \in Nat
        /\ Len(stream) \in Nat
    BY EchoInvFacts, QueueFacts DEF EchoInv
  <1>1. CASE Echo
    BY <1>1, FaithEcho
  <1>2. CASE AppReceived
    <2>1. /\ currLength'[current'] \in 0 .. BufLen
          /\ Len(stream') = Len(stream) + currLength'[current']
          /\ \A k \in 0 .. currLength'[current'] - 1 :
               memory'[current'][k] = Len(stream) + 1 + k
      BY <1>2, AppReceivedEffect
    <2>2. /\ handler = "none" /\ handler' = "echo"
          /\ UNCHANGED <<echoed, shortWrite, outOfMemory>>
      BY <1>2 DEF AppReceived, history
    <2>3. Echoable = Len(stream) /\ Echoable' = Len(stream)
      BY <1>0, <2>1, <2>2 DEF Echoable
    <2> QED
      BY <2>1, <2>2, <2>3 DEF FaithInv
  <1>3. CASE AppSent
    <2>2. wire' = wire
      BY <1>3, AppSentAlone
    <2>3. /\ handler' = "none" /\ handler = "none"
          /\ UNCHANGED <<echoed, shortWrite, outOfMemory, stream>>
      BY <1>3, <2>2 DEF AppSent, Written, SendDone, receiveVars
    <2>4. Echoable' = Echoable
      BY <2>3 DEF Echoable
    <2> QED
      BY <2>3, <2>4 DEF FaithInv
  <1>4. CASE ReceiveMore \/ AppNothing \/ AppClosed \/ AppFree
    <2>1. /\ UNCHANGED <<echoed, shortWrite, stream>>
          /\ handler # "echo" /\ handler' # "echo"
          /\ ~outOfMemory' => ~outOfMemory
      <3>1. CASE ReceiveMore
        BY <3>1 DEF ReceiveMore, tapsConnectionReceive, receiveVars, vars
      <3>2. CASE AppNothing
        BY <3>2 DEF AppNothing, NothingReceived, appVars, history
      <3>3. CASE AppClosed
        BY <3>3 DEF AppClosed, AfterClosed, Closed, receiveVars, history
      <3>4. CASE AppFree
        BY <3>4 DEF AppFree, tapsConnectionFree, history
      <3> QED
        BY <1>4, <3>1, <3>2, <3>3, <3>4
    <2>2. Echoable' = Echoable
      BY <2>1 DEF Echoable
    <2> QED
      BY <2>1, <2>2 DEF FaithInv
  <1>5. CASE EchoPeer \/ UNCHANGED echoVars
    <2>1. UNCHANGED <<echoed, shortWrite, outOfMemory, stream, handler, current,
                      currLength, memory>>
      BY <1>5 DEF EchoPeer, Peer, PeerSend, PeerClose, echoVars, appVars, history,
                  receiveVars, vars, tcpVars, socketVars
    <2>2. Echoable' = Echoable
      BY <2>1 DEF Echoable
    <2> QED
      BY <2>1, <2>2 DEF FaithInv
  <1> QED
    BY <1>1, <1>2, <1>3, <1>4, <1>5 DEF EchoNext

LEMMA FaithInit == EchoInit => FaithInv
  BY EmptySeq DEF EchoInit, Init, FaithInv, Echoable

(* However the peer times and cuts what it sends, and unless writev fails, *)
(* what goes back is the peer's bytes in order, never memory that was      *)
(* given back, and none is missing on the way unless an allocation failed  *)
(* or a write was short, for any number of bytes and any buffer, before a  *)
(* send of the server finds the event of another one pending.              *)
THEOREM EchoAlwaysFaithful ==
    ASSUME "writev" \notin Faults
    PROVE  EchoSpec => []EchoFaithful
  <1> DEFINE Inv == EchoInv /\ (~overlapped => PaceInv /\ AliveInv /\ FaithInv)
  <1>1. EchoInit => Inv
    BY EchoInitInv, PaceInit, AliveInit, FaithInit
  <1>2. Inv /\ [EchoNext]_echoVars => Inv'
    <2> SUFFICES ASSUME Inv, [EchoNext]_echoVars PROVE Inv'
      OBVIOUS
    <2>1. EchoInv' /\ BufFatesKept
      BY EchoNextInv
    <2>2. ASSUME ~overlapped' PROVE PaceInv' /\ AliveInv' /\ FaithInv'
      <3>1. EchoInv /\ PaceInv /\ AliveInv /\ FaithInv
        BY <2>2, OverlapStays
      <3> QED
        BY <2>1, <2>2, <3>1, PaceStep, AliveStep, FaithStep
    <2> QED
      BY <2>1, <2>2
  <1>3. Inv => EchoFaithful
    <2> SUFFICES ASSUME Inv, ~overlapped PROVE EchoesPeer
      BY DEF EchoFaithful
    <2>1. DOMAIN echoed = 1 .. Len(echoed)
      BY LenProperties DEF EchoInv, AppTypes
    <2>2. \A i \in 1 .. Len(echoed) : echoed[i] # 0
      BY DEF FaithInv
    <2> QED
      BY <2>1, <2>2 DEF EchoesPeer, FaithInv
  <1> HIDE DEF Inv
  <1> QED
    BY <1>1, <1>2, <1>3, PTL DEF EchoSpec
=============================================================================
