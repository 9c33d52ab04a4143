--------------------------- MODULE MessageBuffers ---------------------------
(***************************************************************************)
(* The life of one message of several buffers: the application may         *)
(* truncate it, receives into it with a minimum length that can take       *)
(* several reads (_taps_received_partial hands the protocol the unfilled   *)
(* rest each time), and echoes it: truncate to the bytes received, then    *)
(* send.  tapsMessageNew makes messages of one buffer only; the struct and *)
(* every function that walks it provide for more.                          *)
(*                                                                         *)
(* As in TcpConnection a byte is its position in the peer's stream, and 0  *)
(* is memory never written.                                                *)
(***************************************************************************)
EXTENDS Iovec

CONSTANTS
    BufLens,         \* lengths a buffer may have
    MaxBufs,         \* bound: buffers of a message
    MinLengths,      \* minIncompleteLength values
    MaxBytes         \* bound: bytes the peer sends

ASSUME BuffersAssumption ==
    /\ BufLens \subseteq Nat
    /\ \E n \in BufLens : \A l \in BufLens : l <= n
    /\ MaxBufs \in Nat \ {0}
    /\ MinLengths \subseteq Nat
    /\ MaxBytes \in Nat

VARIABLES
    message,
    phase,           \* "idle", "receiving", "delivered", "crashed"
    vec,             \* the vector the protocol reads into
    minLength, currLength,
    memory,          \* memory[b, k]: the byte at offset k of buffer b
    readPos,         \* bytes read from the peer
    start,           \* readPos when this receive began
    written          \* the bytes of the last writev

vars == <<message, phase, vec, minLength, currLength, memory, readPos, start,
          written>>

MaxLen == CHOOSE n \in BufLens : \A l \in BufLens : l <= n
AllAddresses == (1 .. MaxBufs) \X (0 .. MaxLen - 1)

Iovecs == [buf : 1 .. MaxBufs, off : 0 .. MaxLen, len : 0 .. MaxLen]

(* Every variable holds a value of its type; the count never exceeds the   *)
(* entries of the list.                                                    *)
TypeOK ==
    /\ message.list \in Seq(Iovecs)
    /\ message.iovcnt \in 0 .. Len(message.list)
    /\ phase \in {"idle", "receiving", "delivered", "crashed"}
    /\ phase # "crashed" => vec \in Seq(Iovecs)
    /\ minLength \in MinLengths \cup {0}
    /\ currLength \in 0 .. MaxBytes
    /\ memory \in [AllAddresses -> 0 .. MaxBytes]
    /\ readPos \in 0 .. MaxBytes
    /\ start \in 0 .. readPos
    /\ written \in Seq(0 .. MaxBytes)

Init ==
    /\ \E n \in 1 .. MaxBufs : \E len \in [1 .. n -> BufLens] :
         message = [list |-> [i \in 1 .. n |-> IovecAt(i, len[i])],
                    iovcnt |-> n]
    /\ phase = "idle"
    /\ vec = <<>>
    /\ minLength = 0 /\ currLength = 0
    /\ memory = [a \in AllAddresses |-> 0]
    /\ readPos = 0 /\ start = 0
    /\ written = <<>>

-----------------------------------------------------------------------------

Truncate(length) ==
    /\ phase = "idle"
    /\ message' = tapsMessageTruncate(message, length)
    /\ UNCHANGED <<phase, vec, minLength, currLength, memory, readPos, start,
                   written>>

(* tapsConnectionReceive hands the protocol the message's own vector.      *)
Receive(min) ==
    /\ phase = "idle"
    /\ phase' = "receiving"
    /\ vec' = tapsMessageGetIovec(message)
    /\ minLength' = min
    /\ currLength' = 0
    /\ start' = readPos
    /\ UNCHANGED <<message, memory, readPos, written>>

(* readv fills the vector's addresses in order with the next n bytes.      *)
Filled(n) ==
    LET addresses == Addresses(vec)
    IN  [a \in AllAddresses |->
            IF \E i \in 1 .. n : addresses[i] = a
            THEN readPos + CHOOSE i \in 1 .. n : addresses[i] = a
            ELSE memory[a]]

(* _tcp_received with n bytes, then _taps_received_partial.                *)
ReceivedPartial(n) ==
    /\ phase = "receiving"
    /\ n \in 1 .. Total(vec)
    /\ readPos + n <= MaxBytes
    /\ memory' = Filled(n)
    /\ readPos' = readPos + n
    /\ currLength' = currLength + n
    /\ IF currLength' < minLength
       THEN /\ vec' = taps_trunc_iovec(tapsMessageGetIovec(message), currLength')
            /\ phase' = IF vec' = Overrun THEN "crashed" ELSE "receiving"
       ELSE /\ vec' = <<>>
            /\ phase' = "delivered"
    /\ UNCHANGED <<message, minLength, start, written>>

(* An echo: truncate to what was received, then Send writes the vector.    *)
Echo ==
    /\ phase = "delivered"
    /\ phase' = "idle"
    /\ message' = tapsMessageTruncate(message, currLength)
    /\ LET addresses == Addresses(tapsMessageGetIovec(message'))
       IN  written' = [i \in DOMAIN addresses |-> memory[addresses[i]]]
    /\ UNCHANGED <<vec, minLength, currLength, memory, readPos, start>>

Next ==
    \/ \E length \in 0 .. Total(message.list) + 1 : Truncate(length)
    \/ \E min \in MinLengths : Receive(min)
    \/ \E n \in 1 .. MaxBytes : ReceivedPartial(n)
    \/ Echo

Spec == Init /\ [][Next]_vars

-----------------------------------------------------------------------------
(* Properties *)

(* taps.h: "Shrink the iovec to length": whatever was done to the message, *)
(* truncating it to no more than it holds leaves its first bytes, at their *)
(* old addresses and as many as asked for.  One byte more than it holds    *)
(* leaves none.                                                            *)
TruncateShrinks ==
    LET before == Addresses(tapsMessageGetIovec(message))
        After(n) == Addresses(tapsMessageGetIovec(tapsMessageTruncate(message, n)))
    IN  /\ \A n \in 0 .. Len(before) : After(n) = SubSeq(before, 1, n)
        /\ After(Len(before) + 1) = <<>>

(* While a receive is outstanding the protocol's vector covers exactly the *)
(* addresses of the message behind the bytes already there, and            *)
(* _taps_trunc_iovec has not run past the vector's end, although nothing   *)
(* in its loop stops it there.                                             *)
RestExact ==
    /\ phase # "crashed"
    /\ phase = "receiving" =>
        LET all == Addresses(tapsMessageGetIovec(message))
        IN  Addresses(vec) = SubSeq(all, currLength + 1, Len(all))

(* What an echo writes is exactly what the receive before it read: all of  *)
(* its bytes, once, in order, over any number of buffers and reads.        *)
EchoExact ==
    phase = "idle" => written = [i \in 1 .. currLength |-> start + i]
=============================================================================
