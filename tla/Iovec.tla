------------------------------- MODULE Iovec -------------------------------
(***************************************************************************)
(* Messages as vectors of buffers: src/src/taps_message.c, and the         *)
(* function of src/src/taps_connection.c that leaves out the part of a     *)
(* message which is already filled.                                        *)
(*                                                                         *)
(* An iovec is a record of a buffer, where in it iov_base points and       *)
(* iov_len.  A message is its list and the count of entries in use.  The   *)
(* struct keeps a single entry outside the list; the functions treat the   *)
(* two layouts alike.                                                      *)
(***************************************************************************)
EXTENDS Integers, Sequences

IovecAt(buf, len) == [buf |-> buf, off |-> 0, len |-> len]

tapsMessageNew(buf, len) == [list |-> <<IovecAt(buf, len)>>, iovcnt |-> 1]

tapsMessageGetIovec(m) == SubSeq(m.list, 1, m.iovcnt)

(* What is left of length behind each of the first n entries of v: the     *)
(* loops below subtract one iov_len a round.                               *)
Remaining(v, n, length) ==
    LET remaining[r \in 0 .. n] ==
            IF r = 0 THEN length ELSE remaining[r - 1] - v[r].len
    IN  remaining

(* The first round whose entry takes all that remains; n if there is none. *)
StopRow(v, n, length) ==
    LET remaining == Remaining(v, n, length)
        Stops(r) == r = n \/ remaining[r] <= v[r + 1].len
    IN  CHOOSE r \in 0 .. n : Stops(r) /\ \A q \in 0 .. r - 1 : ~Stops(q)

(* Faulty variant: an entry that is filled exactly is passed over.         *)
MutTruncate(m, length) ==
    LET n   == m.iovcnt
        row == StopRow(m.list, n, length + 1)
    IN  IF row = n
        THEN [m EXCEPT !.iovcnt = 0]
        ELSE [m EXCEPT !.iovcnt = row + 1,
                       !.list[row + 1].len = Remaining(m.list, n, length)[row]]

(* Faulty variant: a message that is too short is not told apart.          *)
MutTruncateShort(m, length) ==
    LET row == StopRow(m.list, m.iovcnt, length)
    IN  [m EXCEPT !.iovcnt = row + 1,
                  !.list[row + 1].len = Remaining(m.list, m.iovcnt, length)[row]]

(* The message cut off after length bytes.  One that is shorter than       *)
(* length is left with no entries at all.                                  *)
tapsMessageTruncate(m, length) ==
    LET n   == m.iovcnt
        row == StopRow(m.list, n, length)
    IN  IF row = n
        THEN [m EXCEPT !.iovcnt = 0]
        ELSE [m EXCEPT !.iovcnt = row + 1,
                       !.list[row + 1].len = Remaining(m.list, n, length)[row]]

(* _taps_trunc_iovec runs past the end of the vector: its loop tests the   *)
(* pointer to the count, which is never zero.  The vector it would return  *)
(* then is none of the message's; otherwise it has at least one entry.     *)
Overrun == <<>>

(* Faulty variant: iov_len is not reduced.                                 *)
MutTruncIovecLen(v, len) ==
    LET n   == Len(v)
        row == StopRow(v, n, len)
        rem == Remaining(v, n, len)[row]
    IN  IF row = n THEN Overrun
        ELSE [SubSeq(v, row + 1, n) EXCEPT ![1].off = @ + rem]

(* Faulty variant: iov_base stays at the start of the entry.               *)
MutTruncIovecBase(v, len) ==
    LET n   == Len(v)
        row == StopRow(v, n, len)
        rem == Remaining(v, n, len)[row]
    IN  IF row = n THEN Overrun
        ELSE [SubSeq(v, row + 1, n) EXCEPT ![1].len = @ - rem]

(* A new vector of the same buffers without the first len bytes.           *)
taps_trunc_iovec(v, len) ==
    LET n   == Len(v)
        row == StopRow(v, n, len)
        rem == Remaining(v, n, len)[row]
    IN  IF row = n THEN Overrun
        ELSE [SubSeq(v, row + 1, n) EXCEPT ![1].off = @ + rem, ![1].len = @ - rem]

-----------------------------------------------------------------------------
(* The addresses a vector covers, in order: what a readv or writev of it   *)
(* goes through, and the reference for the functions above.                *)

Addresses(v) ==
    LET upto[i \in 0 .. Len(v)] ==
            IF i = 0 THEN <<>>
            ELSE upto[i - 1] \o
                 [k \in 1 .. v[i].len |-> <<v[i].buf, v[i].off + k - 1>>]
    IN  upto[Len(v)]

Total(v) == Len(Addresses(v))
=============================================================================
