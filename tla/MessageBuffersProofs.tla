------------------------ MODULE MessageBuffersProofs ------------------------
(***************************************************************************)
(* What the functions of Iovec compute, for vectors of any number of       *)
(* buffers and buffers of any length, and from it the invariants of        *)
(* MessageBuffers.                                                         *)
(*                                                                         *)
(* The recursive functions are characterised by the sums of the lengths:   *)
(* IsSum(v, L) says that L[r] bytes lie in the first r entries of v.  The  *)
(* facts about all entries are by induction on a set of indices (Upwards). *)
(***************************************************************************)
EXTENDS MessageBuffers, TLAPS, NaturalsInduction, WellFoundedInduction,
        SequenceTheorems

Entries == [buf : Nat, off : Nat, len : Nat]

IsSum(v, L) ==
    /\ L[0] = 0
    /\ \A r \in 1 .. Len(v) : L[r] = L[r - 1] + v[r].len

-----------------------------------------------------------------------------
(* Induction over indices *)

(* A set of naturals that is not empty has a least element.                *)
LEMMA LeastOf ==
    ASSUME NEW T \in SUBSET Nat, T # {}
    PROVE  \E x \in T : \A y \in T : x <= y
  <1> DEFINE R == OpToRel(<, Nat)
  <1>1. \E x \in T : \A y \in T : ~ (<<y, x>> \in R)
    <2> HIDE DEF R
    <2>1. IsWellFoundedOn(R, Nat)
      BY NatLessThanWellFounded DEF R
    <2> QED
      BY <2>1, WFMin
  <1>2. PICK x \in T : \A y \in T : ~ (<<y, x>> \in R)
    BY <1>1
  <1>3. ASSUME NEW y \in T PROVE x <= y
    <2>1. <<y, x>> \in Nat \X Nat /\ ~ (<<y, x>> \in R)
      BY <1>2
    <2>2. ~ (y < x)
      BY <2>1 DEF OpToRel
    <2> QED
      BY <2>2
  <1> QED
    BY <1>3

(* A set that has 0 and with each index the next one has them all.         *)
LEMMA Upwards ==
    ASSUME NEW n \in Nat, NEW S,
           0 \in S, \A k \in 1 .. n : k - 1 \in S => k \in S
    PROVE  \A k \in 0 .. n : k \in S
  <1> DEFINE T == {k \in 0 .. n : k \notin S}
  <1> SUFFICES ASSUME T # {} PROVE FALSE
    OBVIOUS
  <1>1. PICK x \in T : \A y \in T : x <= y
    <2>1. T \in SUBSET Nat
      OBVIOUS
    <2> HIDE DEF T
    <2> QED
      BY <2>1, LeastOf
  <1>2. x \in 1 .. n /\ x - 1 \notin T
    BY <1>1
  <1> QED
    BY <1>2

-----------------------------------------------------------------------------
(* Sums of lengths *)

LEMMA EntryTypes ==
    ASSUME NEW v \in Seq(Entries)
    PROVE  /\ Len(v) \in Nat
           /\ \A r \in 1 .. Len(v) : /\ v[r] \in Entries
                                     /\ v[r].buf \in Nat
                                     /\ v[r].off \in Nat
                                     /\ v[r].len \in Nat
  <1>1. Len(v) \in Nat
    BY LenProperties
  <1>2. ASSUME NEW r \in 1 .. Len(v) PROVE v[r] \in Entries
    BY ElementOfSeq
  <1>3. \A e \in Entries : e.buf \in Nat /\ e.off \in Nat /\ e.len \in Nat
    BY DEF Entries
  <1> QED
    BY <1>1, <1>2, <1>3

(* Every vector has its sums.                                              *)
LEMMA SumExists ==
    ASSUME NEW v \in Seq(Entries)
    PROVE  \E L \in [0 .. Len(v) -> Nat] : IsSum(v, L)
  <1> DEFINE n == Len(v)
             Upto(k, f) == f[0] = 0 /\ \A r \in 1 .. k : f[r] = f[r - 1] + v[r].len
             S == {k \in 0 .. n : \E f \in [0 .. k -> Nat] : Upto(k, f)}
  <1>1. n \in Nat /\ \A r \in 1 .. n : v[r].len \in Nat
    BY EntryTypes
  <1>2. 0 \in S
    <2> DEFINE f == [r \in 0 .. 0 |-> 0]
    <2>1. f \in [0 .. 0 -> Nat]
      OBVIOUS
    <2>2. Upto(0, f)
      OBVIOUS
    <2>3. 0 \in 0 .. n
      BY <1>1
    <2> HIDE DEF f, Upto
    <2> QED
      BY <2>1, <2>2, <2>3
  <1>3. ASSUME NEW k \in 1 .. n, k - 1 \in S PROVE k \in S
    <2>1. PICK f \in [0 .. k - 1 -> Nat] : Upto(k - 1, f)
      BY <1>3
    <2> DEFINE g == [r \in 0 .. k |-> IF r = k THEN f[k - 1] + v[k].len ELSE f[r]]
    <2>2. k \in Nat /\ v[k].len \in Nat /\ f[k - 1] \in Nat
      BY <1>1
    <2>3. g \in [0 .. k -> Nat]
      BY <2>2
    <2>4. Upto(k, g)
      <3>1. g[0] = 0
        BY <2>1, <2>2
      <3>2. ASSUME NEW r \in 1 .. k PROVE g[r] = g[r - 1] + v[r].len
        <4>1. CASE r = k
          BY <2>2, <4>1
        <4>2. CASE r # k
          <5>1. r \in 1 .. k - 1 /\ r - 1 \in 0 .. k - 1 /\ r - 1 # k
            BY <2>2, <4>2
          <5>2. f[r] = f[r - 1] + v[r].len
            BY <5>1, <2>1
          <5> QED
            BY <2>2, <4>2, <5>1, <5>2
        <4> QED
          BY <4>1, <4>2
      <3> QED
        BY <3>1, <3>2
    <2> HIDE DEF g, Upto
    <2>5. k \in 0 .. n
      BY <1>1
    <2>6. \E h \in [0 .. k -> Nat] : Upto(k, h)
      BY <2>3, <2>4
    <2> QED
      BY <2>5, <2>6
  <1>4. n \in S
    <2> HIDE DEF S, n
    <2>1. n \in 0 .. n
      BY <1>1
    <2>2. \A k \in 0 .. n : k \in S
      BY <1>1, <1>2, <1>3, Upwards
    <2> QED
      BY <2>1, <2>2
  <1> QED
    BY <1>4 DEF IsSum

(* The same of the first n entries.                                        *)
LEMMA PrefixFacts ==
    ASSUME NEW v \in Seq(Entries), NEW L \in [0 .. Len(v) -> Nat], IsSum(v, L),
           NEW n \in 0 .. Len(v)
    PROVE  /\ n \in Nat
           /\ \A r \in 1 .. n : v[r] \in Entries /\ v[r].len \in Nat
           /\ \A r \in 0 .. n : L[r] \in Nat
           /\ L[0] = 0
           /\ \A r \in 1 .. n : L[r] = L[r - 1] + v[r].len
  <1>1. Len(v) \in Nat /\ n \in Nat
    BY EntryTypes
  <1>2. ASSUME NEW r \in 1 .. n PROVE r \in 1 .. Len(v)
    BY <1>1
  <1>3. ASSUME NEW r \in 0 .. n PROVE L[r] \in Nat
    BY <1>1
  <1>4. \A r \in 1 .. Len(v) : v[r] \in Entries /\ v[r].len \in Nat
    BY EntryTypes
  <1> QED
    BY <1>1, <1>2, <1>3, <1>4 DEF IsSum

(* The sums of a vector grow.                                              *)
LEMMA SumGrows ==
    ASSUME NEW v \in Seq(Entries), NEW L \in [0 .. Len(v) -> Nat], IsSum(v, L),
           NEW s \in 0 .. Len(v), NEW r \in 0 .. s
    PROVE  L[r] <= L[s]
  <1> DEFINE n == Len(v)
             S == {k \in 0 .. n : r <= k => L[r] <= L[k]}
  <1>1. n \in Nat /\ \A q \in 1 .. n : v[q].len \in Nat
    BY EntryTypes
  <1>2. 0 \in S
    BY <1>1
  <1>3. ASSUME NEW k \in 1 .. n, k - 1 \in S PROVE k \in S
    <2>1. L[k] = L[k - 1] + v[k].len /\ v[k].len \in Nat
      BY <1>1 DEF IsSum
    <2>2. k \in 0 .. n /\ k - 1 \in 0 .. n /\ L[k] \in Nat /\ L[k - 1] \in Nat /\ L[r] \in Nat
      BY <1>1
    <2>3. r <= k - 1 => L[r] <= L[k - 1]
      BY <1>3
    <2>4. CASE r <= k - 1
      BY <2>1, <2>2, <2>3, <2>4
    <2>5. CASE ~(r <= k - 1)
      <3>1. r <= k => r = k
        BY <2>5, <1>1
      <3> QED
        BY <2>2, <3>1
    <2> QED
      BY <2>4, <2>5
  <1>4. s \in S
    <2> HIDE DEF S, n
    <2>1. s \in 0 .. n
      BY DEF n
    <2> QED
      BY <1>1, <1>2, <1>3, <2>1, Upwards
  <1> QED
    BY <1>4, <1>1

(* Each position up to the sum of a vector lies in one of its entries.     *)
LEMMA SumCovers ==
    ASSUME NEW v \in Seq(Entries), NEW L \in [0 .. Len(v) -> Nat], IsSum(v, L),
           NEW p \in 1 .. L[Len(v)]
    PROVE  \E r \in 1 .. Len(v) : \E k \in 1 .. v[r].len : p = L[r - 1] + k
  <1> DEFINE n == Len(v)
             T == {r \in 0 .. n : p <= L[r]}
  <1>1. n \in Nat /\ \A q \in 1 .. n : v[q].len \in Nat
    BY EntryTypes
  <1>2. n \in T
    BY <1>1
  <1>3. PICK r \in T : \A q \in T : r <= q
    <2>1. T \in SUBSET Nat
      BY <1>1
    <2> HIDE DEF T
    <2> QED
      BY <1>2, <2>1, LeastOf
  <1>4. L[0] = 0 /\ \A q \in 1 .. n : L[q] = L[q - 1] + v[q].len
    BY DEF IsSum
  <1>5. r \in 1 .. n
    BY <1>1, <1>3, <1>4
  <1>6. r - 1 \notin T /\ r - 1 \in 0 .. n
    BY <1>1, <1>3, <1>5
  <1>7. L[r - 1] < p /\ L[r] \in Nat /\ L[r - 1] \in Nat /\ p <= L[r] /\ v[r].len \in Nat
    BY <1>1, <1>3, <1>5, <1>6
  <1>8. p - L[r - 1] \in 1 .. v[r].len
    BY <1>4, <1>5, <1>7
  <1>9. p = L[r - 1] + (p - L[r - 1])
    BY <1>7
  <1> QED
    BY <1>5, <1>8, <1>9

-----------------------------------------------------------------------------
(* The loops *)

(* What is left of length behind the first r entries.                      *)
LEMMA RemainingIs ==
    ASSUME NEW v \in Seq(Entries), NEW L \in [0 .. Len(v) -> Nat], IsSum(v, L),
           NEW n \in 0 .. Len(v), NEW length \in Nat
    PROVE  \A r \in 0 .. n : Remaining(v, n, length)[r] = length - L[r]
  <1> DEFINE Is(f) == f = [r \in 0 .. n |-> IF r = 0 THEN length
                                            ELSE f[r - 1] - v[r].len]
             g == [r \in 0 .. n |-> length - L[r]]
             remaining == CHOOSE f : Is(f)
             S == {r \in 0 .. n : remaining[r] = length - L[r]}
  <1>1. /\ n \in Nat /\ \A r \in 1 .. n : v[r].len \in Nat
        /\ \A r \in 0 .. n : L[r] \in Nat
    BY PrefixFacts
  <1>2. L[0] = 0 /\ \A r \in 1 .. n : L[r] = L[r - 1] + v[r].len
    BY PrefixFacts
  <1>3. Is(g)
    <2>1. ASSUME NEW r \in 0 .. n
          PROVE  g[r] = IF r = 0 THEN length ELSE g[r - 1] - v[r].len
      <3>1. CASE r = 0
        BY <1>1, <1>2, <3>1
      <3>2. CASE r # 0
        <4>1. r \in 1 .. n /\ r - 1 \in 0 .. n
          BY <1>1, <3>2
        <4>2. L[r] = L[r - 1] + v[r].len /\ L[r - 1] \in Nat /\ v[r].len \in Nat
          BY <1>1, <1>2, <4>1
        <4> QED
          BY <3>2, <4>1, <4>2
      <3> QED
        BY <3>1, <3>2
    <2> QED
      BY <2>1
  <1>4. Is(remaining)
    BY <1>3
  <1>5. Remaining(v, n, length) = remaining
    BY DEF Remaining
  <1> HIDE DEF remaining
  <1>6. /\ remaining[0] = length
        /\ \A r \in 1 .. n : remaining[r] = remaining[r - 1] - v[r].len
    <2>1. ASSUME NEW r \in 0 .. n
          PROVE  remaining[r] = IF r = 0 THEN length ELSE remaining[r - 1] - v[r].len
      BY <1>4
    <2>2. 0 \in 0 .. n /\ \A r \in 1 .. n : r \in 0 .. n /\ r # 0
      BY <1>1
    <2> QED
      BY <2>1, <2>2
  <1>7. 0 \in S
    BY <1>1, <1>2, <1>6
  <1>8. ASSUME NEW r \in 1 .. n, r - 1 \in S PROVE r \in S
    <2>1. /\ remaining[r] = remaining[r - 1] - v[r].len
          /\ L[r] = L[r - 1] + v[r].len
          /\ remaining[r - 1] = length - L[r - 1]
      BY <1>2, <1>6, <1>8
    <2>2. L[r - 1] \in Nat /\ v[r].len \in Nat /\ r \in 0 .. n
      BY <1>1, SMTT(30)
    <2> QED
      BY <2>1, <2>2
  <1>9. \A r \in 0 .. n : r \in S
    <2> HIDE DEF S
    <2> QED
      BY <1>1, <1>7, <1>8, Upwards
  <1> QED
    BY <1>5, <1>9

(* The loops stop in the first entry that takes all that remains, or run   *)
(* to the end when the entries hold less than length.                      *)
LEMMA StopRowIs ==
    ASSUME NEW v \in Seq(Entries), NEW L \in [0 .. Len(v) -> Nat], IsSum(v, L),
           NEW n \in 0 .. Len(v), NEW length \in Nat,
           NEW row, row = StopRow(v, n, length)
    PROVE  /\ row \in 0 .. n
           /\ row < n => L[row] <= length /\ length <= L[row + 1]
           /\ row = n => n = 0 \/ L[n] < length
  <1> DEFINE remaining == Remaining(v, n, length)
             Stops(r) == r = n \/ remaining[r] <= v[r + 1].len
             First(r) == Stops(r) /\ \A q \in 0 .. r - 1 : ~Stops(q)
             T == {r \in 0 .. n : Stops(r)}
  <1>1. /\ n \in Nat /\ \A r \in 1 .. n : v[r].len \in Nat
        /\ \A r \in 0 .. n : L[r] \in Nat
    BY PrefixFacts
  <1>2. L[0] = 0 /\ \A r \in 1 .. n : L[r] = L[r - 1] + v[r].len
    BY PrefixFacts
  <1>3. \A r \in 0 .. n : remaining[r] = length - L[r]
    BY RemainingIs
  <1>4. row = CHOOSE r \in 0 .. n : First(r)
    BY DEF StopRow
  <1> HIDE DEF remaining
  <1>5. \A r \in 0 .. n - 1 : Stops(r) <=> length <= L[r + 1]
    <2> SUFFICES ASSUME NEW r \in 0 .. n - 1 PROVE Stops(r) <=> length <= L[r + 1]
      OBVIOUS
    <2>1. r + 1 \in 1 .. n /\ r \in 0 .. n /\ r # n /\ r + 1 - 1 = r
      BY <1>1
    <2>2. L[r + 1] = L[r] + v[r + 1].len
      BY <1>2, <2>1
    <2>3. L[r] \in Nat /\ v[r + 1].len \in Nat /\ remaining[r] = length - L[r]
      BY <1>1, <1>3, <2>1
    <2> QED
      BY <2>1, <2>2, <2>3
  <1>6. Stops(n)
    OBVIOUS
  <1> HIDE DEF Stops
  <1>7. \E r \in 0 .. n : First(r)
    <2>1. n \in T /\ T \in SUBSET Nat
      BY <1>1, <1>6
    <2>2. PICK r \in T : \A q \in T : r <= q
      <3> HIDE DEF T
      <3> QED
        BY <2>1, LeastOf
    <2>3. \A q \in 0 .. r - 1 : ~Stops(q)
      BY <1>1, <2>2
    <2> QED
      BY <2>2, <2>3
  <1>8. row \in 0 .. n /\ First(row)
    BY <1>4, <1>7
  <1>9. ASSUME row < n PROVE L[row] <= length /\ length <= L[row + 1]
    <2>1. row \in 0 .. n - 1 /\ Stops(row)
      BY <1>1, <1>8, <1>9
    <2>2. length <= L[row + 1]
      BY <1>5, <2>1
    <2>3. CASE row = 0
      BY <1>2, <2>2, <2>3
    <2>4. CASE row # 0
      <3>1. row - 1 \in 0 .. n - 1 /\ row - 1 \in 0 .. row - 1 /\ row - 1 + 1 = row
        BY <1>1, <2>1, <2>4
      <3>2. ~(length <= L[row])
        BY <1>5, <1>8, <3>1
      <3> QED
        BY <1>1, <1>8, <2>2, <3>2
    <2> QED
      BY <2>3, <2>4
  <1>10. ASSUME row = n, n # 0 PROVE L[n] < length
    <2>1. n - 1 \in 0 .. n - 1 /\ n - 1 \in 0 .. row - 1 /\ n - 1 + 1 = n /\ n \in 0 .. n
      BY <1>1, <1>10
    <2>2. ~(length <= L[n])
      BY <1>5, <1>8, <2>1
    <2> QED
      BY <1>1, <2>1, <2>2
  <1> QED
    BY <1>8, <1>9, <1>10

-----------------------------------------------------------------------------
(* The addresses of a vector *)

Address == Nat \X Nat

Row(e) == [k \in 1 .. e.len |-> <<e.buf, e.off + k - 1>>]

LEMMA RowIs ==
    ASSUME NEW e \in Entries
    PROVE  /\ Row(e) \in Seq(Address)
           /\ Len(Row(e)) = e.len
           /\ \A k \in 1 .. e.len : Row(e)[k] = <<e.buf, e.off + k - 1>>
  <1>1. e.buf \in Nat /\ e.off \in Nat /\ e.len \in Nat
    BY DEF Entries
  <1>2. \A k \in 1 .. e.len : <<e.buf, e.off + k - 1>> \in Address
    BY <1>1 DEF Address
  <1>3. Row(e) \in [1 .. e.len -> Address]
    BY <1>2 DEF Row
  <1>4. Row(e) \in Seq(Address)
    BY <1>1, <1>3
  <1> QED
    BY <1>1, <1>4 DEF Row

(* The function by which Addresses is defined exists.                      *)
LEMMA UptoExists ==
    ASSUME NEW v \in Seq(Entries)
    PROVE  \E f \in [0 .. Len(v) -> Seq(Address)] :
             /\ f[0] = <<>>
             /\ \A i \in 1 .. Len(v) : f[i] = f[i - 1] \o Row(v[i])
  <1> DEFINE n == Len(v)
             Upto(k, f) == f[0] = <<>> /\ \A i \in 1 .. k : f[i] = f[i - 1] \o Row(v[i])
             S == {k \in 0 .. n : \E f \in [0 .. k -> Seq(Address)] : Upto(k, f)}
  <1>1. n \in Nat /\ \A i \in 1 .. n : Row(v[i]) \in Seq(Address)
    BY EntryTypes, RowIs
  <1>2. 0 \in S
    <2> DEFINE f == [r \in 0 .. 0 |-> <<>>]
    <2>1. <<>> \in Seq(Address)
      BY EmptySeq
    <2>2. f \in [0 .. 0 -> Seq(Address)]
      BY <2>1
    <2>3. Upto(0, f)
      OBVIOUS
    <2>4. 0 \in 0 .. n
      BY <1>1
    <2> HIDE DEF f, Upto
    <2> QED
      BY <2>2, <2>3, <2>4
  <1>3. ASSUME NEW k \in 1 .. n, k - 1 \in S PROVE k \in S
    <2>1. PICK f \in [0 .. k - 1 -> Seq(Address)] : Upto(k - 1, f)
      BY <1>3
    <2> DEFINE top == f[k - 1] \o Row(v[k])
               g == [r \in 0 .. k |-> IF r = k THEN top ELSE f[r]]
    <2>2. k \in Nat /\ k - 1 \in 0 .. k - 1 /\ k # 0 /\ k - 1 # k
      BY <1>1
    <2>3. top \in Seq(Address)
      <3>1. f[k - 1] \in Seq(Address) /\ Row(v[k]) \in Seq(Address)
        BY <1>1, <2>2
      <3> HIDE DEF Address
      <3> QED
        BY <3>1, ConcatProperties
    <2>4. g[k] = top /\ \A r \in 0 .. k - 1 : g[r] = f[r]
      <3> HIDE DEF top
      <3> QED
        BY <2>2
    <2>5. g \in [0 .. k -> Seq(Address)]
      <3> HIDE DEF top
      <3> QED
        BY <2>2, <2>3
    <2>6. Upto(k, g)
      <3> HIDE DEF g
      <3>1. g[0] = <<>>
        BY <2>1, <2>2, <2>4
      <3>2. ASSUME NEW r \in 1 .. k PROVE g[r] = g[r - 1] \o Row(v[r])
        <4>1. CASE r = k
          BY <2>2, <2>4, <4>1
        <4>2. CASE r # k
          <5>1. r \in 1 .. k - 1 /\ r \in 0 .. k - 1 /\ r - 1 \in 0 .. k - 1
            BY <2>2, <4>2
          <5>2. f[r] = f[r - 1] \o Row(v[r])
            BY <5>1, <2>1
          <5> QED
            BY <2>4, <5>1, <5>2
        <4> QED
          BY <4>1, <4>2
      <3> QED
        BY <3>1, <3>2
    <2> HIDE DEF g, Upto
    <2>7. k \in 0 .. n
      BY <1>1
    <2>8. \E h \in [0 .. k -> Seq(Address)] : Upto(k, h)
      BY <2>5, <2>6
    <2> QED
      BY <2>7, <2>8
  <1>4. n \in S
    <2> HIDE DEF S, n
    <2>1. n \in 0 .. n
      BY <1>1
    <2>2. \A k \in 0 .. n : k \in S
      BY <1>1, <1>2, <1>3, Upwards
    <2> QED
      BY <2>1, <2>2
  <1> QED
    BY <1>4

(* The byte k of entry r has the place behind the entries before it.       *)
LEMMA AddressesAre ==
    ASSUME NEW v \in Seq(Entries), NEW L \in [0 .. Len(v) -> Nat], IsSum(v, L)
    PROVE  /\ Addresses(v) \in Seq(Address)
           /\ Len(Addresses(v)) = L[Len(v)]
           /\ \A r \in 1 .. Len(v) : \A k \in 1 .. v[r].len :
                Addresses(v)[L[r - 1] + k] = <<v[r].buf, v[r].off + k - 1>>
  <1> DEFINE n == Len(v)
             Is(f) == f = [i \in 0 .. n |->
                             IF i = 0 THEN <<>>
                             ELSE f[i - 1] \o
                                  [k \in 1 .. v[i].len |-> <<v[i].buf, v[i].off + k - 1>>]]
             upto == CHOOSE f : Is(f)
             At(i) == /\ upto[i] \in Seq(Address)
                      /\ Len(upto[i]) = L[i]
                      /\ \A r \in 1 .. i : \A k \in 1 .. v[r].len :
                           upto[i][L[r - 1] + k] = Row(v[r])[k]
             S == {i \in 0 .. n : At(i)}
  <1>1. /\ n \in Nat /\ n \in 0 .. n
        /\ \A r \in 1 .. n : v[r] \in Entries /\ v[r].len \in Nat
        /\ \A r \in 0 .. n : L[r] \in Nat
    BY EntryTypes
  <1>2. L[0] = 0 /\ \A r \in 1 .. n : L[r] = L[r - 1] + v[r].len
    BY DEF IsSum
  <1>3. \E f : Is(f)
    <2>1. PICK f \in [0 .. n -> Seq(Address)] :
            f[0] = <<>> /\ \A i \in 1 .. n : f[i] = f[i - 1] \o Row(v[i])
      BY UptoExists
    <2>2. ASSUME NEW i \in 0 .. n
          PROVE  f[i] = IF i = 0 THEN <<>>
                        ELSE f[i - 1] \o
                             [k \in 1 .. v[i].len |-> <<v[i].buf, v[i].off + k - 1>>]
      <3>1. CASE i = 0
        BY <2>1, <3>1
      <3>2. CASE i # 0
        <4>1. i \in 1 .. n
          BY <1>1, <3>2
        <4> QED
          BY <2>1, <3>2, <4>1 DEF Row
      <3> QED
        BY <3>1, <3>2
    <2>3. Is(f)
      BY <2>2
    <2> QED
      BY <2>3
  <1>4. Is(upto)
    BY <1>3
  <1>5. Addresses(v) = upto[n]
    BY DEF Addresses
  <1> HIDE DEF upto
  <1>6. upto[0] = <<>> /\ \A i \in 1 .. n : upto[i] = upto[i - 1] \o Row(v[i])
    <2>1. ASSUME NEW i \in 0 .. n
          PROVE  upto[i] = IF i = 0 THEN <<>> ELSE upto[i - 1] \o Row(v[i])
      BY <1>4 DEF Row
    <2>2. 0 \in 0 .. n /\ \A i \in 1 .. n : i \in 0 .. n /\ i # 0
      BY <1>1
    <2> QED
      BY <2>1, <2>2
  <1>7. At(0)
    <2>1. upto[0] \in Seq(Address) /\ Len(upto[0]) = 0
      BY <1>6, EmptySeq
    <2> QED
      BY <1>2, <2>1
  <1>8. ASSUME NEW i \in 1 .. n, At(i - 1) PROVE At(i)
    <2> DEFINE s == upto[i - 1]
               t == Row(v[i])
    <2>1. /\ i \in Nat /\ i - 1 \in 0 .. n /\ i \in 0 .. n
          /\ L[i] = L[i - 1] + v[i].len /\ L[i - 1] \in Nat /\ v[i].len \in Nat
          /\ v[i] \in Entries
      BY <1>1, <1>2
    <2>2. /\ s \in Seq(Address) /\ Len(s) = L[i - 1]
          /\ t \in Seq(Address) /\ Len(t) = v[i].len
      BY <1>8, <2>1, RowIs
    <2>3. upto[i] = s \o t
      BY <1>6
    <2>4. /\ s \o t \in Seq(Address)
          /\ Len(s \o t) = Len(s) + Len(t)
          /\ \A p \in 1 .. Len(s) + Len(t) :
               (s \o t)[p] = IF p <= Len(s) THEN s[p] ELSE t[p - Len(s)]
      <3> HIDE DEF s, t, Address
      <3> QED
        BY <2>2, ConcatProperties
    <2>5. ASSUME NEW r \in 1 .. i, NEW k \in 1 .. v[r].len
          PROVE  upto[i][L[r - 1] + k] = Row(v[r])[k]
      <3> DEFINE p == L[r - 1] + k
      <3>0. r \in 1 .. n /\ r - 1 \in 0 .. n /\ v[r].len \in Nat /\ L[r - 1] \in Nat
        BY <1>1, <2>1, SMTT(30)
      <3>1. CASE r = i
        <4>1. p \in 1 .. Len(s) + Len(t) /\ ~(p <= Len(s)) /\ p - Len(s) = k
          BY <2>1, <2>2, <3>0, <3>1
        <4>2. (s \o t)[p] = t[k]
          BY <2>4, <4>1
        <4> QED
          BY <2>3, <3>1, <4>2
      <3>2. CASE r # i
        <4>1. r \in 1 .. i - 1 /\ r \in 0 .. i - 1
          BY <2>1, <3>0, <3>2
        <4>2. L[r] = L[r - 1] + v[r].len
          BY <1>2, <3>0
        <4>3. L[r] <= L[i - 1]
          BY <2>1, <4>1, SumGrows
        <4>4. p \in 1 .. Len(s) + Len(t) /\ p <= Len(s)
          <5> HIDE DEF s, t
          <5>1. L[r] \in Nat /\ k \in Nat /\ 1 <= k /\ k <= v[r].len
            BY <1>1, <3>0, <4>1
          <5>2. p \in Nat /\ 1 <= p /\ p <= L[r]
            BY <3>0, <4>2, <5>1
          <5> HIDE DEF p
          <5> QED
            BY <2>1, <2>2, <4>3, <5>1, <5>2
        <4>5. (s \o t)[p] = s[p]
          BY <2>4, <4>4
        <4>6. s[p] = Row(v[r])[k]
          BY <1>8, <4>1
        <4> QED
          BY <2>3, <4>5, <4>6
      <3> QED
        BY <3>1, <3>2
    <2> QED
      BY <2>1, <2>2, <2>3, <2>4, <2>5
  <1> HIDE DEF At
  <1>9. At(n)
    <2>1. 0 \in S
      BY <1>1, <1>7
    <2>2. ASSUME NEW i \in 1 .. n, i - 1 \in S PROVE i \in S
      BY <1>1, <1>8, <2>2
    <2>3. \A i \in 0 .. n : i \in S
      <3> HIDE DEF S, n
      <3> QED
        BY <1>1, <2>1, <2>2, Upwards
    <2> QED
      BY <1>1, <2>3
  <1>10. \A r \in 1 .. n : \A k \in 1 .. v[r].len :
           Row(v[r])[k] = <<v[r].buf, v[r].off + k - 1>>
    BY <1>1, RowIs
  <1> QED
    BY <1>5, <1>9, <1>10 DEF At

(* Each byte of w, at place p of it, is the byte of v at place d + p.      *)
Within(w, M, d, v, L) ==
    \A r \in 1 .. Len(w) : \A k \in 1 .. w[r].len :
        \E q \in 1 .. Len(v) : \E j \in 1 .. v[q].len :
            /\ d + M[r - 1] + k = L[q - 1] + j
            /\ w[r].buf = v[q].buf
            /\ w[r].off + k = v[q].off + j

(* Such a vector covers a part of the other one.                           *)
LEMMA SliceOf ==
    ASSUME NEW v \in Seq(Entries), NEW L \in [0 .. Len(v) -> Nat], IsSum(v, L),
           NEW w \in Seq(Entries), NEW M \in [0 .. Len(w) -> Nat], IsSum(w, M),
           NEW d \in Nat, d + M[Len(w)] <= L[Len(v)], Within(w, M, d, v, L)
    PROVE  Addresses(w) = SubSeq(Addresses(v), d + 1, d + M[Len(w)])
  <1> DEFINE a == Addresses(v)
             b == Addresses(w)
             N == M[Len(w)]
             c == SubSeq(a, d + 1, d + N)
  <1>1. /\ a \in Seq(Address) /\ Len(a) = L[Len(v)]
        /\ \A r \in 1 .. Len(v) : \A k \in 1 .. v[r].len :
             a[L[r - 1] + k] = <<v[r].buf, v[r].off + k - 1>>
    BY AddressesAre
  <1>2. /\ b \in Seq(Address) /\ Len(b) = N
        /\ \A r \in 1 .. Len(w) : \A k \in 1 .. w[r].len :
             b[M[r - 1] + k] = <<w[r].buf, w[r].off + k - 1>>
    BY AddressesAre
  <1>3. /\ Len(v) \in Nat /\ Len(w) \in Nat /\ N \in Nat /\ L[Len(v)] \in Nat
        /\ d + N <= L[Len(v)]
    <2>1. Len(v) \in Nat /\ Len(w) \in Nat
      BY EntryTypes
    <2>2. Len(v) \in 0 .. Len(v) /\ Len(w) \in 0 .. Len(w)
      BY <2>1
    <2> QED
      BY <2>1, <2>2
  <1>4. \A i \in d + 1 .. d + N : a[i] \in Address
    <2> HIDE DEF a, N
    <2> SUFFICES ASSUME NEW i \in d + 1 .. d + N PROVE a[i] \in Address
      OBVIOUS
    <2>1. i \in 1 .. Len(a)
      BY <1>1, <1>3
    <2> QED
      BY <1>1, <2>1, ElementOfSeq
  <1>5. /\ c \in Seq(Address) /\ Len(c) = N
        /\ \A i \in 1 .. N : c[i] = a[d + i]
    <2> HIDE DEF a, N
    <2>1. /\ c \in Seq(Address)
          /\ Len(c) = IF d + 1 <= d + N THEN d + N - (d + 1) + 1 ELSE 0
          /\ \A i \in 1 .. d + N - (d + 1) + 1 : c[i] = a[d + 1 + i - 1]
      BY <1>3, <1>4, SubSeqProperties
    <2>2. d + N - (d + 1) + 1 = N /\ \A i \in 1 .. N : d + 1 + i - 1 = d + i
      BY <1>3
    <2>3. (IF d + 1 <= d + N THEN d + N - (d + 1) + 1 ELSE 0) = N
      BY <1>3
    <2> HIDE DEF c
    <2> QED
      BY <2>1, <2>2, <2>3
  <1>6. ASSUME NEW p \in 1 .. N PROVE b[p] = c[p]
    <2>1. PICK r \in 1 .. Len(w) : \E k \in 1 .. w[r].len : p = M[r - 1] + k
      BY SumCovers
    <2>2. PICK k \in 1 .. w[r].len : p = M[r - 1] + k
      BY <2>1
    <2> HIDE DEF a, b, c, N
    <2>3. PICK q \in 1 .. Len(v) : \E j \in 1 .. v[q].len :
             /\ d + M[r - 1] + k = L[q - 1] + j
             /\ w[r].buf = v[q].buf
             /\ w[r].off + k = v[q].off + j
      BY DEF Within
    <2>4. PICK j \in 1 .. v[q].len :
             /\ d + M[r - 1] + k = L[q - 1] + j
             /\ w[r].buf = v[q].buf
             /\ w[r].off + k = v[q].off + j
      BY <2>3
    <2>5. d + p = L[q - 1] + j
      <3>1. M[r - 1] \in Nat /\ k \in Nat
        <4>1. w[r].len \in Nat
          BY EntryTypes
        <4>2. r - 1 \in 0 .. Len(w)
          BY <1>3
        <4>3. M[r - 1] \in Nat
          BY <4>2
        <4>4. k \in Nat
          BY <4>1
        <4> QED
          BY <4>3, <4>4
      <3> QED
        BY <2>2, <2>4, <3>1
    <2>6. c[p] = <<v[q].buf, v[q].off + j - 1>>
      BY <1>1, <1>5, <2>5
    <2>7. b[p] = <<w[r].buf, w[r].off + k - 1>>
      BY <1>2, <2>2
    <2>8. w[r].off + k - 1 = v[q].off + j - 1
      <3> DEFINE x == w[r].off
                 y == v[q].off
      <3>1. x \in Int /\ y \in Int /\ k \in Int /\ j \in Int
        BY EntryTypes
      <3>2. x + k = y + j
        BY <2>4
      <3> HIDE DEF x, y
      <3>3. x + k - 1 = y + j - 1
        BY <3>1, <3>2
      <3> QED
        BY <3>3 DEF x, y
    <2> QED
      BY <2>4, <2>6, <2>7, <2>8, Zenon
  <1> HIDE DEF a, b, c, N
  <1>7. b = c
    BY <1>2, <1>5, <1>6, SeqEqual
  <1> QED
    BY <1>7 DEF a, b, c, N

(* The first n entries of a vector and their sums.                         *)
LEMMA PrefixSum ==
    ASSUME NEW v \in Seq(Entries), NEW L \in [0 .. Len(v) -> Nat], IsSum(v, L),
           NEW n \in 0 .. Len(v), NEW w, w = SubSeq(v, 1, n),
           NEW M, M = [r \in 0 .. n |-> L[r]]
    PROVE  /\ w \in Seq(Entries) /\ Len(w) = n
           /\ \A r \in 1 .. n : w[r] = v[r]
           /\ M \in [0 .. Len(w) -> Nat] /\ IsSum(w, M)
  <1>1. /\ n \in Nat
        /\ \A r \in 1 .. n : v[r] \in Entries /\ v[r].len \in Nat
        /\ \A r \in 0 .. n : L[r] \in Nat
        /\ L[0] = 0
        /\ \A r \in 1 .. n : L[r] = L[r - 1] + v[r].len
    BY PrefixFacts
  <1>2. w \in Seq(Entries) /\ Len(w) = n /\ \A r \in 1 .. n : w[r] = v[r]
    <2>1. /\ w \in Seq(Entries)
          /\ Len(w) = IF 1 <= n THEN n - 1 + 1 ELSE 0
          /\ \A i \in 1 .. n - 1 + 1 : w[i] = v[1 + i - 1]
      BY <1>1, SubSeqProperties
    <2>2. n - 1 + 1 = n /\ (IF 1 <= n THEN n - 1 + 1 ELSE 0) = n
      BY <1>1
    <2>3. \A i \in 1 .. n : 1 + i - 1 = i
      BY <1>1
    <2> QED
      BY <2>1, <2>2, <2>3
  <1>3. M \in [0 .. n -> Nat]
    BY <1>1
  <1>4. \A r \in 1 .. n : r \in 0 .. n /\ r - 1 \in 0 .. n
    BY <1>1
  <1>5. M[0] = 0 /\ \A r \in 1 .. n : M[r] = M[r - 1] + w[r].len
    <2>1. \A r \in 0 .. n : M[r] = L[r]
      OBVIOUS
    <2>2. 0 \in 0 .. n
      BY <1>1
    <2>3. ASSUME NEW r \in 1 .. n PROVE M[r] = M[r - 1] + w[r].len
      BY <1>1, <1>2, <1>4, <2>1
    <2> QED
      BY <1>1, <2>1, <2>2, <2>3
  <1> QED
    BY <1>2, <1>3, <1>5 DEF IsSum

(* A vector with no entries has no addresses.                              *)
LEMMA NoAddresses == Addresses(<<>>) = <<>>
  <1> DEFINE L == [r \in 0 .. 0 |-> 0]
  <1>1. <<>> \in Seq(Entries) /\ Len(<<>>) = 0
    BY EmptySeq
  <1>2. L \in [0 .. Len(<<>>) -> Nat] /\ IsSum(<<>>, L) /\ L[0] = 0
    BY <1>1 DEF IsSum
  <1> HIDE DEF L
  <1>3. Addresses(<<>>) \in Seq(Address) /\ Len(Addresses(<<>>)) = 0
    BY <1>1, <1>2, AddressesAre
  <1> QED
    BY <1>3, EmptySeq

-----------------------------------------------------------------------------
(* Truncating a message *)

Msgs == [list : Seq(Entries), iovcnt : Nat]

(* The record that tapsMessageTruncate makes of a message.                 *)
Shortened(m, count, i, rem) == [m EXCEPT !.iovcnt = count, !.list[i].len = rem]

LEMMA TruncatedRecord ==
    ASSUME NEW m \in Msgs, NEW count \in Nat, NEW i \in 1 .. Len(m.list),
           NEW rem \in Nat,
           NEW e, e = [buf |-> m.list[i].buf, off |-> m.list[i].off, len |-> rem],
           NEW t, t = Shortened(m, count, i, rem)
    PROVE  /\ t \in Msgs /\ e \in Entries
           /\ t.iovcnt = count
           /\ Len(t.list) = Len(m.list)
           /\ t.list[i] = e
           /\ \A j \in 1 .. Len(m.list) : j # i => t.list[j] = m.list[j]
  <1> DEFINE l == m.list
             u == [l EXCEPT ![i] = e]
  <1>1. l \in Seq(Entries) /\ l[i] \in Entries
    BY ElementOfSeq DEF Msgs
  <1>2. e \in Entries /\ [l[i] EXCEPT !.len = rem] = e
    <2> HIDE DEF l
    <2>1. e = [buf |-> l[i].buf, off |-> l[i].off, len |-> rem]
      BY DEF l
    <2>2. l[i].buf \in Nat /\ l[i].off \in Nat
      BY <1>1 DEF Entries
    <2>3. [l[i] EXCEPT !.len = rem] \in [buf : {l[i].buf}, off : {l[i].off}, len : {rem}]
      BY <1>1 DEF Entries
    <2>4. e \in [buf : {l[i].buf}, off : {l[i].off}, len : {rem}]
      BY <2>1
    <2> QED
      BY <2>1, <2>2, <2>3, <2>4 DEF Entries
  <1>3. [l EXCEPT ![i].len = rem] = u
    BY <1>2
  <1>4. t = [list |-> u, iovcnt |-> count]
    <2>1. t = [m EXCEPT !.iovcnt = count, !.list = u]
      BY <1>3 DEF Shortened
    <2> HIDE DEF u
    <2> QED
      BY <2>1 DEF Msgs
  <1>5. /\ u \in Seq(Entries) /\ Len(u) = Len(l)
        /\ \A j \in 1 .. Len(l) : u[j] = IF j = i THEN e ELSE l[j]
    <2> HIDE DEF l
    <2>1. i \in 1 .. Len(l)
      BY DEF l
    <2> QED
      BY <1>1, <1>2, <2>1, ExceptSeq
  <1> HIDE DEF u
  <1>6. t.list = u /\ t.iovcnt = count /\ t \in Msgs
    <2>1. t.list = u /\ t.iovcnt = count
      BY ONLY <1>4
    <2> QED
      BY <1>4, <1>5, <2>1 DEF Msgs
  <1> QED
    BY <1>2, <1>5, <1>6

(* Truncating leaves the first bytes where they are, as many as asked for, *)
(* and nothing when the message has fewer; no entry moves or grows.        *)
LEMMA TruncateIs ==
    ASSUME NEW m \in Msgs, m.iovcnt <= Len(m.list), NEW length \in Nat,
           NEW t, t = tapsMessageTruncate(m, length),
           NEW b, b = Addresses(tapsMessageGetIovec(m))
    PROVE  /\ t \in Msgs /\ t.iovcnt <= Len(t.list) /\ Len(t.list) = Len(m.list)
           /\ \A i \in 1 .. Len(m.list) :
                /\ t.list[i].buf = m.list[i].buf /\ t.list[i].off = m.list[i].off
                /\ t.list[i].len <= m.list[i].len
           /\ b \in Seq(Address)
           /\ length <= Len(b) =>
                Addresses(tapsMessageGetIovec(t)) = SubSeq(b, 1, length)
           /\ length > Len(b) => Addresses(tapsMessageGetIovec(t)) = <<>>
  <1> DEFINE v == m.list
             n == m.iovcnt
             row == StopRow(v, n, length)
             g == SubSeq(v, 1, n)
  <1>1. /\ v \in Seq(Entries) /\ n \in Nat /\ Len(v) \in Nat /\ n \in 0 .. Len(v)
        /\ \A i \in 1 .. Len(v) : v[i].len \in Nat
    <2>1. v \in Seq(Entries) /\ n \in Nat
      BY DEF Msgs
    <2>2. Len(v) \in Nat /\ \A i \in 1 .. Len(v) : v[i].len \in Nat
      BY <2>1, EntryTypes
    <2> QED
      BY <2>1, <2>2
  <1>2. PICK L \in [0 .. Len(v) -> Nat] : IsSum(v, L)
    BY <1>1, SumExists
  <1> DEFINE G == [r \in 0 .. n |-> L[r]]
  <1>3. /\ g \in Seq(Entries) /\ Len(g) = n
        /\ \A r \in 1 .. n : g[r] = v[r]
        /\ G \in [0 .. Len(g) -> Nat] /\ IsSum(g, G)
    <2> HIDE DEF v, n
    <2> QED
      BY <1>1, <1>2, PrefixSum
  <1>4. /\ row \in 0 .. n
        /\ row < n => L[row] <= length /\ length <= L[row + 1]
        /\ row = n => n = 0 \/ L[n] < length
    <2> HIDE DEF v, n
    <2> QED
      BY <1>1, <1>2, StopRowIs
  <1>5. b = Addresses(g)
    BY DEF tapsMessageGetIovec
  <1>6. b \in Seq(Address) /\ Len(b) = L[n]
    <2>1. b \in Seq(Address) /\ Len(b) = G[Len(g)]
      <3> HIDE DEF g, G
      <3> QED
        BY <1>3, <1>5, AddressesAre
    <2>2. G[n] = L[n]
      BY <1>1
    <2> HIDE DEF g, G
    <2> QED
      BY <1>3, <2>1, <2>2
  <1>7. CASE row = n
    <2>1. t = [m EXCEPT !.iovcnt = 0]
      BY <1>7 DEF tapsMessageTruncate
    <2>2. t \in Msgs /\ t.list = v /\ t.iovcnt = 0
      BY <2>1 DEF Msgs
    <2>3. Addresses(tapsMessageGetIovec(t)) = <<>>
      <3>1. SubSeq(v, 1, 0) = <<>>
        BY SubSeqEmpty
      <3> QED
        BY <2>2, <3>1, NoAddresses DEF tapsMessageGetIovec
    <2>4. ASSUME length <= Len(b) PROVE SubSeq(b, 1, length) = <<>>
      <3>1. n = 0 /\ L[0] = 0
        BY <1>1, <1>2, <1>4, <1>6, <1>7, <2>4 DEF IsSum
      <3>2. length = 0
        BY <1>6, <2>4, <3>1
      <3> QED
        BY <3>2, SubSeqEmpty
    <2>5. \A i \in 1 .. Len(v) : v[i].len <= v[i].len
      BY <1>1
    <2> HIDE DEF row, g, G
    <2> QED
      BY <1>1, <1>6, <2>2, <2>3, <2>4, <2>5
  <1>8. CASE row # n
    <2> DEFINE i == row + 1
               rem == length - L[row]
               e == [buf |-> v[i].buf, off |-> v[i].off, len |-> rem]
               w == SubSeq(t.list, 1, i)
               M == [r \in 0 .. i |-> IF r = i THEN length ELSE L[r]]
    <2>1. /\ row \in Nat /\ i \in 1 .. n /\ i \in 1 .. Len(v) /\ row \in 0 .. n
          /\ i \in Nat /\ row < n /\ i - 1 = row
      BY <1>1, <1>4, <1>8
    <2>2. L[0] = 0 /\ \A r \in 1 .. Len(v) : L[r] = L[r - 1] + v[r].len
      BY <1>2 DEF IsSum
    <2>3. /\ rem \in Nat /\ rem <= v[i].len /\ L[row] + rem = length
          /\ L[row] \in Nat /\ L[i] \in Nat
      <3>1. L[i] = L[row] + v[i].len
        BY <2>1, <2>2
      <3>2. L[row] \in Nat /\ L[i] \in Nat /\ v[i].len \in Nat
        BY <1>1, <2>1
      <3>3. L[row] <= length /\ length <= L[i]
        BY <1>4, <2>1
      <3> HIDE DEF row, i, v
      <3> QED
        BY <3>1, <3>2, <3>3
    <2>4. t = Shortened(m, i, i, rem)
      <3>1. Remaining(v, n, length)[row] = rem
        <4> HIDE DEF v, n, row
        <4> QED
          BY <1>1, <1>2, <2>1, RemainingIs
      <3> QED
        BY <1>8, <3>1 DEF tapsMessageTruncate, Shortened
    <2>5. /\ t \in Msgs /\ e \in Entries /\ t.iovcnt = i
          /\ Len(t.list) = Len(v) /\ t.list[i] = e
          /\ \A j \in 1 .. Len(v) : j # i => t.list[j] = v[j]
      <3>1. i \in Nat /\ i \in 1 .. Len(m.list) /\ rem \in Nat
        BY <2>1, <2>3
      <3>2. e = [buf |-> m.list[i].buf, off |-> m.list[i].off, len |-> rem]
        OBVIOUS
      <3> HIDE DEF i, rem, e
      <3> QED
        BY <2>4, <3>1, <3>2, TruncatedRecord
    <2>6. length <= L[n]
      <3>1. L[i] <= L[n]
        <4>1. i \in 0 .. n /\ n \in 0 .. Len(v)
          BY <1>1, <2>1
        <4> HIDE DEF i, n, v
        <4> QED
          BY <1>1, <1>2, <4>1, SumGrows
      <3>2. L[n] \in Nat /\ length <= L[i]
        BY <1>1, <1>4, <2>1
      <3> HIDE DEF i, n, v, row
      <3> QED
        BY <2>3, <3>1, <3>2
    <2>7. /\ w \in Seq(Entries) /\ Len(w) = i /\ w[i] = e
          /\ \A r \in 1 .. row : w[r] = v[r]
      <3> DEFINE u == t.list
      <3>1. u \in Seq(Entries) /\ i \in 0 .. Len(u)
        BY <1>1, <2>1, <2>5 DEF Msgs
      <3>2. PICK K \in [0 .. Len(u) -> Nat] : IsSum(u, K)
        BY <3>1, SumExists
      <3>3. w \in Seq(Entries) /\ Len(w) = i /\ \A r \in 1 .. i : w[r] = u[r]
        <4> HIDE DEF u, i
        <4> QED
          BY <3>1, <3>2, PrefixSum DEF u
      <3>4. \A r \in 1 .. row : r \in 1 .. i /\ r \in 1 .. Len(v) /\ r # i
        BY <1>1, <2>1
      <3>5. i \in 1 .. i
        BY <2>1
      <3> HIDE DEF w, e, i, v, row
      <3> QED
        BY <2>5, <3>3, <3>4, <3>5
    <2>8. /\ M \in [0 .. Len(w) -> Nat] /\ IsSum(w, M) /\ M[Len(w)] = length
          /\ \A r \in 0 .. row : M[r] = L[r]
      <3>1. M \in [0 .. i -> Nat]
        BY <1>1, <2>1
      <3>2. M[i] = length /\ \A r \in 0 .. row : M[r] = L[r]
        BY <2>1
      <3>3. M[0] = 0
        BY <2>1, <2>2, <3>2
      <3>4. ASSUME NEW r \in 1 .. i PROVE M[r] = M[r - 1] + w[r].len
        <4>1. CASE r = i
          <5>1. w[r].len = rem /\ M[r - 1] = L[row] /\ M[r] = length
            BY <2>1, <2>7, <3>2, <4>1
          <5> HIDE DEF M, w, rem, row
          <5> QED
            BY <2>3, <5>1
        <4>2. CASE r # i
          <5>1. r \in 1 .. row /\ r \in 0 .. row /\ r - 1 \in 0 .. row /\ r \in 1 .. Len(v)
            BY <1>1, <2>1, <4>2
          <5> HIDE DEF M, w, row, v
          <5> QED
            BY <2>2, <2>7, <3>2, <5>1
        <4> QED
          BY <4>1, <4>2
      <3> HIDE DEF M, w, i, row
      <3> QED
        BY <2>7, <3>1, <3>2, <3>3, <3>4 DEF IsSum
    <2>9. Within(w, M, 0, g, G)
      <3> SUFFICES ASSUME NEW r \in 1 .. Len(w), NEW k \in 1 .. w[r].len
                   PROVE  \E q \in 1 .. Len(g) : \E j \in 1 .. g[q].len :
                            /\ 0 + M[r - 1] + k = G[q - 1] + j
                            /\ w[r].buf = g[q].buf
                            /\ w[r].off + k = g[q].off + j
        BY DEF Within
      <3>1. /\ r \in 1 .. i /\ r \in 1 .. n /\ r - 1 \in 0 .. row /\ r - 1 \in 0 .. n
            /\ r \in 1 .. Len(v)
        BY <1>1, <2>1, <2>7
      <3>2. M[r - 1] = G[r - 1] /\ M[r - 1] \in Nat /\ g[r] = v[r]
        <4>1. G[r - 1] = L[r - 1] /\ L[r - 1] \in Nat
          BY <1>1, <3>1
        <4> HIDE DEF M, G, g, v, n, row
        <4> QED
          BY <1>3, <2>8, <3>1, <4>1
      <3>3. /\ w[r].buf = v[r].buf /\ w[r].off = v[r].off
            /\ w[r].len <= v[r].len /\ w[r].len \in Nat
        <4>1. CASE r = i
          <5>1. w[r].buf = v[r].buf /\ w[r].off = v[r].off /\ w[r].len = rem
            <6> HIDE DEF w, v, i, rem
            <6> QED
              BY <2>7, <4>1
          <5> HIDE DEF w, v, i, rem
          <5> QED
            BY <2>3, <4>1, <5>1
        <4>2. CASE r # i
          <5>1. r \in 1 .. row
            BY <2>1, <3>1, <4>2
          <5>2. w[r] = v[r] /\ v[r].len \in Nat
            BY <1>1, <2>7, <3>1, <5>1
          <5> HIDE DEF w, v
          <5> QED
            BY <5>2
        <4> QED
          BY <4>1, <4>2
      <3>4. k \in 1 .. g[r].len /\ r \in 1 .. Len(g) /\ k \in Nat
        <4>1. v[r].len \in Nat
          BY <1>1, <3>1
        <4> HIDE DEF w, v, g, n
        <4> QED
          BY <1>3, <3>1, <3>2, <3>3, <4>1, SMTT(30)
      <3> HIDE DEF w, v, g, G, M
      <3>5. /\ 0 + M[r - 1] + k = G[r - 1] + k
            /\ w[r].buf = g[r].buf /\ w[r].off + k = g[r].off + k
        BY <3>2, <3>3, <3>4
      <3> QED
        BY <3>4, <3>5
    <2>10. Addresses(w) = SubSeq(b, 1, length)
      <3>1. G[Len(g)] = L[n] /\ 0 + length <= L[n] /\ 0 + 1 = 1 /\ 0 + length = length
        BY <1>1, <1>3, <2>6
      <3> HIDE DEF w, M, g, G, n
      <3>2. Addresses(w) = SubSeq(Addresses(g), 0 + 1, 0 + M[Len(w)])
        <4>1. /\ g \in Seq(Entries) /\ G \in [0 .. Len(g) -> Nat] /\ IsSum(g, G)
              /\ w \in Seq(Entries) /\ M \in [0 .. Len(w) -> Nat] /\ IsSum(w, M)
              /\ 0 \in Nat /\ 0 + M[Len(w)] <= G[Len(g)]
          BY <1>3, <2>7, <2>8, <3>1
        <4> QED
          BY <2>9, <4>1, SliceOf, ZenonT(60)
      <3> QED
        BY <1>5, <2>8, <3>1, <3>2
    <2>11. Addresses(tapsMessageGetIovec(t)) = SubSeq(b, 1, length)
      BY <2>5, <2>10 DEF tapsMessageGetIovec
    <2>12. ASSUME NEW j \in 1 .. Len(v)
           PROVE  /\ t.list[j].buf = v[j].buf /\ t.list[j].off = v[j].off
                  /\ t.list[j].len <= v[j].len
      <3>1. CASE j = i
        <4> HIDE DEF i, v, rem
        <4> QED
          BY <2>3, <2>5, <3>1
      <3>2. CASE j # i
        <4>1. t.list[j] = v[j] /\ v[j].len \in Nat
          BY <1>1, <2>5, <3>2
        <4> HIDE DEF i, v
        <4> QED
          BY <4>1
      <3> QED
        BY <3>1, <3>2
    <2> HIDE DEF row, g, G, w, M, e, rem
    <2>13. ~(length > Len(b)) /\ i <= Len(v)
      BY <1>1, <1>6, <2>1, <2>6
    <2> QED
      BY <1>6, <2>5, <2>11, <2>12, <2>13
  <1> HIDE DEF row, g, G
  <1> QED
    BY <1>7, <1>8

-----------------------------------------------------------------------------
(* Leaving out what is filled *)

(* A vector without the first rem bytes of its first entry.                *)
Advanced(s, rem) == [s EXCEPT ![1].off = @ + rem, ![1].len = @ - rem]

LEMMA AdvancedIs ==
    ASSUME NEW s \in Seq(Entries), Len(s) >= 1, NEW rem \in Nat,
           rem <= s[1].len
    PROVE  /\ Advanced(s, rem) \in Seq(Entries)
           /\ Len(Advanced(s, rem)) = Len(s)
           /\ Advanced(s, rem)[1].buf = s[1].buf
           /\ Advanced(s, rem)[1].off = s[1].off + rem
           /\ Advanced(s, rem)[1].len = s[1].len - rem
           /\ \A j \in 2 .. Len(s) : Advanced(s, rem)[j] = s[j]
  <1> DEFINE e == [buf |-> s[1].buf, off |-> s[1].off + rem, len |-> s[1].len - rem]
             u == [s EXCEPT ![1] = e]
  <1>1. /\ Len(s) \in Nat /\ 1 \in 1 .. Len(s) /\ s[1] \in Entries
        /\ s[1].buf \in Nat /\ s[1].off \in Nat /\ s[1].len \in Nat
    <2>1. Len(s) \in Nat /\ 1 \in 1 .. Len(s)
      BY LenProperties
    <2> QED
      BY <2>1, EntryTypes
  <1>2. e \in Entries
    BY <1>1 DEF Entries
  <1>3. Advanced(s, rem) = u
    <2> DEFINE s1 == [s EXCEPT ![1].off = @ + rem]
               e1 == [s[1] EXCEPT !.off = s[1].off + rem]
    <2>1. s1 = [s EXCEPT ![1] = e1]
      OBVIOUS
    <2>2. DOMAIN s = 1 .. Len(s)
      BY LenProperties
    <2>3. s1[1] = e1
      BY <1>1, <2>1, <2>2
    <2>4. Advanced(s, rem) = [s1 EXCEPT ![1].len = @ - rem]
      BY DEF Advanced
    <2>5. Advanced(s, rem) = [s1 EXCEPT ![1] = [e1 EXCEPT !.len = e1.len - rem]]
      <3> HIDE DEF s1, e1
      <3> QED
        BY <2>3, <2>4
    <2>6. e1 \in Entries /\ e1.buf = s[1].buf /\ e1.off = s[1].off + rem /\ e1.len = s[1].len
      BY <1>1, SMTT(30) DEF Entries
    <2>7. [e1 EXCEPT !.len = e1.len - rem] = e
      <3> DEFINE R == [buf : {s[1].buf}, off : {s[1].off + rem}, len : {s[1].len - rem}]
      <3> HIDE DEF e1
      <3>1. [e1 EXCEPT !.len = e1.len - rem] \in R
        BY <2>6 DEF Entries
      <3>2. e \in R
        OBVIOUS
      <3> QED
        BY <3>1, <3>2
    <2>8. [s1 EXCEPT ![1] = e] = u
      <3> HIDE DEF e, e1
      <3> QED
        BY <1>1, <2>1, <2>2
    <2> HIDE DEF s1, e1, e, u
    <2> QED
      BY <2>5, <2>7, <2>8
  <1>4. /\ u \in Seq(Entries) /\ Len(u) = Len(s)
        /\ \A j \in 1 .. Len(s) : u[j] = IF j = 1 THEN e ELSE s[j]
    <2> HIDE DEF e
    <2> QED
      BY <1>1, <1>2, ExceptSeq
  <1>5. e.buf = s[1].buf /\ e.off = s[1].off + rem /\ e.len = s[1].len - rem
    OBVIOUS
  <1>6. \A j \in 2 .. Len(s) : j \in 1 .. Len(s) /\ j # 1
    BY <1>1
  <1>7. u[1] = e /\ \A j \in 2 .. Len(s) : u[j] = s[j]
    BY <1>1, <1>4, <1>6
  <1> HIDE DEF u, e
  <1> QED
    BY <1>3, <1>4, <1>5, <1>7

(* _taps_trunc_iovec of no more than the vector holds does not run past    *)
(* its end, and the new vector covers exactly what follows.                *)
LEMMA TruncIovecIs ==
    ASSUME NEW v \in Seq(Entries), Len(v) # 0, NEW len \in Nat,
           len <= Len(Addresses(v)),
           NEW w, w = taps_trunc_iovec(v, len)
    PROVE  /\ w \in Seq(Entries) /\ w # Overrun
           /\ Addresses(w) = SubSeq(Addresses(v), len + 1, Len(Addresses(v)))
           /\ \A i \in 1 .. Len(w) : \E j \in 1 .. Len(v) :
                /\ w[i].buf = v[j].buf
                /\ w[i].off + w[i].len = v[j].off + v[j].len
  <1> DEFINE n == Len(v)
             row == StopRow(v, n, len)
             s == SubSeq(v, row + 1, n)
  <1>1. /\ n \in Nat /\ n # 0 /\ n \in 0 .. Len(v)
        /\ \A r \in 1 .. n : /\ v[r] \in Entries /\ v[r].len \in Nat
                             /\ v[r].off \in Nat
    <2>1. Len(v) \in Nat
      BY EntryTypes
    <2> QED
      BY <2>1, EntryTypes
  <1>2. PICK L \in [0 .. n -> Nat] : IsSum(v, L)
    BY SumExists
  <1>3. /\ L[0] = 0 /\ \A r \in 1 .. n : L[r] = L[r - 1] + v[r].len
        /\ \A r \in 0 .. n : L[r] \in Nat
    BY <1>2 DEF IsSum
  <1>4. Len(Addresses(v)) = L[n]
    BY <1>2, AddressesAre
  <1>5. /\ row \in 0 .. n
        /\ row < n => L[row] <= len /\ len <= L[row + 1]
        /\ row = n => n = 0 \/ L[n] < len
    BY <1>1, <1>2, StopRowIs
  <1> DEFINE rem == len - L[row]
             c == n - row
             M == [r \in 0 .. c |-> IF r = 0 THEN 0 ELSE L[row + r] - len]
  <1>6. /\ row # n /\ row < n /\ row \in Nat /\ row + 1 \in 1 .. n /\ c \in Nat /\ c >= 1
        /\ L[n] \in Nat /\ len <= L[n]
    <2> HIDE DEF row, n
    <2>1. L[n] \in Nat /\ len <= L[n]
      BY <1>1, <1>3, <1>4
    <2>2. row # n
      BY <1>1, <1>5, <2>1
    <2> QED
      BY <1>1, <1>5, <2>1, <2>2
  <1> HIDE DEF row, n
  <1>7. Remaining(v, n, len)[row] = rem
    BY <1>1, <1>2, <1>5, RemainingIs DEF n
  <1>8. w = Advanced(s, rem)
    BY <1>6, <1>7 DEF taps_trunc_iovec, Advanced, row, n
  <1>9. /\ s \in Seq(Entries) /\ Len(s) = c
        /\ \A i \in 1 .. c : s[i] = v[row + i]
    <2>1. \A i \in row + 1 .. n : v[i] \in Entries
      <3>1. \A i \in row + 1 .. n : i \in 1 .. n
        BY <1>1, <1>6
      <3> QED
        BY <1>1, <3>1
    <2>2. /\ s \in Seq(Entries)
          /\ Len(s) = IF row + 1 <= n THEN n - (row + 1) + 1 ELSE 0
          /\ \A i \in 1 .. n - (row + 1) + 1 : s[i] = v[row + 1 + i - 1]
      BY <1>1, <1>6, <2>1, SubSeqProperties
    <2>3. /\ n - (row + 1) + 1 = c /\ \A i \in 1 .. c : row + 1 + i - 1 = row + i
          /\ (IF row + 1 <= n THEN n - (row + 1) + 1 ELSE 0) = c
      BY <1>1, <1>6
    <2> HIDE DEF s, c
    <2> QED
      BY <2>2, <2>3
  <1> HIDE DEF s, c
  <1>10. /\ rem \in Nat /\ rem <= s[1].len /\ L[row] + rem = len /\ L[row] \in Nat
         /\ s[1] = v[row + 1] /\ v[row + 1].len \in Nat
         /\ L[row + 1] = L[row] + v[row + 1].len
    <2>1. L[row + 1] = L[row] + v[row + 1].len
      <3>1. row + 1 - 1 = row
        BY <1>6
      <3> QED
        BY <1>3, <1>6, <3>1
    <2>2. L[row] \in Nat /\ L[row + 1] \in Nat /\ v[row + 1].len \in Nat
      BY <1>1, <1>3, <1>5, <1>6
    <2>3. s[1] = v[row + 1]
      BY <1>6, <1>9
    <2> QED
      BY <1>5, <1>6, <2>1, <2>2, <2>3
  <1> HIDE DEF rem
  <1>11. /\ w \in Seq(Entries) /\ Len(w) = c
         /\ w[1].buf = v[row + 1].buf
         /\ w[1].off = v[row + 1].off + rem
         /\ w[1].len = v[row + 1].len - rem
         /\ \A j \in 2 .. c : w[j] = v[row + j]
    <2>1. Len(s) >= 1
      BY <1>6, <1>9
    <2>2. /\ w \in Seq(Entries) /\ Len(w) = Len(s)
          /\ w[1].buf = s[1].buf
          /\ w[1].off = s[1].off + rem
          /\ w[1].len = s[1].len - rem
          /\ \A j \in 2 .. Len(s) : w[j] = s[j]
      <3>1. s \in Seq(Entries) /\ rem \in Nat /\ rem <= s[1].len
        BY <1>9, <1>10
      <3> DEFINE u == Advanced(s, rem)
      <3>2. /\ u \in Seq(Entries) /\ Len(u) = Len(s)
            /\ u[1].buf = s[1].buf
            /\ u[1].off = s[1].off + rem
            /\ u[1].len = s[1].len - rem
            /\ \A j \in 2 .. Len(s) : u[j] = s[j]
        BY <2>1, <3>1, AdvancedIs
      <3> HIDE DEF u
      <3>3. w = u
        BY <1>8 DEF u
      <3> QED
        BY <3>2, <3>3
    <2>3. \A j \in 2 .. c : j \in 1 .. c
      BY <1>6
    <2> QED
      BY <1>9, <1>10, <2>2, <2>3
  <1>12. /\ M \in [0 .. Len(w) -> Nat] /\ IsSum(w, M)
         /\ M[0] = 0 /\ \A r \in 1 .. c : M[r] = L[row + r] - len /\ L[row + r] \in Nat
    <2>1. M[0] = 0 /\ \A r \in 1 .. c : M[r] = L[row + r] - len
      BY <1>6
    <2>2. ASSUME NEW r \in 1 .. c PROVE L[row + r] \in Nat /\ len <= L[row + r]
      <3>1. row + r \in 0 .. n /\ row + 1 \in 0 .. row + r
        BY <1>1, <1>6 DEF c
      <3>2. L[row + 1] <= L[row + r]
        BY <1>2, <3>1, SumGrows DEF n
      <3>3. L[row + r] \in Nat /\ L[row + 1] \in Nat /\ len <= L[row + 1]
        BY <1>3, <1>5, <1>6, <3>1
      <3> QED
        BY <3>2, <3>3
    <2>3. M \in [0 .. c -> Nat]
      <3>1. ASSUME NEW r \in 0 .. c
            PROVE  (IF r = 0 THEN 0 ELSE L[row + r] - len) \in Nat
        <4>1. CASE r = 0
          BY <4>1
        <4>2. CASE r # 0
          <5>1. r \in 1 .. c
            BY <1>6, <4>2
          <5> QED
            BY <2>2, <4>2, <5>1
        <4> QED
          BY <4>1, <4>2
      <3> QED
        BY <3>1
    <2> HIDE DEF M
    <2>4. ASSUME NEW r \in 1 .. c PROVE M[r] = M[r - 1] + w[r].len
      <3>1. CASE r = 1
        <4>1. /\ M[r] = L[row + 1] - len /\ M[r - 1] = 0
              /\ w[r].len = v[row + 1].len - rem
          BY <1>11, <2>1, <3>1
        <4> QED
          BY <1>10, <4>1
      <3>2. CASE r # 1
        <4>1. /\ r - 1 \in 1 .. c /\ r \in 2 .. c /\ row + r \in 1 .. n
              /\ (row + r) - 1 = row + (r - 1)
          BY <1>1, <1>6, <3>2 DEF c
        <4>2. M[r] = L[row + r] - len /\ M[r - 1] = L[row + (r - 1)] - len
          BY <2>1, <4>1
        <4>3. L[row + r] = L[row + (r - 1)] + v[row + r].len
          BY <1>3, <4>1
        <4>4. w[r] = v[row + r]
          BY <1>11, <4>1
        <4>5. L[row + (r - 1)] \in Nat /\ v[row + r].len \in Nat
          BY <1>1, <2>2, <4>1
        <4> QED
          BY <4>2, <4>3, <4>4, <4>5
      <3> QED
        BY <3>1, <3>2
    <2> QED
      BY <1>11, <2>1, <2>2, <2>3, <2>4 DEF IsSum
  <1> HIDE DEF M
  <1>13. Within(w, M, len, v, L)
    <2> SUFFICES ASSUME NEW r \in 1 .. Len(w), NEW k \in 1 .. w[r].len
                 PROVE  \E q \in 1 .. Len(v) : \E j \in 1 .. v[q].len :
                          /\ len + M[r - 1] + k = L[q - 1] + j
                          /\ w[r].buf = v[q].buf
                          /\ w[r].off + k = v[q].off + j
      BY DEF Within
    <2>0. r \in 1 .. c /\ row + r \in 1 .. n /\ row + r \in 1 .. Len(v)
      BY <1>1, <1>6, <1>11 DEF c, n
    <2>1. CASE r = 1
      <3>1. /\ w[r].len = v[row + 1].len - rem /\ w[r].buf = v[row + 1].buf
            /\ w[r].off = v[row + 1].off + rem /\ v[row + 1].off \in Nat
            /\ M[r - 1] = 0
        BY <1>1, <1>6, <1>11, <1>12, <2>1
      <3> DEFINE j == rem + k
                 q == row + 1
      <3>2. q \in 1 .. Len(v) /\ q - 1 = row
        BY <1>6, <2>0, <2>1
      <3>3. k \in Nat /\ 1 <= k /\ k <= v[q].len - rem
        BY <1>10, <3>1
      <3>4. j \in 1 .. v[q].len
        BY <1>10, <3>3, SMTT(30)
      <3>5. len + M[r - 1] + k = L[q - 1] + j
        <4>1. L[q - 1] = L[row]
          BY <3>2
        <4> DEFINE x == L[row]
        <4>2. x \in Nat /\ x + rem = len /\ rem \in Nat
          BY <1>10
        <4> HIDE DEF x, q
        <4>3. len + 0 + k = x + j
          BY <3>3, <4>2
        <4> QED
          BY <3>1, <4>1, <4>3 DEF x
      <3>6. w[r].buf = v[q].buf /\ w[r].off + k = v[q].off + j
        BY <1>10, <3>1, <3>3, SMTT(30)
      <3> HIDE DEF j, q
      <3> QED
        BY <3>2, <3>4, <3>5, <3>6
    <2>2. CASE r # 1
      <3> DEFINE q == row + r
      <3>1. /\ r \in 2 .. c /\ r - 1 \in 1 .. c /\ q - 1 = row + (r - 1)
        BY <1>6, <2>0, <2>2
      <3>2. w[r] = v[q] /\ v[q].len \in Nat
        BY <1>1, <1>11, <2>0, <3>1
      <3>3. M[r - 1] = L[q - 1] - len /\ L[q - 1] \in Nat
        BY <1>12, <3>1
      <3>4. q \in 1 .. Len(v)
        BY <2>0
      <3> HIDE DEF q
      <3>5. k \in 1 .. v[q].len
        BY <3>2
      <3>6. len + M[r - 1] + k = L[q - 1] + k
        BY <3>2, <3>3, <3>5
      <3> QED
        BY <3>2, <3>4, <3>5, <3>6
    <2> QED
      BY <2>1, <2>2
  <1>14. Addresses(w) = SubSeq(Addresses(v), len + 1, L[n])
    <2>1. len + M[Len(w)] = L[n]
      <3>1. c \in 1 .. c /\ row + c = n
        BY <1>1, <1>6 DEF c
      <3>2. M[c] = L[n] - len
        BY <1>12, <3>1
      <3> QED
        BY <1>6, <1>11, <3>2
    <2>2. /\ L \in [0 .. Len(v) -> Nat] /\ len + M[Len(w)] <= L[Len(v)]
      BY <1>6, <2>1 DEF n
    <2>3. Addresses(w) = SubSeq(Addresses(v), len + 1, len + M[Len(w)])
      <3>1. w \in Seq(Entries) /\ M \in [0 .. Len(w) -> Nat] /\ IsSum(w, M)
        BY <1>11, <1>12
      <3> QED
        BY <1>2, <1>13, <2>2, <3>1, SliceOf, ZenonT(60)
    <2> QED
      BY <2>1, <2>3
  <1>15. ASSUME NEW i \in 1 .. Len(w)
         PROVE  \E j \in 1 .. Len(v) :
                  /\ w[i].buf = v[j].buf
                  /\ w[i].off + w[i].len = v[j].off + v[j].len
    <2>0. i \in 1 .. c /\ row + i \in 1 .. n /\ row + i \in 1 .. Len(v)
      BY <1>1, <1>6, <1>11 DEF c, n
    <2>1. CASE i = 1
      <3>1. v[row + 1].off \in Nat
        BY <1>1, <1>6
      <3>2. w[1].off + w[1].len = v[row + 1].off + v[row + 1].len
        BY <1>10, <1>11, <3>1, SMTT(30)
      <3> QED
        BY <1>11, <2>0, <2>1, <3>2
    <2>2. CASE i # 1
      <3>1. i \in 2 .. c
        BY <1>6, <2>0, <2>2
      <3>2. w[i] = v[row + i]
        BY <1>11, <3>1
      <3> QED
        BY <2>0, <3>2
    <2> QED
      BY <2>1, <2>2
  <1>16. w # Overrun
    BY <1>6, <1>11, EmptySeq DEF Overrun
  <1> QED
    BY <1>4, <1>11, <1>14, <1>15, <1>16

-----------------------------------------------------------------------------
(* The inductive invariant of MessageBuffers *)

All == Addresses(tapsMessageGetIovec(message))

(* Every entry of the message is still at the start of its own buffer, so  *)
(* that no address occurs twice.                                           *)
MessageInv ==
    /\ message \in Msgs
    /\ message.iovcnt <= Len(message.list)
    /\ Len(message.list) <= MaxBufs
    /\ \A i \in 1 .. Len(message.list) :
         /\ message.list[i].buf = i
         /\ message.list[i].off = 0
         /\ message.list[i].len <= MaxLen

(* What was read is what lies between start and readPos.                   *)
CountInv ==
    /\ phase \in {"idle", "receiving", "delivered"}
    /\ minLength \in MinLengths \cup {0}
    /\ currLength \in Nat /\ start \in Nat /\ readPos = start + currLength
    /\ readPos <= MaxBytes
    /\ memory \in [AllAddresses -> 0 .. MaxBytes]
    /\ written \in Seq(0 .. MaxBytes)

VecInv ==
    /\ vec \in Seq(Entries)
    /\ \A i \in 1 .. Len(vec) : /\ vec[i].buf \in 1 .. MaxBufs
                                /\ vec[i].off + vec[i].len <= MaxLen

(* The bytes read are at the first addresses of the message, in order, and *)
(* the protocol has the addresses behind them.                             *)
FillInv ==
    /\ phase # "idle" =>
         /\ currLength <= Len(All)
         /\ \A i \in 1 .. currLength : memory[All[i]] = start + i
    /\ phase = "receiving" =>
         Addresses(vec) = SubSeq(All, currLength + 1, Len(All))

BufInv == MessageInv /\ CountInv /\ VecInv /\ FillInv /\ EchoExact

LEMMA MaxLenIs ==
    MaxLen \in Nat /\ MaxLen \in BufLens /\ \A l \in BufLens : l <= MaxLen
  <1>1. MaxLen \in BufLens /\ \A l \in BufLens : l <= MaxLen
    BY BuffersAssumption DEF MaxLen
  <1> QED
    BY <1>1, BuffersAssumption

(* The vector of the message in use.                                       *)
LEMMA IovecIs ==
    ASSUME MessageInv, NEW v, v = tapsMessageGetIovec(message)
    PROVE  /\ v \in Seq(Entries) /\ Len(v) = message.iovcnt /\ Len(v) \in Nat
           /\ \A i \in 1 .. Len(v) :
                /\ v[i].buf = i /\ v[i].buf \in 1 .. MaxBufs
                /\ v[i].off = 0 /\ v[i].len \in Nat /\ v[i].len <= MaxLen
  <1> DEFINE l == message.list
             n == message.iovcnt
  <1>1. l \in Seq(Entries) /\ n \in Nat /\ n <= Len(l)
    BY DEF MessageInv, Msgs
  <1>2. Len(l) \in Nat /\ n \in 0 .. Len(l) /\ Len(l) <= MaxBufs /\ MaxBufs \in Nat
    <2>1. Len(l) \in Nat
      BY <1>1, EntryTypes
    <2> QED
      BY <1>1, <2>1, BuffersAssumption DEF MessageInv
  <1>3. PICK L \in [0 .. Len(l) -> Nat] : IsSum(l, L)
    BY <1>1, SumExists
  <1>4. v = SubSeq(l, 1, n)
    BY DEF tapsMessageGetIovec
  <1>5. v \in Seq(Entries) /\ Len(v) = n /\ \A r \in 1 .. n : v[r] = l[r]
    <2> HIDE DEF l, n
    <2> QED
      BY <1>1, <1>2, <1>3, <1>4, PrefixSum
  <1>6. ASSUME NEW i \in 1 .. Len(v)
        PROVE  /\ v[i].buf = i /\ v[i].buf \in 1 .. MaxBufs
               /\ v[i].off = 0 /\ v[i].len \in Nat /\ v[i].len <= MaxLen
    <2>1. i \in 1 .. n /\ i \in 1 .. Len(l) /\ i \in 1 .. MaxBufs
      <3> HIDE DEF l, n
      <3> QED
        BY <1>2, <1>5
    <2>2. v[i] = l[i]
      BY <1>5, <2>1
    <2>3. l[i].buf = i /\ l[i].off = 0 /\ l[i].len <= MaxLen
      BY <2>1 DEF MessageInv
    <2>4. v[i].len \in Nat
      BY <1>5, EntryTypes
    <2> HIDE DEF l, n
    <2> QED
      BY <2>1, <2>2, <2>3, <2>4
  <1> QED
    BY <1>1, <1>5, <1>6

(* The addresses of the message are memory of its buffers, each once.      *)
LEMMA AllIs ==
    ASSUME MessageInv
    PROVE  /\ All \in Seq(Address) /\ Len(All) \in Nat
           /\ \A p \in 1 .. Len(All) : All[p] \in AllAddresses
           /\ \A p, q \in 1 .. Len(All) : All[p] = All[q] => p = q
  <1> DEFINE v == tapsMessageGetIovec(message)
  <1>1. /\ v \in Seq(Entries) /\ Len(v) \in Nat
        /\ \A i \in 1 .. Len(v) :
                /\ v[i].buf = i /\ v[i].buf \in 1 .. MaxBufs
                /\ v[i].off = 0 /\ v[i].len \in Nat /\ v[i].len <= MaxLen
    BY IovecIs
  <1>2. PICK L \in [0 .. Len(v) -> Nat] : IsSum(v, L)
    BY <1>1, SumExists
  <1>3. All = Addresses(v)
    BY DEF All
  <1> HIDE DEF v
  <1>4. /\ All \in Seq(Address) /\ Len(All) = L[Len(v)]
        /\ \A r \in 1 .. Len(v) : \A k \in 1 .. v[r].len :
             All[L[r - 1] + k] = <<v[r].buf, v[r].off + k - 1>>
    BY <1>1, <1>2, <1>3, AddressesAre
  <1>5. \A r \in 1 .. Len(v) : \A k \in 1 .. v[r].len : All[L[r - 1] + k] = <<r, k - 1>>
    <2> SUFFICES ASSUME NEW r \in 1 .. Len(v), NEW k \in 1 .. v[r].len
                 PROVE  All[L[r - 1] + k] = <<r, k - 1>>
      OBVIOUS
    <2>1. v[r].buf = r /\ v[r].off = 0 /\ v[r].len \in Nat
      BY <1>1
    <2>2. v[r].off + k - 1 = k - 1
      BY <2>1
    <2> QED
      BY <1>4, <2>1, <2>2
  <1>6. ASSUME NEW p \in 1 .. Len(All)
        PROVE  \E r \in 1 .. Len(v) : \E k \in 1 .. v[r].len :
                 p = L[r - 1] + k /\ All[p] = <<r, k - 1>>
    <2>1. PICK r \in 1 .. Len(v) : \E k \in 1 .. v[r].len : p = L[r - 1] + k
      <3>1. p \in 1 .. L[Len(v)] /\ v \in Seq(Entries)
        BY <1>1, <1>4
      <3> QED
        BY <1>2, <3>1, SumCovers, ZenonT(60)
    <2> QED
      BY <1>5, <2>1
  <1>7. Len(All) \in Nat
    BY <1>4, LenProperties
  <1>8. ASSUME NEW p \in 1 .. Len(All) PROVE All[p] \in AllAddresses
    <2>1. PICK r \in 1 .. Len(v) : \E k \in 1 .. v[r].len : All[p] = <<r, k - 1>>
      BY <1>6
    <2>2. PICK k \in 1 .. v[r].len : All[p] = <<r, k - 1>>
      BY <2>1
    <2>3. r \in 1 .. MaxBufs /\ v[r].len \in Nat /\ v[r].len <= MaxLen
      BY <1>1
    <2>4. k - 1 \in 0 .. MaxLen - 1
      BY <2>3, MaxLenIs
    <2> QED
      BY <2>2, <2>3, <2>4 DEF AllAddresses
  <1>9. ASSUME NEW p \in 1 .. Len(All), NEW q \in 1 .. Len(All), All[p] = All[q]
        PROVE  p = q
    <2>1. PICK r \in 1 .. Len(v) : \E k \in 1 .. v[r].len :
             p = L[r - 1] + k /\ All[p] = <<r, k - 1>>
      BY <1>6
    <2>2. PICK k \in 1 .. v[r].len : p = L[r - 1] + k /\ All[p] = <<r, k - 1>>
      BY <2>1
    <2>3. PICK s \in 1 .. Len(v) : \E j \in 1 .. v[s].len :
             q = L[s - 1] + j /\ All[q] = <<s, j - 1>>
      BY <1>6
    <2>4. PICK j \in 1 .. v[s].len : q = L[s - 1] + j /\ All[q] = <<s, j - 1>>
      BY <2>3
    <2>5. r = s /\ k - 1 = j - 1
      BY <1>9, <2>2, <2>4
    <2>6. k = j
      <3>1. v[r].len \in Nat /\ v[s].len \in Nat
        BY <1>1
      <3> QED
        BY <2>5, <3>1
    <2> QED
      BY <2>2, <2>4, <2>5, <2>6
  <1> QED
    BY <1>4, <1>7, <1>8, <1>9

(* Truncating keeps the message's entries in place.                        *)
LEMMA MessageTruncated ==
    ASSUME MessageInv, NEW length \in Nat,
           message' = tapsMessageTruncate(message, length)
    PROVE  /\ MessageInv'
           /\ length <= Len(All) => All' = SubSeq(All, 1, length)
  <1>1. message \in Msgs /\ message.iovcnt <= Len(message.list)
    BY DEF MessageInv
  <1>2. /\ message' \in Msgs /\ message'.iovcnt <= Len(message'.list)
        /\ Len(message'.list) = Len(message.list)
        /\ \A i \in 1 .. Len(message.list) :
             /\ message'.list[i].buf = message.list[i].buf
             /\ message'.list[i].off = message.list[i].off
             /\ message'.list[i].len <= message.list[i].len
        /\ length <= Len(All) =>
             Addresses(tapsMessageGetIovec(message')) = SubSeq(All, 1, length)
    BY <1>1, TruncateIs DEF All
  <1>3. ASSUME NEW i \in 1 .. Len(message'.list)
        PROVE  /\ message'.list[i].buf = i /\ message'.list[i].off = 0
               /\ message'.list[i].len <= MaxLen
    <2>1. i \in 1 .. Len(message.list)
      BY <1>2
    <2>2. message.list[i].buf = i /\ message.list[i].off = 0 /\ message.list[i].len <= MaxLen
      BY <2>1 DEF MessageInv
    <2>3. message'.list[i].len \in Nat /\ message.list[i].len \in Nat
      <3>1. message'.list \in Seq(Entries) /\ message.list \in Seq(Entries)
        BY <1>1, <1>2 DEF Msgs
      <3> QED
        BY <2>1, <3>1, EntryTypes
    <2>4. /\ message'.list[i].buf = message.list[i].buf
          /\ message'.list[i].off = message.list[i].off
          /\ message'.list[i].len <= message.list[i].len
      BY <1>2, <2>1
    <2>5. message'.list[i].len <= MaxLen
      BY <2>2, <2>3, <2>4, MaxLenIs
    <2> QED
      BY <2>2, <2>4, <2>5
  <1>4. Len(message'.list) <= MaxBufs
    BY <1>2 DEF MessageInv
  <1>5. MessageInv'
    BY <1>2, <1>3, <1>4 DEF MessageInv
  <1> QED
    BY <1>2, <1>5 DEF All

(* A message that stays keeps its addresses.                               *)
LEMMA SameMessage ==
    ASSUME message' = message
    PROVE  All' = All /\ (MessageInv => MessageInv')
  BY DEF All, MessageInv

LEMMA TruncateStep ==
    ASSUME BufInv, NEW length \in Nat, Truncate(length)
    PROVE  BufInv'
  <1>1. /\ phase = "idle" /\ message' = tapsMessageTruncate(message, length)
        /\ UNCHANGED <<phase, vec, minLength, currLength, memory, readPos, start,
                       written>>
    BY DEF Truncate
  <1>2. MessageInv'
    BY <1>1, MessageTruncated DEF BufInv
  <1>3. CountInv' /\ VecInv' /\ EchoExact'
    BY <1>1 DEF BufInv, CountInv, VecInv, EchoExact
  <1>4. FillInv'
    BY <1>1 DEF FillInv
  <1> QED
    BY <1>2, <1>3, <1>4 DEF BufInv

LEMMA ReceiveStep ==
    ASSUME BufInv, NEW min \in MinLengths, Receive(min)
    PROVE  BufInv'
  <1>1. /\ phase' = "receiving" /\ minLength' = min /\ currLength' = 0
        /\ start' = readPos /\ vec' = tapsMessageGetIovec(message)
        /\ UNCHANGED <<message, memory, readPos, written>>
    BY DEF Receive
  <1>2. MessageInv /\ CountInv
    BY DEF BufInv
  <1>3. MessageInv' /\ All' = All
    BY <1>1, <1>2, SameMessage
  <1>4. CountInv'
    BY <1>1, <1>2 DEF CountInv
  <1>5. VecInv'
    <2>1. /\ vec' \in Seq(Entries)
          /\ \A i \in 1 .. Len(vec') :
                /\ vec'[i].buf \in 1 .. MaxBufs
                /\ vec'[i].off = 0 /\ vec'[i].len \in Nat /\ vec'[i].len <= MaxLen
      BY <1>1, <1>2, IovecIs
    <2>2. ASSUME NEW i \in 1 .. Len(vec') PROVE vec'[i].off + vec'[i].len <= MaxLen
      BY <2>1, MaxLenIs
    <2> QED
      BY <2>1, <2>2 DEF VecInv
  <1>6. FillInv'
    <2>1. All \in Seq(Address) /\ Len(All) \in Nat
      BY <1>2, AllIs
    <2>2. SubSeq(All, 1, Len(All)) = All
      BY <2>1, SubSeqFull
    <2>3. Addresses(vec') = All
      BY <1>1 DEF All
    <2> QED
      BY <1>1, <1>3, <2>1, <2>2, <2>3 DEF FillInv
  <1>7. EchoExact'
    BY <1>1 DEF EchoExact
  <1> QED
    BY <1>3, <1>4, <1>5, <1>6, <1>7 DEF BufInv

(* What readv does to the memory of the message.                           *)
LEMMA FilledIs ==
    ASSUME BufInv, phase = "receiving", NEW n \in 1 .. Total(vec),
           readPos + n <= MaxBytes
    PROVE  /\ currLength + n <= Len(All) /\ n \in Nat
           /\ Filled(n) \in [AllAddresses -> 0 .. MaxBytes]
           /\ \A i \in 1 .. currLength + n : Filled(n)[All[i]] = start + i
  <1> DEFINE c == currLength
             a == Addresses(vec)
  <1>1. MessageInv /\ CountInv /\ FillInv
    BY DEF BufInv
  <1>2. /\ c \in Nat /\ start \in Nat /\ readPos = start + c /\ MaxBytes \in Nat
        /\ memory \in [AllAddresses -> 0 .. MaxBytes]
    BY <1>1, BuffersAssumption DEF CountInv
  <1>3. /\ All \in Seq(Address) /\ Len(All) \in Nat
        /\ \A p \in 1 .. Len(All) : All[p] \in AllAddresses
        /\ \A p, q \in 1 .. Len(All) : All[p] = All[q] => p = q
    BY <1>1, AllIs
  <1>4. /\ c <= Len(All) /\ a = SubSeq(All, c + 1, Len(All))
        /\ \A i \in 1 .. c : memory[All[i]] = start + i
    BY <1>1 DEF FillInv
  <1>5. /\ Len(a) = Len(All) - c
        /\ \A i \in 1 .. Len(All) - c : a[i] = All[c + i]
    <2>1. \A i \in c + 1 .. Len(All) : All[i] \in Address
      <3>1. \A i \in c + 1 .. Len(All) : i \in 1 .. Len(All)
        BY <1>2, <1>3
      <3> QED
        BY <1>3, <3>1, ElementOfSeq
    <2>2. /\ Len(a) = IF c + 1 <= Len(All) THEN Len(All) - (c + 1) + 1 ELSE 0
          /\ \A i \in 1 .. Len(All) - (c + 1) + 1 : a[i] = All[c + 1 + i - 1]
      <3> HIDE DEF a, c
      <3>1. c + 1 \in Int /\ Len(All) \in Int
        BY <1>2, <1>3
      <3> QED
        BY <1>4, <2>1, <3>1, SubSeqProperties
    <2>3. Len(All) - (c + 1) + 1 = Len(All) - c
      BY <1>2, <1>3
    <2>4. (IF c + 1 <= Len(All) THEN Len(All) - (c + 1) + 1 ELSE 0) = Len(All) - c
      BY <1>2, <1>3, <1>4
    <2>5. \A i \in 1 .. Len(All) - c : c + 1 + i - 1 = c + i
      BY <1>2, <1>3
    <2> HIDE DEF a, c
    <2> QED
      BY <2>2, <2>3, <2>4, <2>5
  <1>6. Total(vec) = Len(a)
    BY DEF Total
  <1>7. n \in Nat /\ n >= 1 /\ n <= Len(All) - c /\ c + n <= Len(All)
    <2> HIDE DEF a, c
    <2> QED
      BY <1>2, <1>3, <1>4, <1>5, <1>6
  <1>8. Filled(n) = [x \in AllAddresses |->
                       IF \E i \in 1 .. n : a[i] = x
                       THEN readPos + CHOOSE i \in 1 .. n : a[i] = x
                       ELSE memory[x]]
    BY DEF Filled
  <1> HIDE DEF a, c
  <1>9. Filled(n) \in [AllAddresses -> 0 .. MaxBytes]
    <2>1. ASSUME NEW x \in AllAddresses
          PROVE  (IF \E i \in 1 .. n : a[i] = x
                  THEN readPos + CHOOSE i \in 1 .. n : a[i] = x
                  ELSE memory[x]) \in 0 .. MaxBytes
      <3>1. CASE \E i \in 1 .. n : a[i] = x
        <4> DEFINE j == CHOOSE i \in 1 .. n : a[i] = x
        <4>1. j \in 1 .. n
          BY <3>1
        <4> HIDE DEF j
        <4>2. readPos + j \in 0 .. MaxBytes
          BY <1>2, <1>7, <4>1
        <4> QED
          BY <3>1, <4>2 DEF j
      <3>2. CASE ~\E i \in 1 .. n : a[i] = x
        BY <1>2, <3>2
      <3> QED
        BY <3>1, <3>2
    <2> QED
      BY <1>8, <2>1
  <1>10. ASSUME NEW p \in 1 .. c + n PROVE Filled(n)[All[p]] = start + p
    <2>0. p \in 1 .. Len(All) /\ All[p] \in AllAddresses
      BY <1>2, <1>3, <1>7
    <2>1. \A i \in 1 .. n : c + i \in 1 .. Len(All) /\ a[i] = All[c + i]
      BY <1>2, <1>3, <1>5, <1>7
    <2>2. CASE p <= c
      <3>1. ~\E i \in 1 .. n : a[i] = All[p]
        <4> SUFFICES ASSUME NEW i \in 1 .. n, a[i] = All[p] PROVE FALSE
          OBVIOUS
        <4>1. c + i = p
          BY <1>3, <2>0, <2>1
        <4> QED
          BY <1>2, <2>2, <4>1
      <3>2. Filled(n)[All[p]] = memory[All[p]]
        BY <1>8, <2>0, <3>1
      <3>3. p \in 1 .. c
        BY <1>2, <2>2
      <3> QED
        BY <1>4, <3>2, <3>3 DEF c
    <2>3. CASE ~(p <= c)
      <3> DEFINE i == p - c
                 x == All[p]
      <3>1. i \in 1 .. n /\ c + i = p
        BY <1>2, <1>7, <2>3
      <3>2. a[i] = x
        BY <2>1, <3>1
      <3>3. ASSUME NEW j \in 1 .. n, a[j] = x PROVE j = i
        <4>1. c + j = p
          BY <1>3, <2>0, <2>1, <3>3
        <4> QED
          BY <1>2, <1>7, <3>1, <4>1
      <3>4. (CHOOSE j \in 1 .. n : a[j] = x) = i
        <4> HIDE DEF i, x
        <4> QED
          BY <3>1, <3>2, <3>3
      <3>5. Filled(n)[x] = readPos + i
        <4> HIDE DEF i
        <4>1. \E j \in 1 .. n : a[j] = x
          BY <3>1, <3>2
        <4> QED
          BY <1>8, <2>0, <3>4, <4>1
      <3> QED
        BY <1>2, <3>1, <3>5
    <2> QED
      BY <2>2, <2>3
  <1> QED
    BY <1>7, <1>9, <1>10 DEF c

LEMMA ReceivedPartialStep ==
    ASSUME BufInv, NEW n \in Nat, ReceivedPartial(n)
    PROVE  BufInv'
  <1> DEFINE v == tapsMessageGetIovec(message)
             c == currLength + n
  <1>1. MessageInv /\ CountInv /\ VecInv /\ FillInv
    BY DEF BufInv
  <1>2. /\ phase = "receiving" /\ n \in 1 .. Total(vec) /\ readPos + n <= MaxBytes
        /\ memory' = Filled(n) /\ readPos' = readPos + n /\ currLength' = c
        /\ UNCHANGED <<message, minLength, start, written>>
    BY DEF ReceivedPartial
  <1>3. /\ c <= Len(All)
        /\ memory' \in [AllAddresses -> 0 .. MaxBytes]
        /\ \A i \in 1 .. c : memory'[All[i]] = start + i
    BY <1>2, FilledIs
  <1>4. MessageInv' /\ All' = All
    BY <1>1, <1>2, SameMessage
  <1>5. currLength \in Nat /\ c \in Nat /\ c >= 1 /\ Len(All) \in Nat
    BY <1>1, <1>2, AllIs DEF CountInv
  <1>6. \/ /\ vec' = taps_trunc_iovec(v, c)
           /\ phase' = IF vec' = Overrun THEN "crashed" ELSE "receiving"
        \/ vec' = <<>> /\ phase' = "delivered"
    BY <1>2 DEF ReceivedPartial
  <1> HIDE DEF c
  <1>7. ASSUME phase' \in {"receiving", "delivered"} PROVE CountInv'
    <2>1. /\ currLength' \in Nat /\ start' \in Nat /\ readPos' = start' + currLength'
          /\ readPos' <= MaxBytes
      BY <1>1, <1>2, <1>5 DEF CountInv, c
    <2> QED
      BY <1>1, <1>2, <1>3, <1>7, <2>1 DEF CountInv
  <1>8. CASE vec' = <<>> /\ phase' = "delivered"
    <2>1. VecInv'
      <3>1. vec' \in Seq(Entries) /\ Len(vec') = 0
        BY <1>8, EmptySeq
      <3> QED
        BY <3>1 DEF VecInv
    <2>2. FillInv'
      BY <1>2, <1>3, <1>4, <1>8 DEF FillInv
    <2> QED
      BY <1>4, <1>7, <1>8, <2>1, <2>2 DEF BufInv, EchoExact
  <1>9. CASE /\ vec' = taps_trunc_iovec(v, c)
             /\ phase' = IF vec' = Overrun THEN "crashed" ELSE "receiving"
    <2>1. /\ v \in Seq(Entries) /\ Len(v) \in Nat
          /\ \A i \in 1 .. Len(v) :
               /\ v[i].buf \in 1 .. MaxBufs
               /\ v[i].off = 0 /\ v[i].len \in Nat /\ v[i].len <= MaxLen
      BY <1>1, IovecIs
    <2>2. All = Addresses(v)
      BY DEF All
    <2>3. Len(v) # 0
      <3> SUFFICES ASSUME Len(v) = 0 PROVE FALSE
        OBVIOUS
      <3>1. v = <<>>
        BY <2>1, EmptySeq
      <3>2. Len(All) = 0
        BY <2>2, <3>1, NoAddresses, EmptySeq
      <3> QED
        BY <1>3, <1>5, <3>2
    <2> HIDE DEF v
    <2>4. /\ vec' \in Seq(Entries) /\ vec' # Overrun
          /\ Addresses(vec') = SubSeq(Addresses(v), c + 1, Len(Addresses(v)))
          /\ \A i \in 1 .. Len(vec') : \E j \in 1 .. Len(v) :
               /\ vec'[i].buf = v[j].buf
               /\ vec'[i].off + vec'[i].len = v[j].off + v[j].len
      <3>1. c <= Len(Addresses(v))
        BY <1>3, <2>2
      <3>2. v \in Seq(Entries) /\ c \in Nat /\ vec' = taps_trunc_iovec(v, c)
        BY <1>5, <1>9, <2>1
      <3> DEFINE w == taps_trunc_iovec(v, c)
      <3>3. /\ w \in Seq(Entries) /\ w # Overrun
            /\ Addresses(w) = SubSeq(Addresses(v), c + 1, Len(Addresses(v)))
            /\ \A i \in 1 .. Len(w) : \E j \in 1 .. Len(v) :
                 /\ w[i].buf = v[j].buf
                 /\ w[i].off + w[i].len = v[j].off + v[j].len
        BY ONLY <2>3, <3>1, <3>2, TruncIovecIs
      <3>4. vec' = w
        BY <3>2
      <3> HIDE DEF w
      <3> QED
        BY <3>3, <3>4, Zenon
    <2>5. phase' = "receiving"
      BY <1>9, <2>4
    <2>6. VecInv'
      <3>1. ASSUME NEW i \in 1 .. Len(vec')
            PROVE  vec'[i].buf \in 1 .. MaxBufs /\ vec'[i].off + vec'[i].len <= MaxLen
        <4>1. PICK j \in 1 .. Len(v) : /\ vec'[i].buf = v[j].buf
                                       /\ vec'[i].off + vec'[i].len = v[j].off + v[j].len
          BY <2>4
        <4>2. v[j].off + v[j].len <= MaxLen
          BY <2>1, MaxLenIs
        <4>3. v[j].buf \in 1 .. MaxBufs
          BY <2>1
        <4> QED
          BY <4>1, <4>2, <4>3
      <3> QED
        BY <2>4, <3>1 DEF VecInv
    <2>7. FillInv'
      BY <1>2, <1>3, <1>4, <2>2, <2>4, <2>5 DEF FillInv
    <2> QED
      BY <1>4, <1>7, <2>5, <2>6, <2>7 DEF BufInv, EchoExact
  <1> QED
    BY <1>6, <1>8, <1>9

LEMMA EchoStep ==
    ASSUME BufInv, Echo
    PROVE  BufInv'
  <1> DEFINE c == currLength
             a == Addresses(tapsMessageGetIovec(message'))
  <1>1. MessageInv /\ CountInv /\ VecInv /\ FillInv
    BY DEF BufInv
  <1>2. /\ phase = "delivered" /\ phase' = "idle"
        /\ message' = tapsMessageTruncate(message, c)
        /\ written' = [i \in DOMAIN a |-> memory[a[i]]]
        /\ UNCHANGED <<vec, minLength, currLength, memory, readPos, start>>
    BY DEF Echo
  <1>3. /\ c \in Nat /\ c <= Len(All) /\ start \in Nat /\ MaxBytes \in Nat
        /\ start + c <= MaxBytes
        /\ \A i \in 1 .. c : memory[All[i]] = start + i
    BY <1>1, <1>2, BuffersAssumption DEF CountInv, FillInv
  <1>4. MessageInv' /\ a = SubSeq(All, 1, c)
    <2>1. MessageInv' /\ All' = SubSeq(All, 1, c)
      BY <1>1, <1>2, <1>3, MessageTruncated
    <2> QED
      BY <2>1 DEF All
  <1>5. DOMAIN a = 1 .. c /\ \A i \in 1 .. c : a[i] = All[i]
    <2> HIDE DEF a, c
    <2>1. All \in Seq(Address) /\ Len(All) \in Nat
      BY <1>1, AllIs
    <2>2. \A i \in 1 .. c : i \in 1 .. Len(All)
      BY <1>3, <2>1
    <2>3. \A i \in 1 .. c : All[i] \in Address
      BY <2>1, <2>2, ElementOfSeq
    <2>4. /\ a \in Seq(Address)
          /\ Len(a) = IF 1 <= c THEN c - 1 + 1 ELSE 0
          /\ \A i \in 1 .. c - 1 + 1 : a[i] = All[1 + i - 1]
      BY <1>3, <1>4, <2>3, SubSeqProperties
    <2>5. c - 1 + 1 = c /\ (IF 1 <= c THEN c - 1 + 1 ELSE 0) = c
      BY <1>3
    <2>6. \A i \in 1 .. c : 1 + i - 1 = i
      BY <1>3
    <2>7. DOMAIN a = 1 .. Len(a)
      BY <2>4, LenProperties
    <2> QED
      BY <2>4, <2>5, <2>6, <2>7
  <1> HIDE DEF a
  <1>6. written' = [i \in 1 .. c |-> start + i]
    BY <1>2, <1>3, <1>5
  <1>7. written' \in Seq(0 .. MaxBytes)
    <2>1. \A i \in 1 .. c : start + i \in 0 .. MaxBytes
      BY <1>3
    <2>2. [i \in 1 .. c |-> start + i] \in [1 .. c -> 0 .. MaxBytes]
      BY <2>1
    <2> QED
      BY <1>3, <1>6, <2>2
  <1>8. CountInv' /\ VecInv' /\ FillInv' /\ EchoExact'
    BY <1>1, <1>2, <1>6, <1>7 DEF CountInv, VecInv, FillInv, EchoExact
  <1> QED
    BY <1>4, <1>8 DEF BufInv

LEMMA BufInit == Init => BufInv
  <1> SUFFICES ASSUME Init PROVE BufInv
    OBVIOUS
  <1>1. PICK n \in 1 .. MaxBufs : \E len \in [1 .. n -> BufLens] :
          message = [list |-> [i \in 1 .. n |-> IovecAt(i, len[i])], iovcnt |-> n]
    BY DEF Init
  <1>2. PICK len \in [1 .. n -> BufLens] :
          message = [list |-> [i \in 1 .. n |-> IovecAt(i, len[i])], iovcnt |-> n]
    BY <1>1
  <1> DEFINE l == [i \in 1 .. n |-> IovecAt(i, len[i])]
  <1>3. n \in Nat /\ n <= MaxBufs /\ \A i \in 1 .. n : len[i] \in Nat /\ len[i] <= MaxLen
    <2>1. n \in Nat /\ n <= MaxBufs
      BY BuffersAssumption
    <2>2. ASSUME NEW i \in 1 .. n PROVE len[i] \in Nat /\ len[i] <= MaxLen
      <3>1. len[i] \in BufLens
        OBVIOUS
      <3> QED
        BY <3>1, BuffersAssumption, MaxLenIs
    <2> QED
      BY <2>1, <2>2
  <1>4. \A i \in 1 .. n : /\ IovecAt(i, len[i]) \in Entries
                          /\ IovecAt(i, len[i]).buf = i
                          /\ IovecAt(i, len[i]).off = 0
                          /\ IovecAt(i, len[i]).len = len[i]
    BY <1>3 DEF IovecAt, Entries
  <1>5. /\ l \in Seq(Entries) /\ Len(l) = n
        /\ \A i \in 1 .. n : l[i] = IovecAt(i, len[i])
    <2>1. l \in [1 .. n -> Entries]
      BY <1>4
    <2> QED
      BY <1>3, <2>1
  <1> HIDE DEF l
  <1>6. message.list = l /\ message.iovcnt = n /\ message \in Msgs
    <2>1. message = [list |-> l, iovcnt |-> n]
      BY <1>2 DEF l
    <2> QED
      BY <1>3, <1>5, <2>1 DEF Msgs
  <1>7. MessageInv
    BY <1>3, <1>4, <1>5, <1>6 DEF MessageInv
  <1>8. CountInv
    <2>1. written \in Seq(0 .. MaxBytes)
      BY EmptySeq DEF Init
    <2>2. memory \in [AllAddresses -> 0 .. MaxBytes]
      BY BuffersAssumption DEF Init
    <2> QED
      BY <2>1, <2>2, BuffersAssumption DEF CountInv, Init
  <1>9. VecInv
    <2>1. vec \in Seq(Entries) /\ Len(vec) = 0
      BY EmptySeq DEF Init
    <2> QED
      BY <2>1 DEF VecInv
  <1>10. FillInv
    BY DEF FillInv, Init
  <1>11. EchoExact
    <2>1. <<>> = [i \in 1 .. 0 |-> start + i]
      OBVIOUS
    <2> QED
      BY <2>1 DEF EchoExact, Init
  <1> QED
    BY <1>7, <1>8, <1>9, <1>10, <1>11 DEF BufInv

LEMMA BufNext == BufInv /\ [Next]_vars => BufInv'
  <1> SUFFICES ASSUME BufInv, [Next]_vars PROVE BufInv'
    OBVIOUS
  <1>1. ASSUME NEW length \in 0 .. Total(message.list) + 1, Truncate(length)
        PROVE  BufInv'
    <2>1. message.list \in Seq(Entries)
      BY DEF BufInv, MessageInv, Msgs
    <2>2. PICK L \in [0 .. Len(message.list) -> Nat] : IsSum(message.list, L)
      BY <2>1, SumExists
    <2>3. Addresses(message.list) \in Seq(Address)
      BY <2>1, <2>2, AddressesAre
    <2>4. Total(message.list) \in Nat
      BY <2>3, LenProperties DEF Total
    <2>5. length \in Nat
      BY <2>4
    <2> QED
      BY <1>1, <2>5, TruncateStep
  <1>2. ASSUME NEW min \in MinLengths, Receive(min) PROVE BufInv'
    BY <1>2, ReceiveStep
  <1>3. ASSUME NEW n \in 1 .. MaxBytes, ReceivedPartial(n) PROVE BufInv'
    <2>1. n \in Nat
      BY BuffersAssumption
    <2> QED
      BY <1>3, <2>1, ReceivedPartialStep
  <1>4. CASE Echo
    BY <1>4, EchoStep
  <1>5. CASE UNCHANGED vars
    <2>1. MessageInv' /\ All' = All
      BY <1>5, SameMessage DEF vars, BufInv
    <2>2. CountInv' /\ VecInv' /\ EchoExact'
      BY <1>5 DEF vars, BufInv, CountInv, VecInv, EchoExact
    <2>3. FillInv'
      BY <1>5, <2>1 DEF vars, BufInv, FillInv
    <2> QED
      BY <2>1, <2>2, <2>3 DEF BufInv
  <1> QED
    BY <1>1, <1>2, <1>3, <1>4, <1>5 DEF Next

-----------------------------------------------------------------------------
(* The theorems *)

(* Every entry in place, the vector behind the bytes read, and the bytes   *)
(* in order: for messages of any number of buffers of any lengths.         *)
THEOREM Invariance == Spec => []BufInv
  BY BufInit, BufNext, PTL DEF Spec

(* The types of MessageBuffers; the count of a message never exceeds its   *)
(* entries and no entry reaches past its buffer.                           *)
THEOREM TypeCorrect == Spec => []TypeOK
  <1>1. BufInv => TypeOK
    <2> SUFFICES ASSUME BufInv PROVE TypeOK
      OBVIOUS
    <2>1. MessageInv /\ CountInv /\ VecInv
      BY DEF BufInv
    <2>2. message.list \in Seq(Iovecs) /\ message.iovcnt \in 0 .. Len(message.list)
      <3> DEFINE l == message.list
      <3>1. l \in Seq(Entries) /\ Len(l) \in Nat /\ message.iovcnt \in Nat
        BY <2>1, LenProperties DEF MessageInv, Msgs
      <3>2. ASSUME NEW i \in 1 .. Len(l) PROVE l[i] \in Iovecs
        <4>1. /\ l[i] \in Entries /\ l[i].len \in Nat
          BY <3>1, EntryTypes
        <4>2. l[i].buf = i /\ l[i].off = 0 /\ l[i].len <= MaxLen /\ Len(l) <= MaxBufs
          BY <2>1 DEF MessageInv
        <4>3. l[i].buf \in 1 .. MaxBufs /\ l[i].off \in 0 .. MaxLen /\ l[i].len \in 0 .. MaxLen
          <5> HIDE DEF l
          <5> QED
            BY <3>1, <4>1, <4>2, MaxLenIs, BuffersAssumption
        <4> QED
          BY <4>1, <4>3 DEF Entries, Iovecs
      <3>3. l \in [1 .. Len(l) -> Iovecs]
        <4>1. DOMAIN l = 1 .. Len(l) /\ l = [i \in 1 .. Len(l) |-> l[i]]
          BY <3>1, LenProperties
        <4> QED
          BY <3>2, <4>1
      <3>4. l \in Seq(Iovecs)
        BY <3>1, <3>3
      <3> QED
        BY <2>1, <3>1, <3>4 DEF MessageInv
    <2>3. vec \in Seq(Iovecs)
      <3>1. vec \in Seq(Entries) /\ Len(vec) \in Nat
        BY <2>1, LenProperties DEF VecInv
      <3>2. ASSUME NEW i \in 1 .. Len(vec) PROVE vec[i] \in Iovecs
        <4>1. vec[i] \in Entries /\ vec[i].off \in Nat /\ vec[i].len \in Nat
          BY <3>1, EntryTypes
        <4>2. vec[i].buf \in 1 .. MaxBufs /\ vec[i].off + vec[i].len <= MaxLen
          BY <2>1 DEF VecInv
        <4>3. vec[i].off \in 0 .. MaxLen /\ vec[i].len \in 0 .. MaxLen
          BY <4>1, <4>2, MaxLenIs
        <4> QED
          BY <4>1, <4>2, <4>3 DEF Entries, Iovecs
      <3>3. vec \in [1 .. Len(vec) -> Iovecs]
        <4>1. DOMAIN vec = 1 .. Len(vec) /\ vec = [i \in 1 .. Len(vec) |-> vec[i]]
          BY <3>1, LenProperties
        <4> QED
          BY <3>2, <4>1
      <3> QED
        BY <3>1, <3>3
    <2>4. /\ currLength \in 0 .. MaxBytes /\ readPos \in 0 .. MaxBytes
          /\ start \in 0 .. readPos
      BY <2>1, BuffersAssumption DEF CountInv
    <2> QED
      BY <2>1, <2>2, <2>3, <2>4 DEF TypeOK, CountInv
  <1> QED
    BY <1>1, Invariance, PTL

(* tapsMessageTruncate: the first bytes stay, as many as asked for, at     *)
(* their addresses; one more than there are leaves none.                   *)
THEOREM AlwaysTruncateShrinks == Spec => []TruncateShrinks
  <1>1. BufInv => TruncateShrinks
    <2> SUFFICES ASSUME BufInv PROVE TruncateShrinks
      OBVIOUS
    <2> DEFINE before == Addresses(tapsMessageGetIovec(message))
               After(n) == Addresses(tapsMessageGetIovec(tapsMessageTruncate(message, n)))
    <2>1. message \in Msgs /\ message.iovcnt <= Len(message.list)
      BY DEF BufInv, MessageInv
    <2>2. Len(before) \in Nat
      BY AllIs DEF BufInv, All
    <2>3. ASSUME NEW n \in Nat
          PROVE  /\ n <= Len(before) => After(n) = SubSeq(before, 1, n)
                 /\ n > Len(before) => After(n) = <<>>
      BY <2>1, TruncateIs, ZenonT(60)
    <2>4. \A n \in 0 .. Len(before) : After(n) = SubSeq(before, 1, n)
      BY <2>2, <2>3
    <2>5. After(Len(before) + 1) = <<>>
      BY <2>2, <2>3
    <2> QED
      BY <2>4, <2>5 DEF TruncateShrinks
  <1> QED
    BY <1>1, Invariance, PTL

(* _taps_trunc_iovec never runs past the vector, and hands the protocol    *)
(* exactly the addresses not yet filled.                                   *)
THEOREM RestAlwaysExact == Spec => []RestExact
  <1>1. BufInv => RestExact
    BY DEF BufInv, CountInv, FillInv, RestExact, All
  <1> QED
    BY <1>1, Invariance, PTL

(* An echo writes the bytes of the receive before it, all, once, in order. *)
THEOREM EchoAlwaysExact == Spec => []EchoExact
  <1>1. BufInv => EchoExact
    BY DEF BufInv
  <1> QED
    BY <1>1, Invariance, PTL
=============================================================================
