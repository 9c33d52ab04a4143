------------------------ MODULE PreconnectionProofs ------------------------
(***************************************************************************)
(* Proofs about Preconnection, for every set of installed protocols, every *)
(* number of setter calls and every size of the table of candidates.       *)
(***************************************************************************)
EXTENDS Preconnection, TLAPS

(* The vectors before New, and the history that mirrors them.  An ability  *)
(* with a setter of its own is never required, avoided or prohibited.      *)
VectorInv ==
    /\ asked \in [Abilities -> Preferences]
    /\ tp = "none" => prohibit = {}
    /\ require \subseteq Abilities
    /\ \A p \in TypedAbilities : asked[p] \in {"prefer", "ignore"}
    /\ PreferenceHonoured

(* The preferences do not change while New runs.                           *)
CallInv == pc = "new" => tp = "live" /\ askedThen = asked

TableTypes ==
    /\ directory \in Seq(SUBSET Abilities)
    /\ scan \in 1 .. Len(directory) + 1
    /\ table \in [Slots -> Entries \cup {Garbage}]
    /\ numProtocols \in Int
    /\ frees \in [Entries -> Nat]
    /\ stale \in Int

(* Which slots are filled: those from where numProtocols started, if that  *)
(* is in the table at all, to where it is now.                             *)
FillInv ==
    /\ stale \in 0 .. MaxCandidates => numProtocols \in 0 .. MaxCandidates
    /\ \A k \in InUse :
         table[k] # Garbage <=> stale \in 0 .. MaxCandidates /\ stale <= k
    /\ \A k \in Slots :
         table[k] # Garbage => stale \in 0 .. MaxCandidates /\ stale <= k
    /\ pc = "new" =>
         /\ \/ stale \in 0 .. MaxCandidates /\ stale <= numProtocols
            \/ stale \notin 0 .. MaxCandidates /\ stale = numProtocols
         /\ \A k \in InUse : table[k] < scan
         /\ \A i \in Entries : i >= scan => frees[i] = 0
    /\ pc = "live" => numProtocols # 0
    /\ pc \in {"none", "freed"} => numProtocols = 0

(* The table, and what it is for.                                          *)
TableInv ==
    /\ TableTypes
    /\ FillInv
    /\ CandidatesMatch
    /\ StringsFreedOnce
    /\ OnlyStaleFaults

(* What a listener was given.                                              *)
ListenerInv ==
    /\ port \in Ports \cup {Unset}
    /\ ListensAsAsked
    /\ listener # NoListener => listener.proto \in Entries

IInv == VectorInv /\ CallInv /\ TableInv /\ ListenerInv

-----------------------------------------------------------------------------
(* The transport properties *)

(* The defaults of tapsTransportPropertiesNew are in one vector each.      *)
LEMMA NewVectors ==
    ASSUME VectorInv, NEW type \in {"listener", "initiate", "rendezvous"},
           tapsTransportPropertiesNew(type)
    PROVE  VectorInv'
<1>1. /\ asked' \in [Abilities -> Preferences]
      /\ tp' = "live" /\ prohibit' = {}
  BY DEF VectorInv, tapsTransportPropertiesNew, Preferences
<1>2. require' \cap prefer' = {} /\ require' \cap avoid' = {}
  BY DEF tapsTransportPropertiesNew
<1>3. prefer' \cap avoid' = {}
  BY DEF tapsTransportPropertiesNew
<1>4. \A p \in Abilities : asked'[p] = IF p \in require' THEN "require"
                                      ELSE IF p \in prefer' THEN "prefer"
                                      ELSE IF p \in avoid' THEN "avoid"
                                      ELSE "ignore"
  BY DEF tapsTransportPropertiesNew
<1>5. PreferenceHonoured'
  BY <1>1, <1>2, <1>3, <1>4 DEF PreferenceHonoured
<1>6. \A p \in TypedAbilities : p \notin require' /\ p \notin avoid'
  BY DEF tapsTransportPropertiesNew, TypedAbilities
<1>7. TypedAbilities \subseteq Abilities
  BY DEF TypedAbilities, Abilities
<1>8. \A p \in TypedAbilities : asked'[p] \in {"prefer", "ignore"}
  BY <1>4, <1>6, <1>7
<1>9. require' \subseteq Abilities
  BY DEF tapsTransportPropertiesNew, Abilities
<1> QED
  BY <1>1, <1>5, <1>8, <1>9 DEF VectorInv

(* A generic setter leaves its ability in the vector it names and no other.*)
LEMMA SetKeepsVectors ==
    ASSUME VectorInv, NEW p \in Settable, NEW x \in Preferences,
           tapsTransportPropertiesSet(p, x)
    PROVE  VectorInv'
<1>1. p \in Abilities /\ p \notin TypedAbilities
  BY PropertiesAssumption
<1>2. /\ asked' \in [Abilities -> Preferences]
      /\ asked' = [asked EXCEPT ![p] = x]
      /\ tp' = "live" /\ tp # "none"
  BY <1>1 DEF VectorInv, tapsTransportPropertiesSet, Setting
<1>3. PreferenceHonoured'
  BY <1>1, <1>2 DEF VectorInv, tapsTransportPropertiesSet, SetVectors,
     Put, PreferenceHonoured, Preferences
<1>4. \A q \in TypedAbilities : asked'[q] = asked[q]
  BY <1>1, <1>2 DEF VectorInv
<1>5. require' \subseteq Abilities
  BY <1>1 DEF VectorInv, tapsTransportPropertiesSet, SetVectors, Put
<1> QED
  BY <1>2, <1>3, <1>4, <1>5 DEF VectorInv

(* A typed setter touches prefer only: that is enough for an ability that  *)
(* the generic setter is not used for.                                     *)
LEMMA PreferKeepsVectors ==
    ASSUME VectorInv, NEW p \in TypedAbilities, NEW on \in BOOLEAN,
           Prefer(p, on)
    PROVE  VectorInv'
<1>1. p \in Abilities
  BY DEF TypedAbilities, Abilities
<1>2. /\ asked' \in [Abilities -> Preferences]
      /\ asked' = [asked EXCEPT ![p] = IF on THEN "prefer" ELSE "ignore"]
      /\ tp' = "live" /\ tp # "none"
  BY <1>1 DEF VectorInv, Prefer, Setting, Preferences
<1>3. asked[p] \in {"prefer", "ignore"}
  BY DEF VectorInv
<1>4. PreferenceHonoured'
  BY <1>1, <1>2, <1>3 DEF VectorInv, Prefer, Put, PreferenceHonoured
<1>5. \A q \in TypedAbilities : asked'[q] \in {"prefer", "ignore"}
  BY <1>1, <1>2 DEF VectorInv
<1>6. require' \subseteq Abilities
  BY DEF VectorInv, Prefer
<1> QED
  BY <1>2, <1>4, <1>5, <1>6 DEF VectorInv

(* Every call on the transport properties keeps the vectors.               *)
LEMMA PropertiesKeepVectors ==
    ASSUME VectorInv, Properties
    PROVE  VectorInv'
<1>1. ASSUME NEW type \in {"listener", "initiate", "rendezvous"},
             tapsTransportPropertiesNew(type)
      PROVE  VectorInv'
  BY <1>1, NewVectors
<1>2. ASSUME NEW p \in Settable, NEW x \in Preferences,
             tapsTransportPropertiesSet(p, x)
      PROVE  VectorInv'
  BY <1>2, SetKeepsVectors
<1>3. ASSUME NEW x \in Multipaths, tapsTransportPropertiesSetMultipath(x)
      PROVE  VectorInv'
  <2>1. "multipath" \in TypedAbilities /\ (x # "disabled") \in BOOLEAN
    BY DEF TypedAbilities
  <2> QED
    BY <1>3, <2>1, PreferKeepsVectors DEF tapsTransportPropertiesSetMultipath
<1>4. ASSUME NEW x \in Directions, tapsTransportPropertiesSetDirection(x)
      PROVE  VectorInv'
  <2>1. "direction" \in TypedAbilities /\ (x # "bidir") \in BOOLEAN
    BY DEF TypedAbilities
  <2> QED
    BY <1>4, <2>1, PreferKeepsVectors DEF tapsTransportPropertiesSetDirection
<1>5. ASSUME NEW x \in BOOLEAN,
             tapsTransportPropertiesSetAdvertises_altaddr(x)
      PROVE  VectorInv'
  <2>1. "advertises_altaddr" \in TypedAbilities
    BY DEF TypedAbilities
  <2> QED
    BY <1>5, <2>1, PreferKeepsVectors
       DEF tapsTransportPropertiesSetAdvertises_altaddr
<1>6. ASSUME NEW i \in Interfaces \cup {NoSuchInterface},
             NEW x \in Preferences, tapsTransportPropertiesSetInterface(i, x)
      PROVE  VectorInv'
  BY <1>6 DEF tapsTransportPropertiesSetInterface, Setting, vectors, VectorInv,
     PreferenceHonoured
<1>7. ASSUME tapsTransportPropertiesFree PROVE VectorInv'
  BY <1>7 DEF tapsTransportPropertiesFree, vectors, VectorInv,
     PreferenceHonoured
<1> QED
  BY <1>1, <1>2, <1>3, <1>4, <1>5, <1>6, <1>7 DEF Properties

-----------------------------------------------------------------------------
(* The table of candidates *)

(* The slots are 0 to MaxCandidates - 1.                                   *)
LEMMA SlotFacts ==
    /\ MaxCandidates \in Nat /\ MaxCandidates > 0
    /\ \A k : k \in Slots <=> k \in Int /\ 0 <= k /\ k < MaxCandidates
BY PreconnectionAssumption DEF Slots

(* A step that leaves the preconnection alone keeps its table.             *)
LEMMA TableUnchanged ==
    ASSUME TableInv, UNCHANGED <<pc, tableVars>>,
           fault' \in {fault, "null", "none"}
    PROVE  TableInv'
<1>1. /\ UNCHANGED <<pc, directory, scan, table, numProtocols>>
      /\ UNCHANGED <<frees, stale, askedThen>>
  BY DEF tableVars
<1>2. InUse' = InUse /\ Entries' = Entries
  BY <1>1 DEF InUse, Entries
<1>3. TableTypes'
  BY <1>1, <1>2 DEF TableInv, TableTypes
<1>4. FillInv'
  BY <1>1, <1>2 DEF TableInv, FillInv
<1>5. CandidatesMatch'
  BY <1>1, <1>2 DEF TableInv, CandidatesMatch, Wanted, Allowed, Passed, HeldBy
<1>6. StringsFreedOnce'
  BY <1>1, <1>2 DEF TableInv, StringsFreedOnce, Passed, HeldBy
<1>7. OnlyStaleFaults'
  BY <1>1 DEF TableInv, OnlyStaleFaults
<1> QED
  BY <1>3, <1>4, <1>5, <1>6, <1>7 DEF TableInv

(* New starts with an empty table, wherever numProtocols points.           *)
LEMMA NewTable ==
    ASSUME TableInv, NEW locals \in {0, 1}, NEW dir \in Directories,
           NEW count \in StaleCounts, tapsPreconnectionNew(locals, dir, count),
           fault = "none"
    PROVE  TableInv'
<1>1. /\ pc' = "new" /\ directory' = dir /\ scan' = 1
      /\ table' = [k \in Slots |-> Garbage]
      /\ numProtocols' = count /\ stale' = count
      /\ frees' = [i \in 1 .. Len(dir) |-> 0]
      /\ fault' = "none"
  BY DEF tapsPreconnectionNew
<1>2. dir \in Seq(SUBSET Abilities) /\ count \in Int
  BY PreconnectionAssumption
<1>3. TableTypes'
  <2>1. Len(dir) \in Nat
    BY <1>2
  <2>2. scan' \in 1 .. Len(directory') + 1
    BY <1>1, <2>1
  <2>3. frees' \in [Entries' -> Nat] /\ table' \in [Slots -> Entries' \cup {Garbage}]
    BY <1>1 DEF Entries
  <2> QED
    BY <1>1, <1>2, <2>2, <2>3 DEF TableTypes
<1>4. \A k \in InUse' : k \in Slots /\ k < count /\ table'[k] = Garbage
  BY <1>1 DEF InUse
<1>5. \A i \in Entries' : ~ (i < scan') /\ frees'[i] = 0
  BY <1>1, <1>2 DEF Entries
<1>6. FillInv'
  <2>1. count \in 0 .. MaxCandidates => numProtocols' \in 0 .. MaxCandidates
    BY <1>1
  <2>2. \A k \in InUse' : /\ table'[k] = Garbage
                          /\ ~ (stale' \in 0 .. MaxCandidates /\ stale' <= k)
                          /\ table'[k] < scan'
    BY <1>1, <1>2, <1>4, SlotFacts DEF Garbage
  <2>3. \/ stale' \in 0 .. MaxCandidates /\ stale' <= numProtocols'
        \/ stale' \notin 0 .. MaxCandidates /\ stale' = numProtocols'
    BY <1>1, <1>2
  <2> QED
    BY <1>1, <1>5, <2>1, <2>2, <2>3 DEF FillInv, InUse
<1>7. CandidatesMatch'
  BY <1>1, <1>4, <1>5 DEF CandidatesMatch, Passed
<1>8. StringsFreedOnce'
  BY <1>1, <1>5 DEF StringsFreedOnce, Passed
<1>9. OnlyStaleFaults'
  BY <1>1 DEF OnlyStaleFaults
<1> QED
  BY <1>3, <1>6, <1>7, <1>8, <1>9 DEF TableInv

(* The test of the loop finds what the application wanted.                 *)
LEMMA MatchesWanted ==
    ASSUME VectorInv, CallInv, TableTypes, pc = "new", NEW i \in Entries
    PROVE  Matches(directory[i]) <=> Wanted(i)
<1>1. directory[i] \subseteq Abilities
  BY DEF TableTypes, Entries
<1>2. \A p \in Abilities : /\ p \in require <=> askedThen[p] = "require"
                           /\ p \in prohibit <=> askedThen[p] = "prohibit"
  BY DEF CallInv, VectorInv, PreferenceHonoured
<1>3. require \subseteq Abilities
  BY DEF VectorInv
<1> QED
  BY <1>1, <1>2, <1>3 DEF Wanted, Allowed, Matches

(* An entry that is passed over is freed once, for a reason.               *)
LEMMA DropTable ==
    ASSUME VectorInv, CallInv, TableInv, NewEntry, DropEntry
    PROVE  TableInv'
<1>1. /\ pc = "new" /\ pc' = "new" /\ scan <= Len(directory)
      /\ scan' = scan + 1
      /\ frees' = [frees EXCEPT ![scan] = @ + 1]
      /\ UNCHANGED <<directory, table, numProtocols, stale, askedThen, fault>>
  BY DEF NewEntry, DropEntry
<1>2. /\ scan \in Entries /\ scan \in Nat /\ Len(directory) \in Nat
      /\ frees \in [Entries -> Nat]
      /\ frees[scan] = 0
      /\ InUse' = InUse /\ Entries' = Entries
      /\ \A k \in InUse : table[k] \in Int /\ table[k] < scan
      /\ \A i \in Entries : i \in Nat
  <2>1. Len(directory) \in Nat
    BY DEF TableInv, TableTypes
  <2>2. scan \in Entries /\ scan \in Nat
    BY <1>1, <2>1 DEF TableInv, TableTypes, Entries
  <2>3. \A k \in InUse : k \in Slots
    BY DEF InUse
  <2>4. \A k \in InUse : table[k] \in Int
    BY <2>3 DEF TableInv, TableTypes, Entries, Garbage
  <2> QED
    BY <1>1, <2>1, <2>2, <2>4 DEF TableInv, TableTypes, FillInv, InUse, Entries
<1>3. TableTypes'
  BY <1>1, <1>2 DEF TableInv, TableTypes
<1>4. FillInv'
  <2>1. \A i \in Entries : i >= scan' => frees'[i] = 0
    BY <1>1, <1>2 DEF TableInv, FillInv
  <2>2. \A k \in InUse : table[k] < scan'
    BY <1>1, <1>2
  <2> QED
    BY <1>1, <1>2, <2>1, <2>2 DEF TableInv, FillInv
<1>5. HeldBy(scan) = {}
  BY <1>2 DEF HeldBy
<1>6. CandidatesMatch'
  <2>1. ASSUME NEW i \in Entries, i < scan', Wanted(i), HeldBy(i) = {}
        PROVE  numProtocols = MaxCandidates /\ \A k \in InUse : table[k] < i
    <3>1. CASE i = scan
      <4>1. Matches(directory[i])
        BY <1>1, <2>1, MatchesWanted DEF TableInv
      <4> QED
        BY <1>2, <3>1, <4>1 DEF DropEntry, Full
    <3>2. CASE i < scan
      BY <1>1, <2>1, <3>2 DEF TableInv, CandidatesMatch, Passed
    <3> QED
      BY <1>1, <1>2, <2>1, <3>1, <3>2
  <2>2. \A i \in Entries : HeldBy(i)' = HeldBy(i) /\ (Wanted(i)' <=> Wanted(i))
    BY <1>1, <1>2 DEF HeldBy, Wanted, Allowed
  <2>3. \A k \in InUse : table[k] # Garbage => Wanted(table[k])'
    BY <1>1 DEF TableInv, CandidatesMatch, Wanted, Allowed
  <2> QED
    BY <1>1, <1>2, <2>1, <2>2, <2>3 DEF TableInv, CandidatesMatch, Passed
<1>7. StringsFreedOnce'
  <2>1. \A i \in Entries : HeldBy(i)' = HeldBy(i)
    BY <1>1, <1>2 DEF HeldBy
  <2>2. ASSUME NEW i \in Entries, i < scan'
        PROVE  \/ frees'[i] = 1 /\ HeldBy(i) = {}
               \/ frees'[i] = 0 /\ \E k \in InUse : HeldBy(i) = {k}
    <3>1. CASE i = scan
      BY <1>1, <1>2, <1>5, <3>1
    <3>2. CASE i < scan
      BY <1>1, <1>2, <3>2 DEF TableInv, StringsFreedOnce, Passed
    <3> QED
      BY <1>1, <1>2, <2>2, <3>1, <3>2
  <2> QED
    BY <1>1, <1>2, <2>1, <2>2 DEF StringsFreedOnce, Passed
<1>8. OnlyStaleFaults'
  BY <1>1 DEF TableInv, OnlyStaleFaults
<1> QED
  BY <1>3, <1>4, <1>6, <1>7, <1>8 DEF TableInv

(* An entry that is kept goes to the next slot; the copy leaves the table  *)
(* only when numProtocols started outside it.                              *)
LEMMA KeepTable ==
    ASSUME VectorInv, CallInv, TableInv, NewEntry, KeepEntry
    PROVE  TableInv'
<1>1. /\ pc = "new" /\ pc' = "new" /\ scan <= Len(directory)
      /\ Matches(directory[scan]) /\ numProtocols # MaxCandidates
      /\ UNCHANGED <<directory, frees, stale, askedThen>>
  BY DEF NewEntry, KeepEntry, Full
<1>2. /\ scan \in Entries /\ scan \in Nat /\ Len(directory) \in Nat
      /\ frees[scan] = 0
      /\ Entries' = Entries
      /\ numProtocols \in Int /\ stale \in Int
      /\ \A k \in InUse : table[k] \in Int /\ table[k] < scan
      /\ \A i \in Entries : i \in Nat /\ i # Garbage
  <2>1. Len(directory) \in Nat
    BY DEF TableInv, TableTypes
  <2>2. scan \in Entries /\ scan \in Nat
    BY <1>1, <2>1 DEF TableInv, TableTypes, Entries
  <2>3. \A k \in InUse : k \in Slots
    BY DEF InUse
  <2>4. \A k \in InUse : table[k] \in Int
    BY <2>3 DEF TableInv, TableTypes, Entries, Garbage
  <2> QED
    BY <1>1, <2>1, <2>2, <2>4 DEF TableInv, TableTypes, FillInv, Entries, Garbage
<1>3. CASE numProtocols \notin Slots
  <2>1. fault' = "overrun" /\ UNCHANGED <<table, numProtocols, scan>>
    BY <1>3 DEF KeepEntry
  <2>2. stale \notin 0 .. MaxCandidates
    BY <1>1, <1>2, <1>3, SlotFacts DEF TableInv, FillInv
  <2>3. OnlyStaleFaults'
    BY <1>1, <2>1, <2>2 DEF OnlyStaleFaults
  <2>4. InUse' = InUse
    BY <2>1 DEF InUse
  <2>5. TableTypes' /\ FillInv'
    BY <1>1, <1>2, <2>1, <2>4 DEF TableInv, TableTypes, FillInv
  <2>6. CandidatesMatch' /\ StringsFreedOnce'
    BY <1>1, <1>2, <2>1, <2>4
       DEF TableInv, CandidatesMatch, StringsFreedOnce, Wanted, Allowed, Passed,
           HeldBy
  <2> QED
    BY <2>3, <2>5, <2>6 DEF TableInv
<1>4. CASE numProtocols \in Slots
  <2>1. /\ table' = [table EXCEPT ![numProtocols] = scan]
        /\ numProtocols' = numProtocols + 1
        /\ scan' = scan + 1 /\ fault' = fault
    BY <1>4 DEF KeepEntry
  <2>2. /\ InUse' = InUse \cup {numProtocols} /\ numProtocols \notin InUse
        /\ \A k \in InUse : k \in Slots /\ k < numProtocols
    BY <1>2, <1>4, <2>1, SlotFacts DEF InUse
  <2>3. /\ table'[numProtocols] = scan
        /\ \A k \in InUse : table'[k] = table[k]
    BY <1>4, <2>1, <2>2 DEF TableInv, TableTypes
  <2>4. TableTypes'
    <3>1. table' \in [Slots -> Entries' \cup {Garbage}]
      BY <1>2, <1>4, <2>1 DEF TableInv, TableTypes
    <3>2. scan' \in 1 .. Len(directory) + 1 /\ numProtocols' \in Int
      BY <1>1, <1>2, <2>1
    <3> QED
      BY <1>1, <1>2, <3>1, <3>2 DEF TableInv, TableTypes
  <2>5. stale \in 0 .. MaxCandidates /\ stale <= numProtocols
    BY <1>1, <1>2, <1>4, SlotFacts DEF TableInv, FillInv
  <2>6. FillInv'
    <3>1. numProtocols' \in 0 .. MaxCandidates /\ stale' <= numProtocols'
      BY <1>1, <1>2, <1>4, <2>1, <2>5, SlotFacts
    <3>2. \A k \in InUse' :
            /\ table'[k] # Garbage <=>
                 stale' \in 0 .. MaxCandidates /\ stale' <= k
            /\ table'[k] < scan'
      <4> SUFFICES ASSUME NEW k \in InUse'
                   PROVE  /\ table'[k] # Garbage <=>
                               stale' \in 0 .. MaxCandidates /\ stale' <= k
                          /\ table'[k] < scan'
        OBVIOUS
      <4>1. CASE k = numProtocols
        BY <1>1, <1>2, <2>1, <2>3, <2>5, <4>1
      <4>2. CASE k \in InUse
        BY <1>1, <1>2, <2>1, <2>3, <4>2 DEF TableInv, FillInv
      <4> QED
        BY <2>2, <4>1, <4>2
    <3>3. \A i \in Entries : i >= scan' => frees'[i] = 0
      BY <1>1, <1>2, <2>1 DEF TableInv, FillInv
    <3>4. \A k \in Slots : table'[k] # Garbage => stale <= k
      BY <1>4, <2>1, <2>5 DEF TableInv, TableTypes, FillInv
    <3> QED
      BY <1>1, <1>2, <2>5, <3>1, <3>2, <3>3, <3>4 DEF FillInv
  <2>7. \A i \in Entries : /\ i = scan => HeldBy(i)' = {numProtocols}
                           /\ i < scan => HeldBy(i)' = HeldBy(i)
    BY <1>2, <2>1, <2>2, <2>3 DEF HeldBy
  <2>8. CandidatesMatch'
    <3>1. \A i \in Entries : Wanted(i)' <=> Wanted(i)
      BY <1>1 DEF Wanted, Allowed
    <3>2. Wanted(scan)
      BY <1>1, <1>2, MatchesWanted DEF TableInv
    <3>3. \A k \in InUse' : table'[k] # Garbage => Wanted(table[k])'
      <4> SUFFICES ASSUME NEW k \in InUse', table'[k] # Garbage
                   PROVE  \E i \in Entries : table'[k] = i /\ Wanted(i)
        BY <1>1 DEF Wanted, Allowed
      <4>1. CASE k = numProtocols
        BY <1>2, <2>3, <3>2, <4>1
      <4>2. CASE k \in InUse
        <5>1. table'[k] = table[k] /\ table[k] \in Entries
          BY <2>2, <2>3, <4>2 DEF TableInv, TableTypes
        <5>2. Wanted(table[k])
          BY <4>2, <5>1 DEF TableInv, CandidatesMatch
        <5> QED
          BY <5>1, <5>2
      <4> QED
        BY <2>2, <4>1, <4>2
    <3>4. ASSUME NEW j \in InUse', NEW k \in InUse', j < k, table'[j] # Garbage
          PROVE  table'[j] < table'[k]
      <4>1. j \in InUse
        BY <1>2, <2>2, <3>4, SlotFacts
      <4>2. CASE k = numProtocols
        BY <1>2, <2>3, <4>1, <4>2
      <4>3. CASE k \in InUse
        BY <2>3, <3>4, <4>1, <4>3 DEF TableInv, CandidatesMatch
      <4> QED
        BY <2>2, <4>2, <4>3
    <3>5. ASSUME NEW i \in Entries, i < scan', Wanted(i), HeldBy(i)' = {}
          PROVE  FALSE
      <4>1. CASE i = scan
        BY <2>7, <3>5, <4>1
      <4>2. CASE i < scan
        <5>1. HeldBy(i) = {}
          BY <2>7, <3>5, <4>2
        <5> QED
          BY <1>1, <3>5, <4>2, <5>1 DEF TableInv, CandidatesMatch, Passed
      <4> QED
        BY <1>2, <2>1, <3>5, <4>1, <4>2
    <3> QED
      BY <1>1, <1>2, <3>1, <3>3, <3>4, <3>5 DEF CandidatesMatch, Passed
  <2>9. StringsFreedOnce'
    <3>1. ASSUME NEW i \in Entries, i < scan'
          PROVE  \/ frees'[i] = 1 /\ HeldBy(i)' = {}
                 \/ frees'[i] = 0 /\ \E k \in InUse' : HeldBy(i)' = {k}
      <4>1. CASE i = scan
        BY <1>1, <1>2, <2>2, <2>7, <4>1
      <4>2. CASE i < scan
        BY <1>1, <2>2, <2>7, <4>2 DEF TableInv, StringsFreedOnce, Passed
      <4> QED
        BY <1>2, <2>1, <3>1, <4>1, <4>2
    <3> QED
      BY <1>1, <1>2, <3>1 DEF StringsFreedOnce, Passed
  <2>10. OnlyStaleFaults'
    BY <1>1, <2>1 DEF TableInv, OnlyStaleFaults
  <2> QED
    BY <2>4, <2>6, <2>8, <2>9, <2>10 DEF TableInv
<1> QED
  BY <1>3, <1>4

(* The ends of New and Free, and the start of Free.                        *)
LEMMA ReturnsTable ==
    ASSUME TableInv, UNCHANGED <<tableVars, fault>>,
           \/ NewReturns
           \/ tapsPreconnectionFree
           \/ FreeReturns
    PROVE  TableInv'
<1>1. /\ UNCHANGED <<directory, scan, table, numProtocols>>
      /\ UNCHANGED <<frees, stale, askedThen, fault>>
  BY DEF tableVars
<1>2. InUse' = InUse /\ Entries' = Entries
  BY <1>1 DEF InUse, Entries
<1>3. /\ pc' # "new"
      /\ pc' \notin {"freeing", "freed"} => pc = "new" /\ scan > Len(directory)
      /\ pc' = "live" => numProtocols # 0
      /\ pc' \in {"none", "freed"} => numProtocols = 0
      /\ pc = "new" => scan > Len(directory)
  BY DEF NewReturns, tapsPreconnectionFree, FreeReturns
<1>4. pc = "new" => \A i \in Entries : i < scan
  BY <1>3 DEF TableInv, TableTypes, Entries
<1>5. TableTypes' /\ FillInv' /\ OnlyStaleFaults'
  BY <1>1, <1>2, <1>3 DEF TableInv, TableTypes, FillInv, OnlyStaleFaults
<1>6. CandidatesMatch'
  BY <1>1, <1>2, <1>3, <1>4
     DEF TableInv, CandidatesMatch, Wanted, Allowed, Passed, HeldBy
<1>7. StringsFreedOnce'
  BY <1>1, <1>2, <1>3, <1>4 DEF TableInv, StringsFreedOnce, Passed, HeldBy
<1> QED
  BY <1>5, <1>6, <1>7 DEF TableInv

(* One turn of Free's loop frees the strings of the last slot, which no    *)
(* other slot holds.                                                       *)
LEMMA FreeTable ==
    ASSUME TableInv, FreeEntry
    PROVE  TableInv'
<1> DEFINE last == numProtocols - 1
           filled == last \in Slots /\ table[last] # Garbage
<1>1. /\ pc = "freeing" /\ pc' = "freeing" /\ numProtocols # 0
      /\ UNCHANGED <<directory, scan, table, stale, askedThen>>
      /\ numProtocols \in Int
      /\ frees \in [Entries -> Nat]
  BY DEF FreeEntry, TableInv, TableTypes
<1>2. Entries' = Entries /\ Garbage \notin Entries
  BY <1>1 DEF Entries, Garbage, TableInv, TableTypes
<1>3. \/ /\ filled
         /\ frees' = [frees EXCEPT ![table[last]] = @ + 1]
         /\ numProtocols' = last /\ fault' = fault
      \/ /\ ~filled /\ last >= 0
         /\ numProtocols' = last /\ UNCHANGED <<frees, fault>>
      \/ /\ ~filled
         /\ fault' = "garbage" /\ UNCHANGED <<frees, numProtocols>>
  BY DEF FreeEntry
<1>4. /\ last \in Slots => last \in InUse
      /\ last \in InUse => last \in Slots
  BY <1>1 DEF InUse
<1>5. CASE ~filled /\ fault' = "garbage" /\ UNCHANGED <<frees, numProtocols>>
  <2>1. InUse' = InUse
    BY <1>5 DEF InUse
  <2>2. TableTypes' /\ FillInv'
    BY <1>1, <1>2, <1>5, <2>1 DEF TableInv, TableTypes, FillInv
  <2>3. CandidatesMatch' /\ StringsFreedOnce'
    BY <1>1, <1>2, <1>5, <2>1
       DEF TableInv, CandidatesMatch, StringsFreedOnce, Wanted, Allowed, Passed,
           HeldBy
  <2>4. stale # 0
    <3> SUFFICES ASSUME stale = 0 PROVE FALSE
      OBVIOUS
    <3>1. stale \in 0 .. MaxCandidates
      BY SlotFacts
    <3>2. numProtocols \in 0 .. MaxCandidates
      BY <3>1 DEF TableInv, FillInv
    <3>3. last \in Slots /\ 0 <= last
      BY <1>1, <3>2, SlotFacts
    <3> QED
      BY <1>4, <1>5, <3>1, <3>3 DEF TableInv, FillInv
  <2>5. OnlyStaleFaults'
    BY <1>1, <1>5, <2>4 DEF OnlyStaleFaults
  <2> QED
    BY <2>2, <2>3, <2>5 DEF TableInv
<1>6. CASE numProtocols' = last /\ fault' = fault
           /\ \/ filled /\ frees' = [frees EXCEPT ![table[last]] = @ + 1]
              \/ ~filled /\ last >= 0 /\ UNCHANGED frees
  <2>1. InUse' = InUse \ {last}
    BY <1>1, <1>6, SlotFacts DEF InUse
  <2>2. filled => table[last] \in Entries
    BY DEF TableInv, TableTypes
  <2>3. TableTypes'
    <3>1. frees' \in [Entries -> Nat]
      BY <1>1, <1>6, <2>2
    <3> QED
      BY <1>1, <1>2, <1>6, <3>1 DEF TableInv, TableTypes
  <2>4. FillInv'
    <3>1. stale \in 0 .. MaxCandidates => last \in 0 .. MaxCandidates
      BY <1>1, SlotFacts DEF TableInv, FillInv
    <3> QED
      BY <1>1, <1>2, <1>6, <2>1, <3>1 DEF TableInv, FillInv
  <2>5. CandidatesMatch'
    BY <1>1, <2>1 DEF TableInv, CandidatesMatch, Wanted, Allowed
  <2>6. StringsFreedOnce'
    <3> SUFFICES ASSUME NEW i \in Entries
                 PROVE  \/ frees'[i] = 1 /\ HeldBy(i)' = {}
                        \/ frees'[i] = 0 /\ \E k \in InUse' : HeldBy(i)' = {k}
      BY <1>2 DEF StringsFreedOnce
    <3>1. \/ frees[i] = 1 /\ HeldBy(i) = {}
          \/ frees[i] = 0 /\ \E k \in InUse : HeldBy(i) = {k}
      BY <1>1 DEF TableInv, StringsFreedOnce, Passed
    <3>2. HeldBy(i)' = HeldBy(i) \ {last}
      BY <1>1, <2>1 DEF HeldBy
    <3>3. CASE filled /\ table[last] = i
      <4>1. last \in HeldBy(i)
        BY <1>4, <3>3 DEF HeldBy
      <4>2. frees[i] = 0 /\ HeldBy(i) = {last}
        BY <3>1, <4>1
      <4>3. frees'[i] = 1
        BY <1>1, <1>6, <3>3, <4>2
      <4> QED
        BY <3>2, <4>2, <4>3
    <3>4. CASE ~(filled /\ table[last] = i)
      <4>1. last \notin HeldBy(i)
        BY <1>2, <1>4, <3>4 DEF HeldBy
      <4>2. frees'[i] = frees[i]
        BY <1>1, <1>6, <3>4
      <4>3. HeldBy(i)' = HeldBy(i)
        BY <3>2, <4>1
      <4>4. \A k \in InUse : HeldBy(i) = {k} => k \in InUse'
        BY <2>1, <4>1
      <4> QED
        BY <3>1, <4>2, <4>3, <4>4
    <3> QED
      BY <3>3, <3>4
  <2>7. OnlyStaleFaults'
    BY <1>1, <1>6 DEF TableInv, OnlyStaleFaults
  <2> QED
    BY <2>3, <2>4, <2>5, <2>6, <2>7 DEF TableInv
<1> QED
  BY <1>3, <1>5, <1>6

-----------------------------------------------------------------------------
(* The listener *)

(* Turning a port into network byte order twice gives it back.             *)
LEMMA HtonsTwice ==
    ASSUME NEW p \in Nat, p < 65536
    PROVE  htons(htons(p)) = p
<1> DEFINE lo == p % 256
           hi == p \div 256
<1>1. lo \in Int /\ 0 <= lo /\ lo <= 255
  OBVIOUS
<1>2. hi \in Int /\ p = hi * 256 + lo
  OBVIOUS
<1> DEFINE q == lo * 256 + hi
<1>3. htons(p) = q
  BY DEF htons
<1> HIDE DEF lo, hi
<1>4. 0 <= hi /\ hi <= 255
  BY <1>1, <1>2
<1>5. q \in Int /\ q % 256 = hi /\ q \div 256 = lo
  BY <1>1, <1>2, <1>4
<1> HIDE DEF q
<1>6. htons(q) = hi * 256 + lo
  BY <1>5 DEF htons
<1> QED
  BY <1>2, <1>3, <1>6

(* What Listen was told and gave the listener stays as it is: a step that  *)
(* leaves the directory alone, and starts no listener, changes neither.    *)
LEMMA ListenerUnchanged ==
    ASSUME ListenerInv, port' \in Ports \cup {Unset},
           UNCHANGED <<listener, atListen, directory, askedThen>>
    PROVE  ListenerInv'
BY DEF ListenerInv, ListensAsAsked, Wanted, Allowed, Entries

(* The calls on the endpoint attach only ports.                            *)
LEMMA EndpointsKeepPort ==
    ASSUME ListenerInv, Endpoints
    PROVE  port' \in Ports \cup {Unset}
BY DEF Endpoints, tapsEndpointNew, tapsEndpointWithPort,
   tapsEndpointWithIPv4Address, tapsEndpointWithIPv6Address,
   tapsEndpointWithString, tapsEndpointFree, ListenerInv

(* What is in slot 0 was put there by New, and is the first that was       *)
(* wanted.                                                                 *)
LEMMA FirstWanted ==
    ASSUME TableInv, pc = "live", table[0] # Garbage
    PROVE  /\ stale = 0
           /\ table[0] \in Entries /\ Wanted(table[0])
           /\ \A i \in Entries : Wanted(i) => table[0] <= i
<1>1. /\ 0 \in Slots /\ numProtocols \in Int /\ numProtocols # 0
      /\ table[0] \in Entries
      /\ \A i \in Entries : i \in Int
  BY SlotFacts DEF TableInv, TableTypes, FillInv, Entries
<1>2. stale = 0 /\ stale \in 0 .. MaxCandidates
  BY <1>1 DEF TableInv, FillInv, TableTypes
<1>3. 0 \in InUse
  BY <1>1, <1>2 DEF TableInv, FillInv, InUse
<1>4. Wanted(table[0])
  BY <1>3 DEF TableInv, CandidatesMatch
<1>5. ASSUME NEW i \in Entries, Wanted(i)
      PROVE  table[0] <= i
  <2>1. CASE HeldBy(i) = {}
    <3>1. table[0] < i
      BY <1>3, <1>5, <2>1 DEF TableInv, CandidatesMatch, Passed
    <3> QED
      BY <1>1, <3>1
  <2>2. CASE HeldBy(i) # {}
    <3>1. PICK k \in InUse : table[k] = i
      BY <2>2 DEF HeldBy
    <3>2. k = 0 \/ 0 < k
      BY SlotFacts DEF InUse
    <3>3. 0 < k => table[0] < table[k]
      BY <1>3, <3>1 DEF TableInv, CandidatesMatch
    <3> QED
      BY <1>1, <3>1, <3>2, <3>3
  <2> QED
    BY <2>1, <2>2
<1> QED
  BY <1>1, <1>2, <1>4, <1>5

(* The address a new listener gets is the one attached by now.             *)
LEMMA ListenKeepsListener ==
    ASSUME TableInv, ListenerInv, tapsPreconnectionListen
    PROVE  ListenerInv'
<1>1. UNCHANGED <<port, directory, askedThen>> /\ pc = "live"
  BY DEF tapsPreconnectionListen, epVars, pcVars, tableVars
<1>2. CASE UNCHANGED <<listener, atListen>>
  BY <1>1, <1>2, ListenerUnchanged DEF ListenerInv
<1>3. CASE /\ table[0] # Garbage
           /\ listener' = [proto |-> table[0], address |-> LocalAddress]
           /\ atListen' = [port |-> port, ipv4 |-> ipv4, ipv6 |-> ipv6,
                           asked |-> asked]
  <2>1. /\ listener'.proto = table[0]
        /\ listener'.address.port = htons(IF port = Unset THEN 0 ELSE port)
        /\ listener'.address.addr = IF ipv6 # Unset THEN ipv6 ELSE ipv4
        /\ listener'.address.addr # Unset
    BY <1>3 DEF LocalAddress, tapsEndpointGetAddress, HasAddress,
       tapsPreconnectionListen
  <2>2. /\ atListen'.port = port
        /\ atListen'.ipv4 = ipv4 /\ atListen'.ipv6 = ipv6
    BY <1>3
  <2>3. port # Unset /\ port # 0
    <3>1. LocalAddress.port # 0 /\ listener'.address = LocalAddress
      BY <1>3 DEF tapsPreconnectionListen
    <3>2. htons(0) = 0
      BY DEF htons
    <3> QED
      BY <2>1, <3>1, <3>2
  <2>4. htons(listener'.address.port) = port
    <3>1. port \in Nat /\ port < 65536
      BY <2>3, EndpointAssumption DEF ListenerInv
    <3>2. listener'.address.port = htons(port)
      BY <2>1, <2>3
    <3>3. htons(htons(port)) = port
      BY <3>1, HtonsTwice
    <3> QED
      BY <3>2, <3>3
  <2>5. /\ Wanted(listener.proto)'
        /\ listener'.proto \in Entries'
        /\ \A i \in Entries' : Wanted(i)' => listener'.proto <= i
    BY <1>1, <1>3, <2>1, FirstWanted DEF Wanted, Allowed, Entries
  <2>6. ListensAsAsked'
    BY <2>1, <2>2, <2>3, <2>4, <2>5 DEF ListensAsAsked
  <2> QED
    BY <1>1, <2>5, <2>6 DEF ListenerInv
<1> QED
  BY <1>2, <1>3 DEF tapsPreconnectionListen

(* Listen leaves the table alone, and meets garbage in slot 0 only when    *)
(* numProtocols did not start with 0.                                      *)
LEMMA ListenTable ==
    ASSUME TableInv, tapsPreconnectionListen, fault = "none"
    PROVE  TableInv'
<1>1. UNCHANGED <<pc, tableVars>> /\ pc = "live"
  BY DEF tapsPreconnectionListen, pcVars
<1>2. CASE UNCHANGED fault
  BY <1>1, <1>2, TableUnchanged
<1>3. CASE fault' = "garbage" /\ table[0] = Garbage
  <2>1. stale # 0
    <3>1. /\ 0 \in Slots /\ numProtocols \in Int /\ numProtocols # 0
          /\ MaxCandidates \in Nat
      BY <1>1, SlotFacts DEF TableInv, TableTypes, FillInv
    <3>2. ASSUME stale = 0 PROVE FALSE
      <4>1. stale \in 0 .. MaxCandidates
        BY <3>1, <3>2
      <4>2. 0 \in InUse
        BY <3>1, <4>1 DEF TableInv, FillInv, InUse
      <4> QED
        BY <1>3, <3>2, <4>1, <4>2 DEF TableInv, FillInv
    <3> QED
      BY <3>2
  <2>2. /\ UNCHANGED <<pc, directory, scan, table, numProtocols>>
        /\ UNCHANGED <<frees, stale, askedThen>>
    BY <1>1 DEF tableVars
  <2>3. InUse' = InUse /\ Entries' = Entries
    BY <2>2 DEF InUse, Entries
  <2>4. TableTypes' /\ FillInv'
    BY <2>2, <2>3 DEF TableInv, TableTypes, FillInv
  <2>5. CandidatesMatch' /\ StringsFreedOnce'
    BY <2>2, <2>3 DEF TableInv, CandidatesMatch, StringsFreedOnce, Wanted,
       Allowed, Passed, HeldBy
  <2> QED
    BY <1>3, <2>1, <2>2, <2>4, <2>5 DEF TableInv, OnlyStaleFaults
<1> QED
  BY <1>2, <1>3 DEF tapsPreconnectionListen

-----------------------------------------------------------------------------
(* The invariant *)

(* A step that leaves the transport properties alone keeps their vectors.  *)
LEMMA VectorsUnchanged ==
    ASSUME VectorInv, UNCHANGED tpVars
    PROVE  VectorInv'
BY DEF VectorInv, PreferenceHonoured, tpVars, vectors

(* Before the first call the invariant holds.                              *)
LEMMA InitInvariant == Init => IInv
<1> SUFFICES ASSUME Init PROVE IInv
  OBVIOUS
<1>1. VectorInv
  BY DEF Init, TpInit, VectorInv, PreferenceHonoured, Preferences,
     TypedAbilities, Abilities
<1>2. /\ Entries = {} /\ InUse = {}
      /\ directory = <<>> /\ Len(directory) = 0
  BY SlotFacts DEF Init, Entries, InUse
<1>3. TableTypes
  BY <1>2 DEF Init, TableTypes
<1>4. FillInv
  BY <1>2, SlotFacts DEF Init, FillInv
<1>5. CandidatesMatch /\ StringsFreedOnce /\ OnlyStaleFaults
  BY <1>2 DEF Init, CandidatesMatch, StringsFreedOnce, OnlyStaleFaults
<1>6. ListenerInv /\ CallInv
  BY DEF Init, EpInit, ListenerInv, ListensAsAsked, CallInv
<1> QED
  BY <1>1, <1>3, <1>4, <1>5, <1>6 DEF IInv, TableInv

(* Every call of the application, and every turn of the loops of New and   *)
(* Free, keeps the invariant.                                              *)
LEMMA StepInvariant == IInv /\ [Next]_vars => IInv'
<1> SUFFICES ASSUME IInv, [Next]_vars PROVE IInv'
  OBVIOUS
<1> USE DEF IInv
<1>0. port \in Ports \cup {Unset}
  BY DEF ListenerInv
<1>1. CASE Properties /\ pc \notin {"new", "freeing"}
  <2>1. UNCHANGED <<pcVars, epVars, listener, atListen, fault>>
    BY <1>1 DEF Properties
  <2>2. ListenerInv'
    BY <1>0, <2>1, ListenerUnchanged DEF pcVars, tableVars, epVars
  <2>3. TableInv' /\ CallInv'
    BY <1>1, <2>1, TableUnchanged DEF pcVars, CallInv
  <2> QED
    BY <1>1, <2>2, <2>3, PropertiesKeepVectors
<1>2. CASE Endpoints
  <2>1. UNCHANGED <<pcVars, tpVars, listener, atListen, fault>>
    BY <1>2 DEF Endpoints
  <2>2. ListenerInv'
    BY <1>2, <2>1, ListenerUnchanged, EndpointsKeepPort DEF pcVars, tableVars
  <2>3. TableInv' /\ CallInv'
    BY <2>1, TableUnchanged DEF pcVars, tableVars, tpVars, CallInv
  <2> QED
    BY <2>1, <2>2, <2>3, VectorsUnchanged
<1>3. CASE \E f \in StringNames : tapsEndpointGetProperty(f)
  <2>1. /\ UNCHANGED <<pcVars, tpVars, epVars, listener, atListen>>
        /\ fault' = "null"
    BY <1>3 DEF tapsEndpointGetProperty
  <2>2. ListenerInv'
    BY <1>0, <2>1, ListenerUnchanged DEF pcVars, tableVars, epVars
  <2>3. TableInv' /\ CallInv'
    BY <2>1, TableUnchanged DEF pcVars, tableVars, tpVars, CallInv
  <2> QED
    BY <2>1, <2>2, <2>3, VectorsUnchanged
<1>4. ASSUME NEW locals \in {0, 1}, NEW dir \in Directories,
             NEW count \in StaleCounts, fault = "none",
             tapsPreconnectionNew(locals, dir, count)
      PROVE  IInv'
  <2>1. /\ UNCHANGED <<tpVars, epVars, listener>> /\ listener = NoListener
        /\ tp = "live" /\ askedThen' = asked
    BY <1>4 DEF tapsPreconnectionNew
  <2>2. ListenerInv'
    BY <2>1 DEF ListenerInv, ListensAsAsked, epVars
  <2>3. CallInv'
    BY <2>1 DEF CallInv, tpVars
  <2> QED
    BY <1>4, <2>1, <2>2, <2>3, VectorsUnchanged, NewTable
<1>5. CASE tapsPreconnectionListen /\ fault = "none"
  <2>1. UNCHANGED <<tpVars, pcVars>>
    BY <1>5 DEF tapsPreconnectionListen
  <2>2. CallInv'
    BY <2>1 DEF CallInv, tpVars, pcVars, tableVars
  <2> QED
    BY <1>5, <2>1, <2>2, VectorsUnchanged, ListenTable, ListenKeepsListener
<1>6. CASE NewEntry
  <2>1. /\ UNCHANGED <<tpVars, epVars, pc, directory>>
        /\ UNCHANGED <<askedThen, listener, atListen>>
    BY <1>6 DEF NewEntry
  <2>2. ListenerInv'
    BY <1>0, <2>1, ListenerUnchanged DEF epVars
  <2>3. CallInv'
    BY <2>1 DEF CallInv, tpVars
  <2>4. TableInv'
    BY <1>6, DropTable, KeepTable DEF NewEntry
  <2> QED
    BY <2>1, <2>2, <2>3, <2>4, VectorsUnchanged
<1>7. CASE NewReturns \/ tapsPreconnectionFree \/ FreeReturns
  <2>1. UNCHANGED <<tpVars, epVars, tableVars, listener, atListen, fault>>
    BY <1>7 DEF NewReturns, tapsPreconnectionFree, FreeReturns
  <2>2. ListenerInv'
    BY <1>0, <2>1, ListenerUnchanged DEF epVars, tableVars
  <2>3. CallInv'
    BY <1>7 DEF NewReturns, tapsPreconnectionFree, FreeReturns, CallInv
  <2>4. TableInv'
    BY <1>7, <2>1, ReturnsTable
  <2> QED
    BY <2>1, <2>2, <2>3, <2>4, VectorsUnchanged
<1>8. CASE FreeEntry
  <2>1. /\ UNCHANGED <<tpVars, epVars, directory, askedThen>>
        /\ UNCHANGED <<listener, atListen>>
        /\ pc = "freeing" /\ pc' = pc
    BY <1>8 DEF FreeEntry
  <2>2. ListenerInv'
    BY <1>0, <2>1, ListenerUnchanged DEF epVars
  <2>3. CallInv'
    BY <2>1 DEF CallInv
  <2>4. TableInv'
    BY <1>8, FreeTable
  <2> QED
    BY <2>1, <2>2, <2>3, <2>4, VectorsUnchanged
<1>9. CASE UNCHANGED vars
  <2>1. UNCHANGED <<pcVars, tpVars, epVars, listener, atListen, fault>>
    BY <1>9 DEF vars
  <2>2. ListenerInv'
    BY <1>0, <2>1, ListenerUnchanged DEF pcVars, tableVars, epVars
  <2>3. TableInv' /\ CallInv'
    BY <2>1, TableUnchanged DEF pcVars, tableVars, tpVars, CallInv
  <2> QED
    BY <2>1, <2>2, <2>3, VectorsUnchanged
<1> QED
  BY <1>1, <1>2, <1>3, <1>4, <1>5, <1>6, <1>7, <1>8, <1>9
     DEF Next, Application

(* The inductive invariant: vectors and history, the table of candidates   *)
(* and what a listener was given agree in every reachable state.           *)
THEOREM Invariance == Spec => []IInv
BY InitInvariant, StepInvariant, PTL DEF Spec

(* Each ability is in the vector of the preference asked for last and in   *)
(* no other (the setters of taps_transport_properties.c).                  *)
THEOREM PreferenceAlwaysHonoured == Spec => []PreferenceHonoured
<1>1. IInv => PreferenceHonoured
  BY DEF IInv, VectorInv
<1> QED
  BY <1>1, Invariance, PTL

(* The loop of New keeps the first protocols that match what was asked, up *)
(* to the size of the table, and New fails only when there is none         *)
(* (tapsPreconnectionNew).                                                 *)
THEOREM CandidatesAlwaysMatch == Spec => []CandidatesMatch
<1>1. IInv => CandidatesMatch
  BY DEF IInv, TableInv
<1> QED
  BY <1>1, Invariance, PTL

(* The strings of each entry that the loop of New has passed are freed     *)
(* once or in one slot that Free will come to, whatever numProtocols       *)
(* started with (the loops of tapsPreconnectionNew and                     *)
(* tapsPreconnectionFree).                                                 *)
THEOREM StringsAlwaysFreedOnce == Spec => []StringsFreedOnce
<1>1. IInv => StringsFreedOnce
  BY DEF IInv, TableInv
<1> QED
  BY <1>1, Invariance, PTL

(* Only a numProtocols that did not start with 0 makes Listen or Free use  *)
(* a slot nobody filled, and only one that started outside the table makes *)
(* New write outside it, for every int it may start with.                  *)
THEOREM FaultsOnlyStale == Spec => []OnlyStaleFaults
<1>1. IInv => OnlyStaleFaults
  BY DEF IInv, TableInv
<1> QED
  BY <1>1, Invariance, PTL

(* A listener has the port and the address the endpoint had at Listen, on  *)
(* the first protocol that was wanted at New (tapsPreconnectionListen).    *)
THEOREM AlwaysListensAsAsked == Spec => []ListensAsAsked
<1>1. IInv => ListensAsAsked
  BY DEF IInv, ListenerInv
<1> QED
  BY <1>1, Invariance, PTL

-----------------------------------------------------------------------------
(* Types *)

(* What TypeOK says beyond the invariant.                                  *)
RestTypes ==
    /\ TpTypeOK
    /\ EpTypeOK
    /\ pc \in {"none", "new", "live", "freeing", "freed"}
    /\ numLocal \in {0, 1}
    /\ directory \in Directories \cup {<<>>}
    /\ fault \in {"none", "overrun", "garbage", "null"}
    /\ askedThen \in [Abilities -> Preferences]

(* The vectors keep to the sixteen abilities and the other fields to their *)
(* types, whatever the application calls.                                  *)
LEMMA PropertiesKeepTypes ==
    ASSUME TpTypeOK, VectorInv', Properties
    PROVE  TpTypeOK'
<1> USE DEF TpTypeOK
<1>0. /\ asked' \in [Abilities -> Preferences]
      /\ "multipath" \in Abilities /\ "direction" \in Abilities
      /\ "advertises_altaddr" \in Abilities
      /\ MaxSets \in Nat
  BY PropertiesAssumption DEF VectorInv, Abilities
<1>1. ASSUME NEW type \in {"listener", "initiate", "rendezvous"},
             tapsTransportPropertiesNew(type)
      PROVE  TpTypeOK'
  <2>1. require' \subseteq Abilities /\ avoid' \subseteq Abilities
    BY <1>1 DEF tapsTransportPropertiesNew, Abilities
  <2>2. prefer' \subseteq Abilities
    BY <1>1 DEF tapsTransportPropertiesNew, Abilities
  <2>3. /\ tp' = "live" /\ multipath' \in {"disabled", "active", "passive"}
        /\ UNCHANGED <<prohibit, explicitlySet, direction, advertises_altaddr>>
        /\ UNCHANGED <<interfaces, ifPreference, sets>>
    BY <1>1 DEF tapsTransportPropertiesNew, ifVars
  <2> QED
    BY <1>0, <2>1, <2>2, <2>3
<1>2. ASSUME Setting PROVE tp' = tp /\ sets' \in 0 .. MaxSets
  BY <1>0, <1>2 DEF Setting
<1>3. ASSUME NEW p \in Settable, NEW x \in Preferences,
             tapsTransportPropertiesSet(p, x)
      PROVE  TpTypeOK'
  <2>1. p \in Abilities
    BY PropertiesAssumption
  <2>2. /\ require' \subseteq Abilities /\ prefer' \subseteq Abilities
        /\ avoid' \subseteq Abilities /\ prohibit' \subseteq Abilities
        /\ explicitlySet' \subseteq Abilities
    BY <1>3, <2>1 DEF tapsTransportPropertiesSet, SetVectors, Put
  <2>3. /\ tp' = tp /\ sets' \in 0 .. MaxSets
        /\ UNCHANGED <<multipath, direction, advertises_altaddr>>
        /\ UNCHANGED <<interfaces, ifPreference>>
    BY <1>2, <1>3 DEF tapsTransportPropertiesSet, typed, ifVars
  <2> QED
    BY <1>0, <2>2, <2>3
<1>4. ASSUME NEW p \in Abilities, NEW on, Prefer(p, on)
      PROVE  /\ \A v \in {require', prefer', avoid', prohibit', explicitlySet'} :
                  v \subseteq Abilities
             /\ tp' = tp /\ sets' \in 0 .. MaxSets
             /\ UNCHANGED <<interfaces, ifPreference>>
  BY <1>2, <1>4 DEF Prefer, Put, ifVars
<1>5. ASSUME NEW x \in Multipaths, tapsTransportPropertiesSetMultipath(x)
      PROVE  TpTypeOK'
  <2>1. /\ Prefer("multipath", x # "disabled")
        /\ multipath' \in {"disabled", "active", "passive"}
        /\ UNCHANGED <<direction, advertises_altaddr>>
    BY <1>5, PropertiesAssumption DEF tapsTransportPropertiesSetMultipath
  <2> QED
    BY <1>0, <1>4, <2>1
<1>6. ASSUME NEW x \in Directions, tapsTransportPropertiesSetDirection(x)
      PROVE  TpTypeOK'
  <2>1. /\ Prefer("direction", x # "bidir")
        /\ direction' \in {"bidir", "send", "recv"}
        /\ UNCHANGED <<multipath, advertises_altaddr>>
    BY <1>6, PropertiesAssumption DEF tapsTransportPropertiesSetDirection
  <2> QED
    BY <1>0, <1>4, <2>1
<1>7. ASSUME NEW x \in BOOLEAN,
             tapsTransportPropertiesSetAdvertises_altaddr(x)
      PROVE  TpTypeOK'
  <2>1. /\ Prefer("advertises_altaddr", x)
        /\ advertises_altaddr' \in BOOLEAN
        /\ UNCHANGED <<multipath, direction>>
    BY <1>7 DEF tapsTransportPropertiesSetAdvertises_altaddr
  <2> QED
    BY <1>0, <1>4, <2>1
<1>8. ASSUME NEW i \in Interfaces \cup {NoSuchInterface},
             NEW x \in Preferences, tapsTransportPropertiesSetInterface(i, x)
      PROVE  TpTypeOK'
  <2>1. /\ interfaces' \in {"null", "held"}
        /\ ifPreference' \in [Interfaces -> Preferences]
    BY <1>8 DEF tapsTransportPropertiesSetInterface, ifVars
  <2>2. /\ tp' = tp /\ sets' \in 0 .. MaxSets
        /\ UNCHANGED <<require, prefer, avoid, prohibit, explicitlySet>>
        /\ UNCHANGED <<multipath, direction, advertises_altaddr>>
    BY <1>2, <1>8 DEF tapsTransportPropertiesSetInterface, vectors, typed
  <2> QED
    BY <1>0, <2>1, <2>2
<1>9. ASSUME tapsTransportPropertiesFree PROVE TpTypeOK'
  BY <1>0, <1>9 DEF tapsTransportPropertiesFree, vectors, typed
<1> QED
  BY <1>1, <1>3, <1>5, <1>6, <1>7, <1>8, <1>9 DEF Properties

LEMMA InitTypes == Init => RestTypes
<1> SUFFICES ASSUME Init PROVE RestTypes
  OBVIOUS
<1>1. TpTypeOK
  <2>1. /\ ifPreference \in [Interfaces -> Preferences]
        /\ asked \in [Abilities -> Preferences]
    BY DEF Init, TpInit, Preferences
  <2>2. sets \in 0 .. MaxSets
    BY PropertiesAssumption DEF Init, TpInit
  <2> QED
    BY <2>1, <2>2 DEF Init, TpInit, TpTypeOK
<1>2. EpTypeOK
  BY DEF Init, EpInit, EpTypeOK
<1> QED
  BY <1>1, <1>2 DEF Init, RestTypes, TpTypeOK

LEMMA StepTypes == RestTypes /\ VectorInv' /\ [Next]_vars => RestTypes'
<1> SUFFICES ASSUME RestTypes, VectorInv', [Next]_vars PROVE RestTypes'
  OBVIOUS
<1>0. /\ UNCHANGED tpVars => TpTypeOK'
      /\ UNCHANGED epVars => EpTypeOK'
  BY DEF RestTypes, TpTypeOK, EpTypeOK, tpVars, vectors, typed, ifVars, epVars
<1>1. CASE Properties
  BY <1>0, <1>1, PropertiesKeepTypes
     DEF Properties, RestTypes, pcVars, tableVars
<1>2. CASE Endpoints
  <2>1. EpTypeOK'
    BY <1>2 DEF Endpoints, RestTypes, EpTypeOK, tapsEndpointNew,
       tapsEndpointWithPort, tapsEndpointWithIPv4Address,
       tapsEndpointWithIPv6Address, tapsEndpointWithString, tapsEndpointFree
  <2> QED
    BY <1>0, <1>2, <2>1 DEF Endpoints, RestTypes, pcVars, tableVars
<1>3. CASE \E f \in StringNames : tapsEndpointGetProperty(f)
  BY <1>0, <1>3 DEF tapsEndpointGetProperty, RestTypes, pcVars, tableVars
<1>4. CASE \E locals \in {0, 1}, dir \in Directories, count \in StaleCounts :
              tapsPreconnectionNew(locals, dir, count)
  <2>1. /\ UNCHANGED <<tpVars, epVars, fault>>
        /\ numLocal' \in {0, 1} /\ directory' \in Directories
        /\ pc' = "new" /\ askedThen' = asked
    BY <1>4 DEF tapsPreconnectionNew
  <2> QED
    BY <1>0, <2>1 DEF RestTypes, TpTypeOK
<1>5. CASE tapsPreconnectionListen
  <2>1. /\ fault' \in {fault, "garbage"}
        /\ UNCHANGED <<tpVars, epVars, pcVars>>
    BY <1>5 DEF tapsPreconnectionListen
  <2> QED
    BY <1>0, <2>1 DEF RestTypes, pcVars, tableVars
<1>6. CASE NewEntry \/ FreeEntry
  <2>1. /\ fault' \in {fault, "overrun", "garbage"}
        /\ UNCHANGED <<tpVars, epVars, pc, numLocal, directory, askedThen>>
    BY <1>6 DEF NewEntry, DropEntry, KeepEntry, FreeEntry
  <2> QED
    BY <1>0, <2>1 DEF RestTypes
<1>7. CASE NewReturns \/ tapsPreconnectionFree \/ FreeReturns
  <2>1. /\ pc' \in {"none", "live", "freeing", "freed"}
        /\ UNCHANGED <<tpVars, epVars, numLocal, directory, askedThen, fault>>
    BY <1>7 DEF NewReturns, tapsPreconnectionFree, FreeReturns, tableVars
  <2> QED
    BY <1>0, <2>1 DEF RestTypes
<1>8. CASE UNCHANGED vars
  BY <1>0, <1>8 DEF vars, RestTypes, pcVars, tableVars
<1> QED
  BY <1>1, <1>2, <1>3, <1>4, <1>5, <1>6, <1>7, <1>8 DEF Next, Application

(* Every field of the properties, the endpoint and the preconnection keeps *)
(* its type, and every filled slot holds an entry of the directory,        *)
(* whatever int numProtocols starts with.                                  *)
THEOREM TypeCorrect == Spec => []TypeOK
<1>1. IInv => VectorInv
  BY DEF IInv
<1>2. IInv /\ RestTypes => TypeOK
  BY DEF IInv, TableInv, TableTypes, ListenerInv, RestTypes, TypeOK
<1> QED
  BY <1>1, <1>2, InitTypes, StepTypes, Invariance, PTL DEF Spec
=============================================================================
