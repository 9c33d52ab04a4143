---------------------- MODULE ProtocolDirectoryProofs ----------------------
(* Proofs about ProtocolDirectory for every directory, every sequence of   *)
(* events and every number of slots: the parser stays inside the caller's  *)
(* array, and a step leaves alone what the scan has counted.               *)
EXTENDS ProtocolDirectory, TLAPS

(* While the scan goes on there is a free slot, and while a file is parsed *)
(* it has used less than the space that its call was given.                *)
SpaceInv ==
    /\ at \in {"opendir", "scan", "parse"} => numProtos \in 0 .. Slots - 1
    /\ at = "parse" => parsed < space

IInv == TypeOK /\ SpaceInv

(* What every step needs of the counters.                                  *)
LEMMA Counters ==
    ASSUME IInv
    PROVE  /\ Slots \in Nat /\ Slots > 0
           /\ numProtos \in Int /\ parsed \in Nat /\ entry \in Nat
           /\ at = "parse" => /\ proto \in DOMAIN list
                              /\ numProtos >= 0
                              /\ proto >= numProtos
                              /\ parsed + 1 <= space
                              /\ space \in 1 .. Slots
  BY SlotsAssumption DEF IInv, TypeOK, SpaceInv, proto, space

(* An initial state.                                                       *)
LEMMA InitInv == Init => IInv
  BY SlotsAssumption DEF Init, IInv, TypeOK, SpaceInv, Garbage, Cleared

(* The result of a file that fits is a count of the scan, which goes on    *)
(* only with a free slot.                                                  *)
LEMMA ReturnsInv ==
    ASSUME IInv, NEW n \in 0 .. Slots, ParseReturns(n)
    PROVE  /\ at' \in {"scan", "returned"}
           /\ numProtos' \in 0 .. Slots
           /\ entry' \in Nat \ {0}
           /\ at' = "scan" => numProtos' \in 0 .. Slots - 1
  BY Counters DEF IInv, TypeOK, ParseReturns

(* An event that leaves the counters and the array alone.                  *)
LEMMA QuietInv ==
    ASSUME IInv, at = "parse", UNCHANGED <<at, entry, numProtos, list, parsed>>,
           eventLevel' \in {"NONE", "STREAM", "DOCUMENT", "MAPPING", "SEQUENCE"},
           got' \subseteq Required
    PROVE  IInv'
  BY DEF IInv, TypeOK, SpaceInv, space

(* The clean-up of a failed parse.                                         *)
LEMMA FailInv ==
    ASSUME IInv, Fail
    PROVE  IInv'
  BY DEF IInv, TypeOK, SpaceInv, space, Fail

(* A case that only moves to another level.                                *)
LEMMA MoveInv ==
    ASSUME IInv, at = "parse", NEW level,
           NEW next \in {"NONE", "STREAM", "DOCUMENT", "MAPPING", "SEQUENCE"},
           Move(level, next)
    PROVE  IInv'
  <1>1. CASE eventLevel # level
    BY <1>1, FailInv DEF Move
  <1>2. CASE eventLevel = level
    <2>1. UNCHANGED <<at, entry, numProtos, list, parsed, got>> /\ eventLevel' = next
      BY <1>2 DEF Move
    <2>2. got' \subseteq Required
      BY <2>1 DEF IInv, TypeOK
    <2> QED
      BY <2>1, <2>2, QuietInv
  <1> QED
    BY <1>1, <1>2

(* A change of the entry being filled keeps the shape of the array.        *)
LEMMA StoreInv ==
    ASSUME IInv, at = "parse",
           NEW e, DOMAIN e = DOMAIN Cleared, e.properties \subseteq PropertyNames,
           list' = [list EXCEPT ![proto] = e]
    PROVE  /\ DOMAIN list' = 0 .. Slots - 1
           /\ \A i \in DOMAIN list' : /\ DOMAIN list'[i] = DOMAIN Cleared
                                      /\ list'[i].properties \subseteq PropertyNames
           /\ \A i \in 0 .. numProtos - 1 : list'[i] = list[i]
  <1>1. /\ proto \in DOMAIN list /\ proto >= numProtos /\ proto \in Int
        /\ numProtos \in Int
    BY Counters DEF IInv, TypeOK
  <1>2. /\ DOMAIN list = 0 .. Slots - 1
        /\ \A i \in DOMAIN list : /\ DOMAIN list[i] = DOMAIN Cleared
                                  /\ list[i].properties \subseteq PropertyNames
    BY DEF IInv, TypeOK
  <1>3. DOMAIN list' = DOMAIN list
    OBVIOUS
  <1>4. \A i \in DOMAIN list : list'[i] = IF i = proto THEN e ELSE list[i]
    OBVIOUS
  <1>5. \A i \in 0 .. numProtos - 1 : i # proto /\ i \in DOMAIN list
    BY <1>1, <1>2, Counters
  <1> HIDE DEF proto
  <1> QED
    BY <1>2, <1>3, <1>4, <1>5

(* What a step of the scan leaves alone.                                   *)
Kept == \A i \in 0 .. numProtos - 1 : list'[i] = list[i]

(* The steps of tapsUpdateProtocols.                                       *)
LEMMA ScanStep ==
    ASSUME IInv, OpenDirectory \/ SkipEntry \/ ParseFile \/ ScanEnds
    PROVE  IInv' /\ Kept
  <1>0. Slots \in Nat /\ Slots > 0 /\ numProtos \in Int /\ entry \in Nat
    BY Counters
  <1>1. CASE OpenDirectory
    <2>1. CASE names = NoDirectory
      BY <1>0, <1>1, <2>1 DEF OpenDirectory, IInv, TypeOK, SpaceInv, Kept, parseVars
    <2>2. CASE names # NoDirectory
      <3>1. at = "opendir" /\ at' = "scan"
            /\ UNCHANGED <<numProtos, entry, list, eventLevel, got, parsed>>
        BY <1>1, <2>2 DEF OpenDirectory, parseVars
      <3> QED
        BY <1>0, <3>1 DEF IInv, TypeOK, SpaceInv, Kept
    <2> QED
      BY <2>1, <2>2
  <1>2. CASE SkipEntry
    BY <1>0, <1>2 DEF SkipEntry, IInv, TypeOK, SpaceInv, Kept, parseVars, space
  <1>3. CASE ParseFile
    <2>1. Kept
      BY <1>3 DEF ParseFile, Kept
    <2>2. CASE File.init
      <3>1. /\ at = "scan" /\ at' = "parse" /\ eventLevel' = "NONE"
            /\ got' = {} /\ parsed' = 0
            /\ UNCHANGED <<numProtos, entry, list>>
        BY <1>3, <2>2 DEF ParseFile
      <3>2. numProtos \in 0 .. Slots - 1
        BY <3>1 DEF IInv, SpaceInv
      <3>3. parsed' < space' /\ parsed' \in 0 .. Slots
        BY <1>0, <3>1, <3>2 DEF space
      <3> QED
        BY <2>1, <3>1, <3>2, <3>3 DEF IInv, TypeOK, SpaceInv
    <2>3. CASE ~File.init
      <3>1. ParseReturns(0) /\ UNCHANGED parseVars /\ UNCHANGED list
        BY <1>3, <2>3 DEF ParseFile
      <3>2. /\ at' \in {"scan", "returned"}
            /\ numProtos' \in 0 .. Slots
            /\ entry' \in Nat \ {0}
            /\ at' = "scan" => numProtos' \in 0 .. Slots - 1
        BY <1>0, <3>1, ReturnsInv
      <3> QED
        BY <2>1, <3>1, <3>2 DEF IInv, TypeOK, SpaceInv, parseVars
    <2> QED
      BY <2>1, <2>2, <2>3
  <1>4. CASE ScanEnds
    BY <1>0, <1>4 DEF ScanEnds, IInv, TypeOK, SpaceInv, Kept, parseVars
  <1> QED
    BY <1>1, <1>2, <1>3, <1>4

(* The start and the end of a document.                                    *)
LEMMA DocumentStep ==
    ASSUME IInv, DocumentStart \/ DocumentEnd
    PROVE  IInv' /\ Kept
  <1>1. CASE DocumentStart
    <2>1. CASE eventLevel # "STREAM"
      <3>1. Fail
        BY <1>1, <2>1 DEF DocumentStart
      <3> QED
        BY <3>1, FailInv DEF Fail, Kept
    <2>2. CASE eventLevel = "STREAM"
      <3>1. /\ at = "parse" /\ eventLevel' = "DOCUMENT" /\ got' = {}
            /\ list' = [list EXCEPT ![proto] = Cleared]
            /\ UNCHANGED <<at, entry, numProtos, parsed>>
        BY <1>1, <2>2 DEF DocumentStart, Event
      <3>2. Cleared.properties \subseteq PropertyNames
        BY DEF Cleared
      <3>3. /\ DOMAIN list' = 0 .. Slots - 1
            /\ \A i \in DOMAIN list' : /\ DOMAIN list'[i] = DOMAIN Cleared
                                       /\ list'[i].properties \subseteq PropertyNames
            /\ \A i \in 0 .. numProtos - 1 : list'[i] = list[i]
        BY <3>1, <3>2, StoreInv
      <3> QED
        BY <3>1, <3>3 DEF IInv, TypeOK, SpaceInv, Kept, space
    <2> QED
      BY <2>1, <2>2
  <1>2. CASE DocumentEnd
    <2>1. CASE eventLevel # "DOCUMENT" \/ got # Required
      <3>1. Fail
        BY <1>2, <2>1 DEF DocumentEnd
      <3> QED
        BY <3>1, FailInv DEF Fail, Kept
    <2>2. CASE ~(eventLevel # "DOCUMENT" \/ got # Required)
      <3>1. /\ at = "parse" /\ eventLevel' = "STREAM" /\ parsed' = parsed + 1
            /\ IF parsed' = space
               THEN ParseReturns(parsed')
               ELSE UNCHANGED <<at, entry, numProtos>>
            /\ UNCHANGED <<list, key, got>>
        BY <1>2, <2>2 DEF DocumentEnd, Event
      <3>2. /\ parsed' \in 0 .. Slots /\ parsed' <= space
            /\ numProtos \in Int /\ space \in Int
        BY <3>1, Counters
      <3>3. CASE parsed' = space
        <4>1. /\ at' \in {"scan", "returned"}
              /\ numProtos' \in 0 .. Slots
              /\ entry' \in Nat \ {0}
              /\ at' = "scan" => numProtos' \in 0 .. Slots - 1
          BY <3>1, <3>2, <3>3, ReturnsInv
        <4> QED
          BY <3>1, <3>2, <4>1 DEF IInv, TypeOK, SpaceInv, Kept
      <3>4. CASE parsed' # space
        <4>1. space' = space /\ parsed' < space
          BY <3>1, <3>2, <3>4 DEF space
        <4> QED
          BY <3>1, <3>2, <3>4, <4>1 DEF IInv, TypeOK, SpaceInv, Kept
      <3> QED
        BY <3>3, <3>4
    <2> QED
      BY <2>1, <2>2
  <1> QED
    BY <1>1, <1>2

(* A scalar is a key, a property, one of the three fields, or dropped.     *)
LEMMA ScalarStep ==
    ASSUME IInv, ScalarEvent
    PROVE  IInv' /\ Kept
  <1>1. at = "parse" /\ UNCHANGED <<at, entry, numProtos, eventLevel, parsed>>
    BY DEF ScalarEvent, Event
  <1>2. /\ got \subseteq Required
        /\ eventLevel \in {"NONE", "STREAM", "DOCUMENT", "MAPPING", "SEQUENCE"}
    BY DEF IInv, TypeOK
  <1>3. /\ proto \in DOMAIN list
        /\ DOMAIN list[proto] = DOMAIN Cleared
        /\ list[proto].properties \subseteq PropertyNames
    BY <1>1, Counters DEF IInv, TypeOK
  <1>4. CASE UNCHANGED <<list, got>>
    BY <1>1, <1>2, <1>4, QuietInv DEF Kept
  <1>5. CASE key = "properties" /\
             list' = [list EXCEPT ![proto].properties =
                                    @ \cup ({Scalar} \cap PropertyNames)] /\
             UNCHANGED got
    <2> DEFINE e == [list[proto] EXCEPT !.properties =
                                    @ \cup ({Scalar} \cap PropertyNames)]
    <2>1. list' = [list EXCEPT ![proto] = e]
      BY <1>5
    <2>2. DOMAIN e = DOMAIN Cleared /\ e.properties \subseteq PropertyNames
      BY <1>3 DEF Cleared
    <2> HIDE DEF e
    <2>3. /\ DOMAIN list' = 0 .. Slots - 1
          /\ \A i \in DOMAIN list' : /\ DOMAIN list'[i] = DOMAIN Cleared
                                     /\ list'[i].properties \subseteq PropertyNames
          /\ \A i \in 0 .. numProtos - 1 : list'[i] = list[i]
      BY <1>1, <2>1, <2>2, StoreInv
    <2> QED
      BY <1>1, <1>5, <2>3 DEF IInv, TypeOK, SpaceInv, Kept, space
  <1>6. CASE key \in Required /\ list' = [list EXCEPT ![proto][key] = Scalar] /\
             got' = got \cup {key}
    <2> DEFINE e == [list[proto] EXCEPT ![key] = Scalar]
    <2>1. list' = [list EXCEPT ![proto] = e]
      BY <1>6
    <2>2. DOMAIN e = DOMAIN Cleared /\ e.properties \subseteq PropertyNames
      BY <1>3, <1>6 DEF Required, Cleared
    <2> HIDE DEF e
    <2>3. /\ DOMAIN list' = 0 .. Slots - 1
          /\ \A i \in DOMAIN list' : /\ DOMAIN list'[i] = DOMAIN Cleared
                                     /\ list'[i].properties \subseteq PropertyNames
          /\ \A i \in 0 .. numProtos - 1 : list'[i] = list[i]
      BY <1>1, <2>1, <2>2, StoreInv
    <2>4. got' \subseteq Required
      BY <1>2, <1>6
    <2> QED
      BY <1>1, <2>3, <2>4 DEF IInv, TypeOK, SpaceInv, Kept, space
  <1> QED
    BY <1>4, <1>5, <1>6 DEF ScalarEvent

(* The other events.                                                       *)
LEMMA LevelStep ==
    ASSUME IInv,
           ParserError \/ StreamStart \/ StreamEnd \/ MappingStart \/ MappingEnd
               \/ SequenceStart \/ SequenceEnd \/ OtherEvent
    PROVE  IInv' /\ Kept
  <1>1. at = "parse"
    BY DEF ParserError, StreamStart, StreamEnd, MappingStart, MappingEnd,
           SequenceStart, SequenceEnd, OtherEvent, Event
  <1>2. CASE Fail
    BY <1>2, FailInv DEF Fail, Kept
  <1>3. ASSUME NEW level,
               NEW next \in {"NONE", "STREAM", "DOCUMENT", "MAPPING", "SEQUENCE"},
               Move(level, next)
        PROVE  IInv' /\ Kept
    BY <1>1, <1>3, MoveInv DEF Move, Fail, Kept
  <1>4. CASE ParserError
    BY <1>2, <1>4 DEF ParserError
  <1>5. CASE StreamStart \/ MappingStart \/ MappingEnd \/ SequenceStart
    BY <1>3, <1>5 DEF StreamStart, MappingStart, MappingEnd, SequenceStart
  <1>6. CASE StreamEnd
    <2>1. CASE eventLevel # "STREAM"
      BY <1>2, <1>6, <2>1 DEF StreamEnd
    <2>2. CASE eventLevel = "STREAM"
      <3>1. /\ eventLevel' = "NONE" /\ ParseReturns(parsed)
            /\ UNCHANGED <<list, key, got, parsed>>
        BY <1>6, <2>2 DEF StreamEnd
      <3>2. parsed \in 0 .. Slots
        BY DEF IInv, TypeOK
      <3>3. /\ at' \in {"scan", "returned"}
            /\ numProtos' \in 0 .. Slots
            /\ entry' \in Nat \ {0}
            /\ at' = "scan" => numProtos' \in 0 .. Slots - 1
        BY <3>1, <3>2, ReturnsInv
      <3> QED
        BY <3>1, <3>3, Counters DEF IInv, TypeOK, SpaceInv, Kept
    <2> QED
      BY <2>1, <2>2
  <1>7. CASE SequenceEnd
    <2>1. CASE eventLevel # "SEQUENCE"
      BY <1>2, <1>7, <2>1 DEF SequenceEnd
    <2>2. CASE eventLevel = "SEQUENCE"
      <3>1. /\ eventLevel' = "MAPPING"
            /\ UNCHANGED <<at, entry, numProtos, list, got, parsed>>
        BY <1>7, <2>2 DEF SequenceEnd
      <3>2. got' \subseteq Required
        BY <3>1 DEF IInv, TypeOK
      <3> QED
        BY <1>1, <3>1, <3>2, QuietInv DEF Kept
    <2> QED
      BY <2>1, <2>2
  <1>8. CASE OtherEvent
    BY <1>1, <1>8, QuietInv DEF OtherEvent, Kept, IInv, TypeOK
  <1> QED
    BY <1>4, <1>5, <1>6, <1>7, <1>8

(* Every step keeps the invariant and the entries already counted.         *)
LEMMA Step == IInv /\ [Next]_vars => IInv' /\ Kept
  <1> SUFFICES ASSUME IInv, [Next]_vars
               PROVE  IInv' /\ Kept
    OBVIOUS
  <1>1. CASE Next
    BY <1>1, ScanStep, DocumentStep, ScalarStep, LevelStep DEF Next, Parse
  <1>2. CASE UNCHANGED vars
    BY <1>2 DEF vars, parseVars, IInv, TypeOK, SpaceInv, Kept, space
  <1> QED
    BY <1>1, <1>2

(* The inductive invariant holds in every reachable state.                 *)
THEOREM Invariant == Spec => []IInv
  BY InitInv, Step, PTL DEF Spec

(* Type correctness, with the bounds of the array and of both counts.      *)
THEOREM TypeCorrect == Spec => []TypeOK
  <1>1. IInv => TypeOK
    BY DEF IInv
  <1> QED
    BY <1>1, Invariant, PTL

(* No file of any directory makes tapsParseYaml leave the slots the scan   *)
(* was told of.                                                            *)
THEOREM StaysWithinSlots == Spec => []WithinSlots
  <1>1. IInv => WithinSlots
    BY Counters DEF WithinSlots, IInv, TypeOK
  <1> QED
    BY <1>1, Invariant, PTL
=============================================================================
