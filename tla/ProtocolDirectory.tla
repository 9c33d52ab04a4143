------------------------- MODULE ProtocolDirectory -------------------------
(***************************************************************************)
(* src/src/taps_cfg.c: tapsUpdateProtocols scans the files of /etc/taps    *)
(* and tapsParseYaml runs a small state machine over the events libyaml    *)
(* makes of each, filling the caller's array of protocols.                 *)
(*                                                                         *)
(* The input is a whole directory, chosen in Init and read through an      *)
(* index: a sequence of file names in the order of readdir.  Contents      *)
(* gives each file the answers to the tests of the scan (yaml: its name    *)
(* passes; opens: fopen; init: yaml_parser_initialize) and the events that *)
(* libyaml makes of it.  An action is one directory entry or one event.    *)
(* Of a file there are also the documents its author wrote, and the place  *)
(* of each event in them; the code never sees them, they are what the      *)
(* result is compared with.                                                *)
(***************************************************************************)
EXTENDS Integers, Sequences, FiniteSets

CONSTANTS
    Directories,     \* the directories to scan: sequences of file names
    Contents,        \* what each file holds
    NoDirectory,     \* opendir fails
    Slots,           \* slotsRemaining, the entries of the caller's array
    PropertyNames    \* tapsPropertyNames of taps.h

ASSUME SlotsAssumption == Slots \in Nat \ {0}

(* A directory is the sequence of the files that readdir finds.            *)
ASSUME DirectoriesAssumption == Directories \subseteq Seq(DOMAIN Contents)

ASSUME ContentsAssumption ==
    \A n \in DOMAIN Contents :
        Contents[n].events \in Seq([type : STRING, value : STRING])

VARIABLES
    names,           \* the directory
    at,              \* "opendir", "scan", "parse", "returned", and after a
                     \*   failed parse "endless" or "aborted"
    entry,           \* readdir: the next, or while parsing the current, file
    numProtos,       \* of tapsUpdateProtocols
    list,            \* the caller's array, not cleared
    input,           \* the parser's input: the events not yet taken
    eventLevel,
    key,             \* the scalar kept as the key of the next one
    got,             \* got_name, got_path, got_proto
    parsed           \* numProtos of tapsParseYaml

parseVars == <<input, eventLevel, key, got, parsed>>
vars      == <<names, at, entry, numProtos, list, parseVars>>

Required == {"name", "protocol", "libpath"}

(* An entry of the array before it is cleared: stale pointers and bits.    *)
Garbage == [name |-> "garbage", protocol |-> "garbage",
            libpath |-> "garbage", properties |-> PropertyNames]
Cleared == [name |-> "NULL", protocol |-> "NULL",
            libpath |-> "NULL", properties |-> {}]

(* Every variable holds a value of its type.  An entry that libyaml's      *)
(* strings were stored in holds some string.                               *)
TypeOK ==
    /\ at \in {"opendir", "scan", "parse", "returned", "endless", "aborted"}
    /\ entry \in Nat \ {0}
    /\ numProtos \in -1 .. Slots
    /\ DOMAIN list = 0 .. Slots - 1
    /\ \A i \in DOMAIN list : /\ DOMAIN list[i] = DOMAIN Cleared
                              /\ list[i].properties \subseteq PropertyNames
    /\ eventLevel \in {"NONE", "STREAM", "DOCUMENT", "MAPPING", "SEQUENCE"}
    /\ got \subseteq Required
    /\ parsed \in 0 .. Slots

Init ==
    /\ names \in Directories \cup {NoDirectory}
    /\ at = "opendir"
    /\ entry = 1
    /\ numProtos = 0
    /\ list = [i \in 0 .. Slots - 1 |-> Garbage]
    /\ input = <<>>
    /\ eventLevel = "NONE"
    /\ key = "NULL"
    /\ got = {}
    /\ parsed = 0

-----------------------------------------------------------------------------
(* tapsUpdateProtocols *)

(* opendir; a missing directory is reported as -1.                         *)
OpenDirectory ==
    /\ at = "opendir"
    /\ IF names = NoDirectory
       THEN at' = "returned" /\ numProtos' = -1
       ELSE at' = "scan" /\ UNCHANGED numProtos
    /\ UNCHANGED <<names, entry, list, parseVars>>

FileAt(f) == Contents[names[f]]
File == FileAt(entry)

(* A short name, another extension or a file that cannot be opened.        *)
SkipEntry ==
    /\ at = "scan"
    /\ entry <= Len(names)
    /\ ~(File.yaml /\ File.opens)
    /\ entry' = entry + 1
    /\ UNCHANGED <<names, at, numProtos, list, parseVars>>

(* The array entry tapsParseYaml is filling: its protocol argument is      *)
(* list + numProtos, its proto as many entries further as it has parsed.   *)
proto == numProtos + parsed

(* Faulty variant: what earlier files took is not subtracted.              *)
MutSpace == Slots

space == Slots - numProtos

(* Back in the loop with tapsParseYaml's result n: it replaces the count.  *)
ParseReturns(n) ==
    /\ numProtos' = n
    /\ entry' = entry + 1
    /\ at' = IF n = Slots THEN "returned" ELSE "scan"

(* The call of tapsParseYaml up to its loop.  A parser that cannot be      *)
(* initialised is a file without protocols.                                *)
ParseFile ==
    /\ at = "scan"
    /\ entry <= Len(names)
    /\ File.yaml /\ File.opens
    /\ IF File.init
       THEN /\ at' = "parse"
            /\ input' = File.events
            /\ eventLevel' = "NONE"
            /\ key' = "NULL"
            /\ got' = {}
            /\ parsed' = 0
            /\ UNCHANGED <<numProtos, entry>>
       ELSE ParseReturns(0) /\ UNCHANGED parseVars
    /\ UNCHANGED <<names, list>>

ScanEnds ==
    /\ at = "scan"
    /\ entry > Len(names)
    /\ at' = "returned"
    /\ UNCHANGED <<names, entry, numProtos, list, parseVars>>

-----------------------------------------------------------------------------
(* tapsParseYaml *)

(* yaml_parser_parse has returned an event of this type.  The last one it  *)
(* makes is the end of the stream or an error, and neither is followed by  *)
(* another call.                                                           *)
Event(type) ==
    /\ at = "parse"
    /\ input # <<>>
    /\ Head(input).type = type
    /\ input' = Tail(input)
    /\ UNCHANGED names

Scalar == Head(input).value

(* fail: the loop that frees what was parsed moves proto, not toDelete, so *)
(* it stays at the first entry of this file.  If that entry has a protocol *)
(* or a library path they are freed again and again, and the allocator     *)
(* aborts; otherwise the loop does not end.                                *)
Fail ==
    /\ at' = IF list[numProtos].protocol # "NULL" \/
                list[numProtos].libpath # "NULL"
             THEN "aborted" ELSE "endless"
    /\ UNCHANGED <<entry, numProtos, list, eventLevel, key, got, parsed>>

(* STATE_MUST_BE(level), and the rest of the case with the loop going on.  *)
Move(level, next) ==
    IF eventLevel # level
    THEN Fail
    ELSE /\ eventLevel' = next
         /\ UNCHANGED <<at, entry, numProtos, list, key, got, parsed>>

ParserError ==
    /\ Event("ERROR")
    /\ Fail

StreamStart ==
    /\ Event("STREAM_START")
    /\ Move("NONE", "STREAM")

StreamEnd ==
    /\ Event("STREAM_END")
    /\ IF eventLevel # "STREAM"
       THEN Fail
       ELSE /\ eventLevel' = "NONE"
            /\ ParseReturns(parsed)
            /\ UNCHANGED <<list, key, got, parsed>>

(* Faulty variant: the entry is not cleared.                               *)
MutDocumentStart ==
    /\ Event("DOCUMENT_START")
    /\ IF eventLevel # "STREAM"
       THEN Fail
       ELSE /\ eventLevel' = "DOCUMENT"
            /\ got' = {}
            /\ UNCHANGED <<at, entry, numProtos, list, key, parsed>>

(* Faulty variant: what the document before had counts for this one.       *)
MutDocumentStartGot ==
    /\ Event("DOCUMENT_START")
    /\ IF eventLevel # "STREAM"
       THEN Fail
       ELSE /\ eventLevel' = "DOCUMENT"
            /\ list' = [list EXCEPT ![proto] = Cleared]
            /\ UNCHANGED <<at, entry, numProtos, key, got, parsed>>

(* The entry is cleared; the key is not.                                   *)
DocumentStart ==
    /\ Event("DOCUMENT_START")
    /\ IF eventLevel # "STREAM"
       THEN Fail
       ELSE /\ eventLevel' = "DOCUMENT"
            /\ list' = [list EXCEPT ![proto] = Cleared]
            /\ got' = {}
            /\ UNCHANGED <<at, entry, numProtos, key, parsed>>

(* Faulty variant: the array may fill up beyond its last entry.            *)
MutDocumentEnd ==
    /\ Event("DOCUMENT_END")
    /\ IF eventLevel # "DOCUMENT" \/ got # Required
       THEN Fail
       ELSE /\ eventLevel' = "STREAM"
            /\ parsed' = parsed + 1
            /\ UNCHANGED <<at, entry, numProtos, list, key, got>>

(* Faulty variant: a document without a library path is accepted.          *)
MutDocumentEndPath ==
    /\ Event("DOCUMENT_END")
    /\ IF eventLevel # "DOCUMENT" \/ ~({"name", "protocol"} \subseteq got)
       THEN Fail
       ELSE /\ eventLevel' = "STREAM"
            /\ parsed' = parsed + 1
            /\ IF parsed' = space
               THEN ParseReturns(parsed')
               ELSE UNCHANGED <<at, entry, numProtos>>
            /\ UNCHANGED <<list, key, got>>

(* The document must have had all three fields.  A full array ends the     *)
(* file here.                                                              *)
DocumentEnd ==
    /\ Event("DOCUMENT_END")
    /\ IF eventLevel # "DOCUMENT" \/ got # Required
       THEN Fail
       ELSE /\ eventLevel' = "STREAM"
            /\ parsed' = parsed + 1
            /\ IF parsed' = space
               THEN ParseReturns(parsed')
               ELSE UNCHANGED <<at, entry, numProtos>>
            /\ UNCHANGED <<list, key, got>>

MappingStart ==
    /\ Event("MAPPING_START")
    /\ Move("DOCUMENT", "MAPPING")

MappingEnd ==
    /\ Event("MAPPING_END")
    /\ Move("MAPPING", "DOCUMENT")

SequenceStart ==
    /\ Event("SEQUENCE_START")
    /\ Move("MAPPING", "SEQUENCE")

(* The end of a list is the end of its key.                                *)
SequenceEnd ==
    /\ Event("SEQUENCE_END")
    /\ IF eventLevel # "SEQUENCE"
       THEN Fail
       ELSE /\ eventLevel' = "MAPPING"
            /\ key' = "NULL"
            /\ UNCHANGED <<at, entry, numProtos, list, got, parsed>>

(* Faulty variant: an unknown key is kept like that of a list.             *)
MutScalarEvent ==
    /\ Event("SCALAR")
    /\ \/ /\ key = "NULL"
          /\ key' = Scalar
          /\ UNCHANGED <<list, got>>
       \/ /\ key = "properties"
          /\ list' = [list EXCEPT ![proto].properties =
                                    @ \cup ({Scalar} \cap PropertyNames)]
          /\ UNCHANGED <<key, got>>
       \/ /\ key \in Required
          /\ list' = [list EXCEPT ![proto][key] = Scalar]
          /\ got' = got \cup {key}
          /\ key' = "NULL"
       \/ /\ key \notin Required \cup {"NULL", "properties"}
          /\ UNCHANGED <<key, list, got>>
    /\ UNCHANGED <<at, entry, numProtos, eventLevel, parsed>>

(* A scalar, at whatever level: a key, an element under properties (which  *)
(* stays the key), one of the three fields, or the value of an unknown     *)
(* key, which is dropped with its key.                                     *)
ScalarEvent ==
    /\ Event("SCALAR")
    /\ \/ /\ key = "NULL"
          /\ key' = Scalar
          /\ UNCHANGED <<list, got>>
       \/ /\ key = "properties"
          /\ list' = [list EXCEPT ![proto].properties =
                                    @ \cup ({Scalar} \cap PropertyNames)]
          /\ UNCHANGED <<key, got>>
       \/ /\ key \in Required
          /\ list' = [list EXCEPT ![proto][key] = Scalar]
          /\ got' = got \cup {key}
          /\ key' = "NULL"
       \/ /\ key \notin Required \cup {"NULL", "properties"}
          /\ key' = "NULL"
          /\ UNCHANGED <<list, got>>
    /\ UNCHANGED <<at, entry, numProtos, eventLevel, parsed>>

(* The default case: an alias, which the parser skips.                     *)
OtherEvent ==
    /\ Event("ALIAS")
    /\ UNCHANGED <<at, entry, numProtos, list, eventLevel, key, got, parsed>>

Parse ==
    \/ ParserError \/ StreamStart \/ StreamEnd \/ DocumentStart \/ DocumentEnd
    \/ MappingStart \/ MappingEnd \/ SequenceStart \/ SequenceEnd
    \/ ScalarEvent \/ OtherEvent

Next == OpenDirectory \/ SkipEntry \/ ParseFile \/ ScanEnds \/ Parse

Spec == Init /\ [][Next]_vars

(* The scan is one uninterrupted call.                                     *)
LiveSpec == Spec /\ WF_vars(Next)

-----------------------------------------------------------------------------
(* What the files say.  A document is a sequence of fields, each a key     *)
(* with a list of values; the last of a repeated field counts.             *)
Document == Seq([key : STRING, values : Seq(STRING), list : BOOLEAN])

Fields(doc, k) == {i \in DOMAIN doc : doc[i].key = k}

ValueOf(doc, k) ==
    doc[CHOOSE i \in Fields(doc, k) : \A j \in Fields(doc, k) : j <= i].values[1]

Described(doc) ==
    [name       |-> ValueOf(doc, "name"),
     protocol   |-> ValueOf(doc, "protocol"),
     libpath    |-> ValueOf(doc, "libpath"),
     properties |-> {v \in PropertyNames :
                        \E i \in Fields(doc, "properties") :
                            \E j \in DOMAIN doc[i].values :
                                doc[i].values[j] = v}]

Complete(doc) == \A k \in Required : Fields(doc, k) # {}

(* tapsUpdateProtocols gets as far as tapsParseYaml's loop.               *)
Opened(f) == f.yaml /\ f.opens
Usable(f) == Opened(f) /\ f.init

(* A place is a part of the stream, of a document, or of a field of one.   *)
(* libyaml reads the places in order and makes an event of each.           *)
Place(part, d, j, v) == [part |-> part, doc |-> d, field |-> j, value |-> v]

Start   == Place("STREAM_START", 0, 0, 0)
Illegal == Place("ERROR", 0, 0, 0)       \* libyaml gives up

EventAt(docs, p) ==
    CASE p.part = "KEY" ->
           [type |-> "SCALAR", value |-> docs[p.doc][p.field].key]
      [] p.part = "VALUE" ->
           [type |-> "SCALAR", value |-> docs[p.doc][p.field].values[p.value]]
      [] OTHER -> [type |-> p.part, value |-> ""]

NextDocument(docs, d) ==
    IF d < Len(docs) THEN Place("DOCUMENT_START", d + 1, 0, 0)
                     ELSE Place("STREAM_END", 0, 0, 0)

NextField(docs, d, j) ==
    IF j < Len(docs[d]) THEN Place("KEY", d, j + 1, 0)
                        ELSE Place("MAPPING_END", d, 0, 0)

NextValue(docs, d, j, v) ==
    IF v < Len(docs[d][j].values) THEN Place("VALUE", d, j, v + 1)
    ELSE IF docs[d][j].list       THEN Place("SEQUENCE_END", d, j, 0)
                                  ELSE NextField(docs, d, j)

Following(docs, p) ==
    CASE p.part = "STREAM_START"   -> NextDocument(docs, 0)
      [] p.part = "DOCUMENT_START" -> Place("MAPPING_START", p.doc, 0, 0)
      [] p.part = "MAPPING_START"  -> NextField(docs, p.doc, 0)
      [] p.part = "KEY" ->
           IF docs[p.doc][p.field].list
           THEN Place("SEQUENCE_START", p.doc, p.field, 0)
           ELSE NextValue(docs, p.doc, p.field, 0)
      [] p.part = "SEQUENCE_START" -> NextValue(docs, p.doc, p.field, 0)
      [] p.part = "VALUE" -> NextValue(docs, p.doc, p.field, p.value)
      [] p.part = "SEQUENCE_END"   -> NextField(docs, p.doc, p.field)
      [] p.part = "MAPPING_END"    -> Place("DOCUMENT_END", p.doc, 0, 0)
      [] p.part = "DOCUMENT_END"   -> NextDocument(docs, p.doc)

(* The events of the file are those of its documents, to the end or up to  *)
(* an error.                                                               *)
LaidOut(f) ==
    /\ f.docs \in Seq(Document)
    /\ f.places \in Seq([part : STRING, doc : Nat, field : Nat, value : Nat])
    /\ f.places # <<>>
    /\ f.places[1] \in {Start, Illegal}
    /\ f.events = [n \in DOMAIN f.places |-> EventAt(f.docs, f.places[n])]
    /\ \A n \in DOMAIN f.places :
          IF f.places[n].part \in {"STREAM_END", "ERROR"}
          THEN n = Len(f.places)
          ELSE /\ n < Len(f.places)
               /\ f.places[n + 1] \in {Following(f.docs, f.places[n]), Illegal}

(* A field that tapsParseYaml can follow.  properties must have a list,    *)
(* whose end is the end of the key.  The parser sees elements after the    *)
(* first of any other list as keys and values in turn.                     *)
Plain(field) ==
    /\ field.key # "NULL"
    /\ field.key \in Required => field.values # <<>>
    /\ IF field.list
       THEN field.key = "properties" \/
            \A v \in 2 .. Len(field.values) :
                field.values[v] \notin Required \cup {"properties"}
       ELSE field.key # "properties" /\ Len(field.values) = 1

Readable(f) ==
    LaidOut(f) /\ \A d \in DOMAIN f.docs : \A j \in DOMAIN f.docs[d] :
                     Plain(f.docs[d][j])

(* A file in the format of protocols.md and kernel.yaml.                   *)
WellFormed(f) ==
    /\ Readable(f)
    /\ \A n \in DOMAIN f.places : f.places[n].part # "ERROR"
    /\ \A d \in DOMAIN f.docs : Complete(f.docs[d])

Returned == at = "returned" /\ names # NoDirectory

(* All files that are parsed are readable.                                 *)
AllReadable ==
    \A f \in DOMAIN names : Usable(FileAt(f)) => Readable(FileAt(f))

-----------------------------------------------------------------------------
(* Properties *)

(* tapsParseYaml never clears or fills an entry past the slots it was told *)
(* of, although each file starts where the count of the file before says   *)
(* and has only the space which that count leaves.                         *)
WithinSlots ==
    at = "parse" /\ eventLevel \notin {"NONE", "STREAM"} => proto < Slots

(* A scalar k is the last one before event n.                              *)
Follows(events, n, k) ==
    \E m \in 1 .. n - 1 :
        /\ events[m].type = "SCALAR" /\ events[m].value = k
        /\ \A l \in m + 1 .. n - 1 : events[l].type # "SCALAR"

(* The events between a and b belong to the document that starts at a, and *)
(* the given fields and the properties of e are scalars among them, each   *)
(* field one that follows its key.                                         *)
FilledBetween(e, fields, events, a, b) ==
    /\ events[a].type = "DOCUMENT_START"
    /\ \A n \in a + 1 .. b - 1 :
          events[n].type \notin {"DOCUMENT_START", "DOCUMENT_END"}
    /\ \A k \in fields : \E n \in a + 1 .. b - 1 :
          /\ events[n].type = "SCALAR" /\ events[n].value = e[k]
          /\ Follows(events, n, k)
    /\ \A x \in e.properties : \E n \in a + 1 .. b - 1 :
          events[n].type = "SCALAR" /\ events[n].value = x

(* Whatever libyaml makes of the files, every entry returned was filled by *)
(* one document of one file, from its start to its end: all of its strings *)
(* stand there, each after its key, and all of its properties; nothing is  *)
(* left from the uninitialised array, from the document before or from a   *)
(* file whose entries were overwritten, also where a stale key makes the   *)
(* parser take a value for another field (tapsParseYaml).                  *)
FromOneDocument ==
    Returned =>
        \A i \in 0 .. numProtos - 1 :
            \E f \in DOMAIN names :
                /\ Usable(FileAt(f))
                /\ \E a, b \in DOMAIN FileAt(f).events :
                     /\ FilledBetween(list[i], Required, FileAt(f).events, a, b)
                     /\ FileAt(f).events[b].type = "DOCUMENT_END"

(* When the fields of all files are Plain, every entry returned is what    *)
(* one document of one file describes, with all of its strings and exactly *)
(* its properties: no entry mixes two documents, is left over from the     *)
(* uninitialised array, or lacks a field, also when files break off or are *)
(* incomplete and later ones have overwritten part of what earlier ones    *)
(* stored.                                                                 *)
EntriesComplete ==
    Returned /\ AllReadable =>
        \A i \in 0 .. numProtos - 1 :
            \E f \in DOMAIN names : \E d \in DOMAIN FileAt(f).docs :
                /\ Usable(FileAt(f))
                /\ Complete(FileAt(f).docs[d])
                /\ list[i] = Described(FileAt(f).docs[d])

(* With one usable file that is well formed the result is its protocols in *)
(* order, as many as fit: key order, repeated fields, unknown keys and     *)
(* what stands in other directory entries do not matter.                   *)
OneFileFound ==
    Returned =>
        \A f \in DOMAIN names :
            /\ \A g \in DOMAIN names : Opened(FileAt(g)) <=> g = f
            /\ FileAt(f).init
            /\ WellFormed(FileAt(f))
            => /\ numProtos = IF Len(FileAt(f).docs) < Slots
                              THEN Len(FileAt(f).docs) ELSE Slots
               /\ \A i \in 0 .. numProtos - 1 :
                    list[i] = Described(FileAt(f).docs[i + 1])

(* When every file is well formed the scan returns; tapsPreconnectionNew   *)
(* waits for it.                                                           *)
ScanReturns ==
    /\ at = "opendir"
    /\ \/ names = NoDirectory
       \/ \A f \in DOMAIN names : Usable(FileAt(f)) => WellFormed(FileAt(f))
    ~> at = "returned"

(* protocols.md 4-5: "The dynamic-taps project is meant to automatically   *)
(* detect protocols present on a platform", each of which "has installed a *)
(* file in the /etc/taps directory": when all files are well formed and    *)
(* the array is large enough, each protocol of each file is in the result. *)
AllFound ==
    /\ Returned
    /\ \A f \in DOMAIN names : Usable(FileAt(f)) /\ WellFormed(FileAt(f))
    /\ Cardinality({x \in (DOMAIN names) \X (1 .. Slots + 1) :
                        x[2] \in DOMAIN FileAt(x[1]).docs}) <= Slots
    => \A f \in DOMAIN names : \A d \in DOMAIN FileAt(f).docs :
            \E i \in 0 .. numProtos - 1 :
                list[i] = Described(FileAt(f).docs[d])
=============================================================================
