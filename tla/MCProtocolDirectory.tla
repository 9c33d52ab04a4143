----------------------- MODULE MCProtocolDirectory -----------------------
(* Directories for ProtocolDirectory.  The places of a file are put        *)
(* together from its documents and its events made of them, or the events  *)
(* are written out where no document has them.                             *)
EXTENDS ProtocolDirectory, SequencesExt

E(type) == [type |-> type, value |-> ""]
S(v)    == [type |-> "SCALAR", value |-> v]
Strings(values) == [i \in DOMAIN values |-> S(values[i])]

Field(k, v)  == [key |-> k, values |-> <<v>>, list |-> FALSE]
ListOf(k, v) == [key |-> k, values |-> v, list |-> TRUE]

(* The places of field j of document d, of the document, and of a file.    *)
FieldPlaces(f, d, j) ==
    LET values == [v \in DOMAIN f.values |-> Place("VALUE", d, j, v)]
    IN  <<Place("KEY", d, j, 0)>> \o
        IF f.list THEN <<Place("SEQUENCE_START", d, j, 0)>> \o values
                           \o <<Place("SEQUENCE_END", d, j, 0)>>
        ELSE values

DocPlaces(doc, d) ==
    <<Place("DOCUMENT_START", d, 0, 0), Place("MAPPING_START", d, 0, 0)>>
        \o FlattenSeq([j \in DOMAIN doc |-> FieldPlaces(doc[j], d, j)])
        \o <<Place("MAPPING_END", d, 0, 0), Place("DOCUMENT_END", d, 0, 0)>>

Places(docs) ==
    <<Start>> \o FlattenSeq([d \in DOMAIN docs |-> DocPlaces(docs[d], d)])
        \o <<Place("STREAM_END", 0, 0, 0)>>

Raw(docs, places, events) ==
    [yaml |-> TRUE, opens |-> TRUE, init |-> TRUE,
     docs |-> docs, places |-> places, events |-> events]

Laid(docs, places) ==
    Raw(docs, places, [n \in DOMAIN places |-> EventAt(docs, places[n])])

YamlFile(docs) == Laid(docs, Places(docs))

Odd(events) ==
    Raw(<<>>, <<>>, <<E("STREAM_START"), E("DOCUMENT_START")>> \o events
                        \o <<E("DOCUMENT_END"), E("STREAM_END")>>)

-----------------------------------------------------------------------------
(* Documents: kernel.yaml's two, one with its list first, a repeated field *)
(* and unknown keys with a scalar and with lists, and one without list.    *)
TCP == <<Field("name", "tcp"), Field("protocol", "TCP"), Field("libpath", "t.so"),
         ListOf("properties", <<"reliability", "preserveOrder", "reliability">>)>>
UDP == <<Field("name", "udp"), Field("protocol", "UDP"), Field("libpath", "u.so"),
         ListOf("properties", <<"zeroRttMsg">>)>>
QUIC == <<ListOf("properties", <<"reliability", "noSuchProperty">>),
          Field("version", "1"), Field("libpath", "old.so"),
          ListOf("authors", <<"a", "b">>), Field("libpath", "q.so"),
          ListOf("notes", <<>>), Field("protocol", "QUIC"), Field("name", "quic")>>
SCTP == <<Field("protocol", "SCTP"), Field("version", "2"),
          Field("libpath", "s.so"), Field("name", "sctp")>>
NoPath == <<Field("name", "np"), Field("protocol", "NP")>>
NoPathNoProto == <<Field("name", "np")>>
(* properties given a scalar: it stays the key until a list ends.          *)
BareProperty == SCTP \o <<Field("properties", "reliability")>>
(* The second author is taken for a key and the third for its value.       *)
StrayKey == NoPath \o <<ListOf("authors", <<"a", "libpath", "b.so">>)>>

Written == [tcp |-> TCP, udp |-> UDP, quic |-> QUIC, sctp |-> SCTP,
            noPath |-> NoPath, noPathNoProto |-> NoPathNoProto,
            bareProperty |-> BareProperty, strayKey |-> StrayKey]

(* A file is named after its documents.                                    *)
GoodNames ==
    UNION {[1 .. n -> {"tcp", "udp", "quic", "sctp"}] : n \in 0 .. 2}
        \cup {<<"tcp", "udp", "quic">>, <<"tcp", "udp", "quic", "sctp">>}

BadNames == {<<"noPath">>, <<"tcp", "noPath">>, <<"noPathNoProto">>}

BareNames ==
    {<<"bareProperty">>, <<"bareProperty", "tcp">>, <<"bareProperty", "quic">>,
     <<"strayKey">>, <<"udp", "strayKey">>}

Broken == [
    atOnce   |-> Laid(<<>>, <<Illegal>>),
    later    |-> Laid(<<TCP>>, Front(Places(<<TCP>>)) \o <<Illegal>>),
    sequence |-> Odd(<<E("SEQUENCE_START"), E("SEQUENCE_END")>>),
    scalar   |-> Odd(<<S("name")>>),
    alias    |-> Odd(<<E("ALIAS")>>),
    nested   |-> Odd(<<E("MAPPING_START"), S("name"), E("MAPPING_START"),
                       E("MAPPING_END"), E("MAPPING_END")>>),
    (* The alias leaves the key to the first scalar of the next document.  *)
    staleKey |-> Odd(<<E("MAPPING_START")>>
        \o Strings(<<"name", "tcp", "protocol", "TCP", "libpath", "t.so", "name">>)
        \o <<E("ALIAS"), E("MAPPING_END"), E("DOCUMENT_END")>>
        \o <<E("DOCUMENT_START"), E("MAPPING_START")>>
        \o Strings(<<"x", "protocol", "P", "libpath", "L", "name">>)
        \o <<E("MAPPING_END")>>),
    text     |-> [YamlFile(<<TCP>>) EXCEPT !.yaml = FALSE],
    secret   |-> [YamlFile(<<TCP>>) EXCEPT !.opens = FALSE],
    noMemory |-> [YamlFile(<<TCP>>) EXCEPT !.init = FALSE]]

Names == GoodNames \cup BadNames \cup BareNames \cup {<<n>> : n \in DOMAIN Broken}

(* TLC evaluates Files once, and a definition that replaces a constant     *)
(* wherever it is used.                                                    *)
Files ==
    [n \in {<<b>> : b \in DOMAIN Broken} |-> Broken[n[1]]] @@
    [n \in GoodNames \cup BadNames \cup BareNames |->
        YamlFile([d \in DOMAIN n |-> Written[n[d]]])]

MCContents == Files

(* The parser can read every file but those with a properties field that   *)
(* has no list or a long list under an unknown key, and those that are no  *)
(* mapping of fields.                                                      *)
ASSUME FormatAssumption ==
    /\ \A n \in Names :
          WellFormed(Files[n]) <=>
              n \in GoodNames \cup {<<"text">>, <<"secret">>, <<"noMemory">>}
    /\ \A n \in BadNames \cup {<<"atOnce">>, <<"later">>} : Readable(Files[n])

MCDirectories ==
    {<<>>} \cup {<<n>> : n \in Names} \cup {<<n, o>> : n, o \in Names}
    \cup {<< <<"tcp">>, n, <<"udp", "quic">> >> : n \in Names}

TwoFiles == {<< <<"tcp", "udp">>, <<"quic">> >>}

MCPropertyNames == {"reliability", "preserveOrder", "zeroRttMsg"}
=============================================================================
