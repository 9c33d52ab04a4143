----------------------- MODULE ProtocolEntriesProofs -----------------------
(* Proofs about ProtocolDirectory: what the parser stores is what the      *)
(* documents of the files describe, for every directory, every readable    *)
(* file and every number of slots.                                         *)
EXTENDS ProtocolDirectoryProofs, SequenceTheorems

-----------------------------------------------------------------------------
(* An entry e and the fields g got so far, after j fields of a document.   *)

(* The strings are those of the last field of each key; a field that was   *)
(* not got has not occurred.                                               *)
Strings(doc, j, e, g) ==
    /\ g \subseteq Required
    /\ e = [k \in DOMAIN Cleared |-> e[k]]
    /\ \A k \in Required \ g : \A i \in 1 .. j : doc[i].key # k
    /\ \A k \in g : \E i \in 1 .. j :
          /\ doc[i].key = k
          /\ e[k] = doc[i].values[1]
          /\ \A m \in 1 .. j : doc[m].key = k => m <= i

(* The properties of the first j fields, and of v elements of one list.    *)
Named(doc, j) ==
    {x \in PropertyNames :
        \E i \in 1 .. j : /\ doc[i].key = "properties"
                          /\ \E m \in DOMAIN doc[i].values : doc[i].values[m] = x}

Listed(field, v) == {x \in PropertyNames : \E m \in 1 .. v : field.values[m] = x}

LEMMA StringsCleared ==
    ASSUME NEW doc
    PROVE  Strings(doc, 0, Cleared, {}) /\ Cleared.properties = Named(doc, 0)
  BY DEF Strings, Cleared, Required, Named

LEMMA StringsSkip ==
    ASSUME NEW doc, NEW j \in Nat \ {0}, NEW e, NEW g,
           Strings(doc, j - 1, e, g), doc[j].key \notin Required
    PROVE  Strings(doc, j, e, g)
  <1>1. \A i \in 1 .. j : i \in 1 .. j - 1 \/ i = j
    OBVIOUS
  <1>2. \A k \in g : \E i \in 1 .. j :
          /\ doc[i].key = k
          /\ e[k] = doc[i].values[1]
          /\ \A m \in 1 .. j : doc[m].key = k => m <= i
    <2> SUFFICES ASSUME NEW k \in g
                 PROVE  \E i \in 1 .. j :
                          /\ doc[i].key = k
                          /\ e[k] = doc[i].values[1]
                          /\ \A m \in 1 .. j : doc[m].key = k => m <= i
      OBVIOUS
    <2>1. k \in Required
      BY DEF Strings
    <2>2. PICK i \in 1 .. j - 1 :
          /\ doc[i].key = k
          /\ e[k] = doc[i].values[1]
          /\ \A m \in 1 .. j - 1 : doc[m].key = k => m <= i
      BY DEF Strings
    <2>3. i \in 1 .. j
      OBVIOUS
    <2>4. \A m \in 1 .. j : doc[m].key = k => m <= i
      BY <1>1, <2>1, <2>2
    <2> QED
      BY <2>2, <2>3, <2>4
  <1>3. \A k \in Required \ g : \A i \in 1 .. j : doc[i].key # k
    BY <1>1 DEF Strings
  <1> QED
    BY <1>2, <1>3 DEF Strings

LEMMA StringsStore ==
    ASSUME NEW doc, NEW j \in Nat \ {0}, NEW e, NEW g,
           Strings(doc, j - 1, e, g), doc[j].key \in Required
    PROVE  Strings(doc, j, [e EXCEPT ![doc[j].key] = doc[j].values[1]],
                   g \cup {doc[j].key})
  <1> DEFINE k0 == doc[j].key
             h  == [e EXCEPT ![k0] = doc[j].values[1]]
  <1>1. \A i \in 1 .. j : i \in 1 .. j - 1 \/ i = j
    OBVIOUS
  <1>2. e = [k \in DOMAIN Cleared |-> e[k]] /\ DOMAIN e = DOMAIN Cleared
    BY DEF Strings
  <1>3. k0 \in DOMAIN e
    BY <1>2 DEF Required, Cleared
  <1>4. /\ h[k0] = doc[j].values[1]
        /\ \A k \in DOMAIN e : k # k0 => h[k] = e[k]
        /\ DOMAIN h = DOMAIN Cleared
        /\ h = [k \in DOMAIN Cleared |-> h[k]]
    BY <1>2, <1>3
  <1>5. g \subseteq DOMAIN e
    BY <1>2 DEF Strings, Required, Cleared
  <1> HIDE DEF h
  <1>6. ASSUME NEW k \in g \cup {k0}
        PROVE  \E i \in 1 .. j :
                 /\ doc[i].key = k
                 /\ h[k] = doc[i].values[1]
                 /\ \A m \in 1 .. j : doc[m].key = k => m <= i
    <2>1. CASE k = k0
      <3>1. j \in 1 .. j /\ \A m \in 1 .. j : m <= j
        OBVIOUS
      <3> QED
        BY <1>4, <2>1, <3>1
    <2>2. CASE k # k0
      <3>1. k \in g /\ k \in DOMAIN e
        BY <1>5, <2>2
      <3>2. PICK i \in 1 .. j - 1 :
            /\ doc[i].key = k
            /\ e[k] = doc[i].values[1]
            /\ \A m \in 1 .. j - 1 : doc[m].key = k => m <= i
        BY <3>1 DEF Strings
      <3>3. i \in 1 .. j
        OBVIOUS
      <3>4. \A m \in 1 .. j : doc[m].key = k => m <= i
        BY <1>1, <2>2, <3>2
      <3> QED
        BY <1>4, <2>2, <3>1, <3>2, <3>3, <3>4
    <2> QED
      BY <2>1, <2>2
  <1>7. \A k \in Required \ (g \cup {k0}) : \A i \in 1 .. j : doc[i].key # k
    BY <1>1 DEF Strings
  <1>8. g \cup {k0} \subseteq Required
    BY DEF Strings
  <1>9. Strings(doc, j, h, g \cup {k0})
    BY <1>4, <1>6, <1>7, <1>8 DEF Strings
  <1> QED
    BY <1>9 DEF h

WithProperties(e, P) == [e EXCEPT !.properties = P]

LEMMA StringsProperty ==
    ASSUME NEW doc, NEW j, NEW e, NEW g, NEW P, Strings(doc, j, e, g),
           NEW h, h = WithProperties(e, P)
    PROVE  Strings(doc, j, h, g) /\ h.properties = P
  <1>1. e = [k \in DOMAIN Cleared |-> e[k]] /\ DOMAIN e = DOMAIN Cleared
    BY DEF Strings
  <1>2. /\ h.properties = P
        /\ \A k \in Required : h[k] = e[k]
        /\ h = [k \in DOMAIN Cleared |-> h[k]]
    BY <1>1 DEF Required, Cleared, WithProperties
  <1>3. g \subseteq Required
    BY DEF Strings
  <1>4. Strings(doc, j, h, g)
    BY <1>2, <1>3 DEF Strings
  <1> QED
    BY <1>2, <1>4

LEMMA NamedStep ==
    ASSUME NEW doc, NEW j \in Nat \ {0},
           DOMAIN doc[j].values = 1 .. Len(doc[j].values)
    PROVE  /\ doc[j].key # "properties" => Named(doc, j) = Named(doc, j - 1)
           /\ doc[j].key = "properties" =>
                Named(doc, j) = Named(doc, j - 1) \cup Listed(doc[j], Len(doc[j].values))
  <1>1. \A i \in Int : i \in 1 .. j <=> i \in 1 .. j - 1 \/ i = j
    OBVIOUS
  <1>2. 1 .. j \subseteq Int /\ 1 .. j - 1 \subseteq Int
    OBVIOUS
  <1> QED
    BY <1>1, <1>2 DEF Named, Listed

LEMMA ListedStep ==
    ASSUME NEW field, NEW v \in Nat \ {0}
    PROVE  /\ Listed(field, 0) = {}
           /\ Listed(field, v) =
                Listed(field, v - 1) \cup ({field.values[v]} \cap PropertyNames)
  <1>1. \A i \in Int : i \in 1 .. v <=> i \in 1 .. v - 1 \/ i = v
    OBVIOUS
  <1>2. 1 .. v \subseteq Int /\ 1 .. v - 1 \subseteq Int
    OBVIOUS
  <1> QED
    BY <1>1, <1>2 DEF Listed

(* A document read to its end with all three strings got.                  *)
LEMMA Finished ==
    ASSUME NEW doc \in Document, NEW e,
           Strings(doc, Len(doc), e, Required), e.properties = Named(doc, Len(doc))
    PROVE  Complete(doc) /\ e = Described(doc)
  <1>1. DOMAIN doc = 1 .. Len(doc) /\ Len(doc) \in Nat
    BY DEF Document
  <1>2. ASSUME NEW k \in Required
        PROVE  Fields(doc, k) # {} /\ e[k] = ValueOf(doc, k)
    <2>1. PICK i \in 1 .. Len(doc) :
            /\ doc[i].key = k
            /\ e[k] = doc[i].values[1]
            /\ \A m \in 1 .. Len(doc) : doc[m].key = k => m <= i
      BY <1>2 DEF Strings
    <2>2. i \in Fields(doc, k) /\ \A j \in Fields(doc, k) : j <= i
      BY <1>1, <2>1 DEF Fields
    <2> DEFINE l == CHOOSE x \in Fields(doc, k) : \A j \in Fields(doc, k) : j <= x
    <2>3. l \in Fields(doc, k) /\ \A j \in Fields(doc, k) : j <= l
      BY <2>2
    <2>4. Fields(doc, k) \subseteq Int
      BY <1>1 DEF Fields
    <2> HIDE DEF l
    <2>5. l = i
      BY <2>2, <2>3, <2>4
    <2>6. ValueOf(doc, k) = doc[l].values[1]
      BY DEF ValueOf, l
    <2> QED
      BY <2>1, <2>2, <2>5, <2>6
  <1>3. Complete(doc)
    BY <1>2 DEF Complete
  <1>4. Named(doc, Len(doc)) = Described(doc).properties
    BY <1>1 DEF Named, Described, Fields
  <1>5. /\ e.name = ValueOf(doc, "name") /\ e.protocol = ValueOf(doc, "protocol")
        /\ e.libpath = ValueOf(doc, "libpath")
    BY <1>2 DEF Required
  <1>6. e = [name |-> e.name, protocol |-> e.protocol, libpath |-> e.libpath,
             properties |-> e.properties]
    <2>1. e = [k \in DOMAIN Cleared |-> e[k]]
      BY DEF Strings
    <2>2. DOMAIN Cleared = {"name", "protocol", "libpath", "properties"}
      BY DEF Cleared
    <2> QED
      BY <2>1, <2>2
  <1>7. Described(doc) = [name |-> ValueOf(doc, "name"),
             protocol |-> ValueOf(doc, "protocol"),
             libpath |-> ValueOf(doc, "libpath"),
             properties |-> Described(doc).properties]
    BY DEF Described
  <1> QED
    BY <1>3, <1>4, <1>5, <1>6, <1>7

-----------------------------------------------------------------------------
(* The parser's variables, and what they hold when it comes to a place.    *)

state == [level |-> eventLevel, key |-> key, parsed |-> parsed, got |-> got,
          cur |-> list[proto]]

(* j fields of document d have been read.                                  *)
After(docs, d, j, s) ==
    /\ d \in 1 .. Len(docs) /\ s.parsed = d - 1
    /\ j \in 0 .. Len(docs[d])
    /\ Strings(docs[d], j, s.cur, s.got)
    /\ s.cur.properties = Named(docs[d], j)

(* v values of field j have been read.  Of a list that is not properties   *)
(* the key may by then be one of the later elements.                       *)
ReadValues(docs, d, j, v, s) ==
    /\ d \in 1 .. Len(docs) /\ s.parsed = d - 1
    /\ j \in 1 .. Len(docs[d])
    /\ v \in 0 .. Len(docs[d][j].values)
    /\ s.level = IF docs[d][j].list THEN "SEQUENCE" ELSE "MAPPING"
    /\ Strings(docs[d], IF v = 0 THEN j - 1 ELSE j, s.cur, s.got)
    /\ IF docs[d][j].key = "properties"
       THEN /\ s.key = "properties"
            /\ s.cur.properties = Named(docs[d], j - 1) \cup Listed(docs[d][j], v)
       ELSE /\ s.cur.properties = Named(docs[d], j - 1)
            /\ IF v = 0 THEN s.key = docs[d][j].key
               ELSE /\ s.key \notin Required \cup {"properties"}
                    /\ docs[d][j].list \/ s.key = "NULL"

Parts == {"STREAM_START", "STREAM_END", "DOCUMENT_START", "DOCUMENT_END",
          "MAPPING_START", "MAPPING_END", "SEQUENCE_START", "SEQUENCE_END",
          "KEY", "VALUE", "ERROR"}

AtPlace(docs, p, s) ==
    /\ p.part \in Parts
    /\ p.part = "STREAM_START" =>
         s.level = "NONE" /\ s.key = "NULL" /\ s.parsed = 0
    /\ p.part = "DOCUMENT_START" =>
         /\ p.doc \in 1 .. Len(docs) /\ s.parsed = p.doc - 1
         /\ s.level = "STREAM" /\ s.key = "NULL"
    /\ p.part = "MAPPING_START" =>
         After(docs, p.doc, 0, s) /\ s.level = "DOCUMENT" /\ s.key = "NULL"
    /\ p.part = "KEY" =>
         /\ p.field \in 1 .. Len(docs[p.doc])
         /\ After(docs, p.doc, p.field - 1, s)
         /\ s.level = "MAPPING" /\ s.key = "NULL"
    /\ p.part = "SEQUENCE_START" =>
         /\ p.field \in 1 .. Len(docs[p.doc])
         /\ After(docs, p.doc, p.field - 1, s)
         /\ docs[p.doc][p.field].list
         /\ s.level = "MAPPING" /\ s.key = docs[p.doc][p.field].key
    /\ p.part = "VALUE" =>
         /\ p.value \in 1 .. Len(docs[p.doc][p.field].values)
         /\ ReadValues(docs, p.doc, p.field, p.value - 1, s)
    /\ p.part = "SEQUENCE_END" =>
         After(docs, p.doc, p.field, s) /\ s.level = "SEQUENCE"
    /\ p.part = "MAPPING_END" =>
         /\ After(docs, p.doc, Len(docs[p.doc]), s)
         /\ s.level = "MAPPING" /\ s.key = "NULL"
    /\ p.part = "DOCUMENT_END" =>
         /\ After(docs, p.doc, Len(docs[p.doc]), s)
         /\ s.level = "DOCUMENT" /\ s.key = "NULL"
    /\ p.part = "STREAM_END" =>
         s.parsed = Len(docs) /\ s.level = "STREAM"

AllPlain(docs) ==
    /\ docs \in Seq(Document)
    /\ \A d \in DOMAIN docs : \A j \in DOMAIN docs[d] : Plain(docs[d][j])

(* The types of a document and of a field.                                 *)
LEMMA DocFacts ==
    ASSUME NEW docs, AllPlain(docs), NEW d \in 1 .. Len(docs)
    PROVE  /\ Len(docs) \in Nat
           /\ docs[d] \in Document
           /\ Len(docs[d]) \in Nat /\ DOMAIN docs[d] = 1 .. Len(docs[d])
  <1>1. docs \in Seq(Document)
    BY DEF AllPlain
  <1>2. docs[d] \in Document /\ Len(docs) \in Nat
    BY <1>1
  <1> QED
    BY <1>2 DEF Document

LEMMA FieldFacts ==
    ASSUME NEW docs, AllPlain(docs), NEW d \in 1 .. Len(docs),
           NEW j \in 1 .. Len(docs[d])
    PROVE  /\ Plain(docs[d][j])
           /\ docs[d][j].list \in BOOLEAN
           /\ docs[d][j].values \in Seq(STRING)
           /\ Len(docs[d][j].values) \in Nat
           /\ DOMAIN docs[d][j].values = 1 .. Len(docs[d][j].values)
           /\ (docs[d][j].values = <<>>) <=> (Len(docs[d][j].values) = 0)
  <1>1. docs[d] \in Document /\ DOMAIN docs[d] = 1 .. Len(docs[d]) /\ Len(docs[d]) \in Nat
    BY DocFacts
  <1>2. docs[d][j] \in [key : STRING, values : Seq(STRING), list : BOOLEAN]
    <2> DEFINE X == [key : STRING, values : Seq(STRING), list : BOOLEAN]
    <2>1. docs[d] \in Seq(X)
      BY <1>1 DEF Document
    <2> HIDE DEF X
    <2>2. docs[d][j] \in X
      BY <2>1, ElementOfSeq
    <2> QED
      BY <2>2 DEF X
  <1>3. docs[d][j].values \in Seq(STRING) /\ docs[d][j].list \in BOOLEAN
    BY <1>2
  <1>4. DOMAIN docs = 1 .. Len(docs)
    BY DEF AllPlain
  <1>5. Plain(docs[d][j])
    BY <1>1, <1>4 DEF AllPlain
  <1>6. (docs[d][j].values = <<>>) <=> (Len(docs[d][j].values) = 0)
    BY <1>3, EmptySeq
  <1> QED
    BY <1>3, <1>5, <1>6

(* The place after a field, a document or a value.                         *)
LEMMA AtNextField ==
    ASSUME NEW docs, AllPlain(docs), NEW d, NEW j, NEW s,
           After(docs, d, j, s), s.level = "MAPPING", s.key = "NULL"
    PROVE  AtPlace(docs, NextField(docs, d, j), s)
  <1>1. d \in 1 .. Len(docs) /\ j \in 0 .. Len(docs[d])
    BY DEF After
  <1>2. Len(docs[d]) \in Nat
    BY <1>1, DocFacts
  <1>3. CASE j < Len(docs[d])
    <2> DEFINE q == Place("KEY", d, j + 1, 0)
    <2>1. NextField(docs, d, j) = q
      BY <1>3 DEF NextField
    <2>2. q.part = "KEY" /\ q.doc = d /\ q.field = j + 1
      BY DEF Place
    <2>3. j + 1 \in 1 .. Len(docs[d]) /\ (j + 1) - 1 = j
      BY <1>1, <1>2, <1>3
    <2> HIDE DEF q
    <2> QED
      BY <2>1, <2>2, <2>3 DEF AtPlace, Parts
  <1>4. CASE ~(j < Len(docs[d]))
    <2> DEFINE q == Place("MAPPING_END", d, 0, 0)
    <2>1. NextField(docs, d, j) = q
      BY <1>4 DEF NextField
    <2>2. q.part = "MAPPING_END" /\ q.doc = d
      BY DEF Place
    <2>3. j = Len(docs[d])
      BY <1>1, <1>2, <1>4
    <2> HIDE DEF q
    <2> QED
      BY <2>1, <2>2, <2>3 DEF AtPlace, Parts
  <1> QED
    BY <1>3, <1>4

LEMMA AtNextDocument ==
    ASSUME NEW docs, AllPlain(docs), NEW d \in 0 .. Len(docs), NEW s,
           s.parsed = d, s.level = "STREAM", s.key = "NULL"
    PROVE  AtPlace(docs, NextDocument(docs, d), s)
  <1>1. Len(docs) \in Nat
    BY DEF AllPlain
  <1>2. CASE d < Len(docs)
    <2> DEFINE q == Place("DOCUMENT_START", d + 1, 0, 0)
    <2>1. NextDocument(docs, d) = q
      BY <1>2 DEF NextDocument
    <2>2. q.part = "DOCUMENT_START" /\ q.doc = d + 1
      BY DEF Place
    <2>3. d + 1 \in 1 .. Len(docs) /\ (d + 1) - 1 = d
      BY <1>1, <1>2
    <2> HIDE DEF q
    <2> QED
      BY <2>1, <2>2, <2>3 DEF AtPlace, Parts
  <1>3. CASE ~(d < Len(docs))
    <2> DEFINE q == Place("STREAM_END", 0, 0, 0)
    <2>1. NextDocument(docs, d) = q
      BY <1>3 DEF NextDocument
    <2>2. q.part = "STREAM_END"
      BY DEF Place
    <2>3. d = Len(docs)
      BY <1>1, <1>3
    <2> HIDE DEF q
    <2> QED
      BY <2>1, <2>2, <2>3 DEF AtPlace, Parts
  <1> QED
    BY <1>2, <1>3

(* All values of a field have been read.                                   *)
LEMMA FieldDone ==
    ASSUME NEW docs, AllPlain(docs), NEW d, NEW j, NEW s,
           ReadValues(docs, d, j, Len(docs[d][j].values), s)
    PROVE  /\ After(docs, d, j, s)
           /\ ~docs[d][j].list => s.level = "MAPPING" /\ s.key = "NULL"
  <1> DEFINE f == docs[d][j]
             n == Len(f.values)
  <1>1. d \in 1 .. Len(docs) /\ j \in 1 .. Len(docs[d])
    BY DEF ReadValues
  <1>2. /\ Plain(f) /\ n \in Nat /\ DOMAIN f.values = 1 .. n
        /\ f.list \in BOOLEAN /\ (f.values = <<>> <=> n = 0)
    <2>1. Plain(f) /\ n \in Nat /\ f.list \in BOOLEAN
      BY <1>1, FieldFacts
    <2>2. DOMAIN f.values = 1 .. n
      BY <1>1, FieldFacts
    <2>3. f.values = <<>> <=> n = 0
      BY <1>1, FieldFacts, Zenon
    <2> QED
      BY <2>1, <2>2, <2>3
  <1>3. Len(docs[d]) \in Nat
    BY <1>1, DocFacts
  <1>4. j \in Nat \ {0} /\ j \in 0 .. Len(docs[d])
    BY <1>1, <1>3
  <1>5. Strings(docs[d], j, s.cur, s.got)
    <2>1. CASE n = 0
      <3>1. f.key \notin Required
        BY <1>2, <2>1 DEF Plain
      <3>2. Strings(docs[d], j - 1, s.cur, s.got)
        BY <2>1 DEF ReadValues
      <3> QED
        BY <1>4, <3>1, <3>2, StringsSkip
    <2>2. CASE n # 0
      BY <2>2 DEF ReadValues
    <2> QED
      BY <2>1, <2>2
  <1>6. s.cur.properties = Named(docs[d], j)
    BY <1>2, <1>4, NamedStep DEF ReadValues
  <1>7. After(docs, d, j, s)
    BY <1>4, <1>5, <1>6 DEF ReadValues, After
  <1>8. ~f.list => s.level = "MAPPING" /\ s.key = "NULL"
    <2> SUFFICES ASSUME ~f.list
                 PROVE  s.level = "MAPPING" /\ s.key = "NULL"
      OBVIOUS
    <2>1. n = 1 /\ f.key # "properties"
      BY <1>2 DEF Plain
    <2>2. n # 0
      BY <2>1
    <2> QED
      BY <2>1, <2>2 DEF ReadValues
  <1> QED
    BY <1>7, <1>8

LEMMA AtNextValue ==
    ASSUME NEW docs, AllPlain(docs), NEW d, NEW j, NEW v, NEW s,
           ReadValues(docs, d, j, v, s)
    PROVE  AtPlace(docs, NextValue(docs, d, j, v), s)
  <1> DEFINE f == docs[d][j]
             n == Len(f.values)
  <1>1. d \in 1 .. Len(docs) /\ j \in 1 .. Len(docs[d]) /\ v \in 0 .. n
    BY DEF ReadValues
  <1>2. n \in Nat /\ f.list \in BOOLEAN
    BY <1>1, FieldFacts, Zenon
  <1>3. CASE v < n
    <2> DEFINE q == Place("VALUE", d, j, v + 1)
    <2>1. NextValue(docs, d, j, v) = q
      BY <1>3 DEF NextValue
    <2>2. q.part = "VALUE" /\ q.doc = d /\ q.field = j /\ q.value = v + 1
      BY DEF Place
    <2>3. v + 1 \in 1 .. n /\ (v + 1) - 1 = v
      BY <1>1, <1>2, <1>3
    <2> HIDE DEF q
    <2> QED
      BY <2>1, <2>2, <2>3 DEF AtPlace, Parts
  <1>4. CASE ~(v < n)
    <2>1. v = n
      BY <1>1, <1>2, <1>4
    <2>2. /\ After(docs, d, j, s)
          /\ ~f.list => s.level = "MAPPING" /\ s.key = "NULL"
      BY <2>1, FieldDone
    <2>3. CASE f.list
      <3> DEFINE q == Place("SEQUENCE_END", d, j, 0)
      <3>1. NextValue(docs, d, j, v) = q
        BY <1>4, <2>3 DEF NextValue
      <3>2. q.part = "SEQUENCE_END" /\ q.doc = d /\ q.field = j
        BY DEF Place
      <3>3. s.level = "SEQUENCE"
        BY <2>3 DEF ReadValues
      <3> HIDE DEF q
      <3> QED
        BY <2>2, <3>1, <3>2, <3>3 DEF AtPlace, Parts
    <2>4. CASE ~f.list
      <3>1. NextValue(docs, d, j, v) = NextField(docs, d, j)
        BY <1>4, <2>4 DEF NextValue
      <3> QED
        BY <2>2, <2>4, <3>1, AtNextField
    <2> QED
      BY <2>3, <2>4
  <1> QED
    BY <1>3, <1>4

-----------------------------------------------------------------------------
(* The events.  t is what the parser holds after taking an event in s.     *)

(* ScalarEvent: a key, a property, a field or a value that is dropped.     *)
Scalars(x, s, t) ==
    /\ t.level = s.level /\ t.parsed = s.parsed
    /\ \/ s.key = "NULL" /\ t.key = x /\ t.cur = s.cur /\ t.got = s.got
       \/ /\ s.key = "properties" /\ t.key = s.key /\ t.got = s.got
          /\ t.cur = WithProperties(s.cur,
                        s.cur.properties \cup ({x} \cap PropertyNames))
       \/ /\ s.key \in Required /\ t.key = "NULL" /\ t.got = s.got \cup {s.key}
          /\ t.cur = [s.cur EXCEPT ![s.key] = x]
       \/ /\ s.key \notin Required \cup {"NULL", "properties"}
          /\ t.key = "NULL" /\ t.cur = s.cur /\ t.got = s.got

LEMMA ReadNone ==
    ASSUME NEW docs, AllPlain(docs), NEW d, NEW j \in 1 .. Len(docs[d]), NEW s,
           After(docs, d, j - 1, s), s.key = docs[d][j].key,
           s.level = IF docs[d][j].list THEN "SEQUENCE" ELSE "MAPPING"
    PROVE  ReadValues(docs, d, j, 0, s)
  <1>1. d \in 1 .. Len(docs)
    BY DEF After
  <1>2. Len(docs[d][j].values) \in Nat
    BY <1>1, FieldFacts, Zenon
  <1>3. 0 \in 0 .. Len(docs[d][j].values)
    BY <1>2
  <1>4. Listed(docs[d][j], 0) = {}
    BY DEF Listed
  <1> QED
    BY <1>3, <1>4 DEF ReadValues, After

LEMMA KeyRead ==
    ASSUME NEW docs, AllPlain(docs), NEW p, p.part = "KEY", NEW s, NEW t,
           AtPlace(docs, p, s), Scalars(docs[p.doc][p.field].key, s, t)
    PROVE  AtPlace(docs, Following(docs, p), t)
  <1> DEFINE d == p.doc
             j == p.field
  <1>1. /\ j \in 1 .. Len(docs[d]) /\ After(docs, d, j - 1, s)
        /\ s.level = "MAPPING" /\ s.key = "NULL"
    BY DEF AtPlace
  <1>2. /\ t.level = "MAPPING" /\ t.key = docs[d][j].key
        /\ t.parsed = s.parsed /\ t.cur = s.cur /\ t.got = s.got
    BY <1>1 DEF Scalars, Required
  <1>3. After(docs, d, j - 1, t)
    BY <1>1, <1>2 DEF After
  <1>4. CASE docs[d][j].list
    <2> DEFINE q == Place("SEQUENCE_START", d, j, 0)
    <2>1. Following(docs, p) = q
      BY <1>4 DEF Following
    <2>2. q.part = "SEQUENCE_START" /\ q.doc = d /\ q.field = j
      BY DEF Place
    <2> HIDE DEF q
    <2> QED
      BY <1>1, <1>2, <1>3, <1>4, <2>1, <2>2 DEF AtPlace, Parts
  <1>5. CASE ~docs[d][j].list
    <2>1. Following(docs, p) = NextValue(docs, d, j, 0)
      BY <1>5 DEF Following
    <2>2. ReadValues(docs, d, j, 0, t)
      BY <1>1, <1>2, <1>3, <1>5, ReadNone
    <2> QED
      BY <2>1, <2>2, AtNextValue
  <1> QED
    BY <1>4, <1>5

LEMMA ValueRead ==
    ASSUME NEW docs, AllPlain(docs), NEW d, NEW j,
           NEW v \in 1 .. Len(docs[d][j].values), NEW s, NEW t,
           ReadValues(docs, d, j, v - 1, s), Scalars(docs[d][j].values[v], s, t)
    PROVE  ReadValues(docs, d, j, v, t)
  <1> DEFINE f == docs[d][j]
             x == f.values[v]
  <1>1. d \in 1 .. Len(docs) /\ j \in 1 .. Len(docs[d]) /\ s.parsed = d - 1
        /\ s.level = IF f.list THEN "SEQUENCE" ELSE "MAPPING"
    BY DEF ReadValues
  <1>2. Plain(f) /\ Len(f.values) \in Nat /\ f.list \in BOOLEAN
    BY <1>1, FieldFacts, Zenon
  <1>3. Len(docs[d]) \in Nat
    BY <1>1, DocFacts
  <1>4. /\ j \in Nat \ {0} /\ v \in Nat \ {0} /\ v \in 0 .. Len(f.values)
        /\ (v - 1 = 0 <=> v = 1) /\ v # 0
    BY <1>1, <1>2, <1>3
  <1>5. t.level = s.level /\ t.parsed = s.parsed
    BY DEF Scalars
  <1>6. Strings(docs[d], IF v = 1 THEN j - 1 ELSE j, s.cur, s.got)
    BY <1>4 DEF ReadValues
  <1>7. f.key \notin Required => Strings(docs[d], j, s.cur, s.got)
    BY <1>4, <1>6, StringsSkip
  <1>8. CASE f.key = "properties"
    <2>1. /\ s.key = "properties"
          /\ s.cur.properties = Named(docs[d], j - 1) \cup Listed(f, v - 1)
      BY <1>8 DEF ReadValues
    <2> DEFINE P == s.cur.properties \cup ({x} \cap PropertyNames)
    <2>2. /\ t.key = "properties" /\ t.got = s.got
          /\ t.cur = WithProperties(s.cur, P)
      BY <2>1 DEF Scalars, Required
    <2>3. Strings(docs[d], j, s.cur, s.got)
      BY <1>7, <1>8 DEF Required
    <2> HIDE DEF P
    <2>4. Strings(docs[d], j, t.cur, t.got) /\ t.cur.properties = P
      BY <2>2, <2>3, StringsProperty
    <2>5. P = Named(docs[d], j - 1) \cup Listed(f, v)
      BY <1>4, <2>1, ListedStep DEF P
    <2> QED
      BY <1>1, <1>4, <1>5, <1>8, <2>2, <2>4, <2>5 DEF ReadValues
  <1>9. CASE f.key # "properties"
    <2>1. s.cur.properties = Named(docs[d], j - 1)
      BY <1>9 DEF ReadValues
    <2>2. CASE v = 1 /\ f.key \in Required
      <3>1. s.key = f.key
        BY <1>4, <1>9, <2>2 DEF ReadValues
      <3>2. /\ t.key = "NULL" /\ t.got = s.got \cup {f.key}
            /\ t.cur = [s.cur EXCEPT ![f.key] = f.values[1]]
        BY <2>2, <3>1 DEF Scalars, Required
      <3>3. Strings(docs[d], j, t.cur, t.got)
        BY <1>4, <1>6, <2>2, <3>2, StringsStore
      <3>4. t.cur.properties = s.cur.properties
        BY <1>9, <3>2
      <3>5. t.key \notin Required \cup {"properties"}
        BY <3>2 DEF Required
      <3> QED
        BY <1>1, <1>4, <1>5, <1>9, <2>1, <3>2, <3>3, <3>4, <3>5 DEF ReadValues
    <2>3. CASE v = 1 /\ f.key \notin Required
      <3>1. s.key = f.key /\ f.key # "NULL"
        BY <1>2, <1>4, <1>9, <2>3 DEF ReadValues, Plain
      <3>2. t.key = "NULL" /\ t.cur = s.cur /\ t.got = s.got
        BY <1>9, <2>3, <3>1 DEF Scalars
      <3>3. t.key \notin Required \cup {"properties"}
        BY <3>2 DEF Required
      <3> QED
        BY <1>1, <1>4, <1>5, <1>7, <1>9, <2>1, <2>3, <3>2, <3>3 DEF ReadValues
    <2>4. CASE v # 1
      <3>1. f.list /\ v \in 2 .. Len(f.values)
        BY <1>2, <1>4, <2>4 DEF Plain
      <3>2. x \notin Required \cup {"properties"}
        BY <1>2, <1>9, <3>1 DEF Plain
      <3>3. s.key \notin Required \cup {"properties"}
        BY <1>4, <1>9, <2>4 DEF ReadValues
      <3>4. /\ t.key \in {x, "NULL"} /\ t.cur = s.cur /\ t.got = s.got
        BY <3>3 DEF Scalars
      <3>5. t.key \notin Required \cup {"properties"}
        BY <3>2, <3>4 DEF Required
      <3>6. Strings(docs[d], j, t.cur, t.got)
        BY <1>6, <2>4, <3>4
      <3> QED
        BY <1>1, <1>4, <1>5, <1>9, <2>1, <3>1, <3>4, <3>5, <3>6 DEF ReadValues
    <2> QED
      BY <2>2, <2>3, <2>4
  <1> QED
    BY <1>8, <1>9

-----------------------------------------------------------------------------
(* The steps of the parser at a place of a readable file.                  *)

(* The event decides which step it is.                                     *)
LEMMA Dispatch ==
    ASSUME Parse
    PROVE  /\ at = "parse" /\ input' = Tail(input) /\ names' = names
           /\ input # <<>>
           /\ Head(input).type = "STREAM_START" => StreamStart
           /\ Head(input).type = "STREAM_END" => StreamEnd
           /\ Head(input).type = "DOCUMENT_START" => DocumentStart
           /\ Head(input).type = "DOCUMENT_END" => DocumentEnd
           /\ Head(input).type = "MAPPING_START" => MappingStart
           /\ Head(input).type = "MAPPING_END" => MappingEnd
           /\ Head(input).type = "SEQUENCE_START" => SequenceStart
           /\ Head(input).type = "SEQUENCE_END" => SequenceEnd
           /\ Head(input).type = "SCALAR" => ScalarEvent
           /\ Head(input).type = "ERROR" => ParserError
  <1>1. /\ StreamStart => Event("STREAM_START")
        /\ StreamEnd => Event("STREAM_END")
        /\ DocumentStart => Event("DOCUMENT_START")
        /\ DocumentEnd => Event("DOCUMENT_END")
        /\ MappingStart => Event("MAPPING_START")
        /\ MappingEnd => Event("MAPPING_END")
        /\ SequenceStart => Event("SEQUENCE_START")
        /\ SequenceEnd => Event("SEQUENCE_END")
        /\ ScalarEvent => Event("SCALAR")
        /\ OtherEvent => Event("ALIAS")
        /\ ParserError => Event("ERROR")
    BY DEF StreamStart, StreamEnd, DocumentStart, DocumentEnd, MappingStart,
           MappingEnd, SequenceStart, SequenceEnd, ScalarEvent, OtherEvent, ParserError
  <1>2. \E type : Event(type)
    BY <1>1 DEF Parse
  <1>3. /\ at = "parse" /\ input' = Tail(input) /\ names' = names
        /\ input # <<>>
    BY <1>2 DEF Event
  <1>4. \A type : Event(type) => Head(input).type = type
    BY DEF Event
  <1> QED
    BY <1>1, <1>3, <1>4 DEF Parse

(* What the parser leaves alone while it is inside a document.             *)
Goes ==
    /\ UNCHANGED <<at, entry, numProtos, parsed>>
    /\ \A i \in 0 .. proto - 1 : list'[i] = list[i]

(* The entry being filled is replaced.                                     *)
LEMMA Stores ==
    ASSUME IInv, at = "parse", UNCHANGED <<numProtos, parsed>>,
           NEW e, list' = [list EXCEPT ![proto] = e]
    PROVE  /\ list'[proto'] = e
           /\ \A i \in 0 .. proto - 1 : list'[i] = list[i]
  <1>1. proto \in DOMAIN list /\ proto \in Int /\ proto' = proto
        /\ DOMAIN list = 0 .. Slots - 1 /\ Slots \in Nat
    BY Counters DEF proto, IInv, TypeOK
  <1> HIDE DEF proto
  <1>2. \A i \in 0 .. proto - 1 : i \in DOMAIN list /\ i # proto
    BY <1>1
  <1> QED
    BY <1>1, <1>2

(* A step that moves to another level only.                                *)
LEMMA Moves ==
    ASSUME at = "parse", NEW level, NEW next, Move(level, next), eventLevel = level
    PROVE  /\ Goes
           /\ state'.level = next /\ state'.key = state.key
           /\ state'.parsed = state.parsed /\ state'.got = state.got
           /\ state'.cur = state.cur
  BY DEF Move, Goes, state, proto

LEMMA AtScalar ==
    ASSUME IInv, ScalarEvent
    PROVE  Goes /\ Scalars(Scalar, state, state')
  <1> DEFINE x == Scalar
  <1>1. at = "parse" /\ UNCHANGED <<at, entry, numProtos, eventLevel, parsed>>
    BY DEF ScalarEvent, Event
  <1>2. /\ state.key = key /\ state'.key = key' /\ state.got = got
        /\ state'.got = got' /\ state.cur = list[proto] /\ state'.cur = list'[proto']
        /\ state'.level = state.level /\ state'.parsed = state.parsed
    BY <1>1 DEF state
  <1>3. proto' = proto
    BY <1>1 DEF proto
  <1>4. CASE key = "NULL" /\ key' = x /\ UNCHANGED <<list, got>>
    BY <1>1, <1>2, <1>3, <1>4 DEF Goes, Scalars
  <1>5. CASE /\ key = "properties"
             /\ list' = [list EXCEPT ![proto].properties =
                                       @ \cup ({x} \cap PropertyNames)]
             /\ UNCHANGED <<key, got>>
    <2> DEFINE e == WithProperties(list[proto],
                        list[proto].properties \cup ({x} \cap PropertyNames))
    <2>1. list' = [list EXCEPT ![proto] = e]
      BY <1>5 DEF WithProperties
    <2> HIDE DEF e
    <2>2. list'[proto'] = e /\ \A i \in 0 .. proto - 1 : list'[i] = list[i]
      BY <1>1, <2>1, Stores
    <2>3. Goes
      BY <1>1, <2>2 DEF Goes
    <2> QED
      BY <1>2, <1>5, <2>2, <2>3 DEF Scalars, e
  <1>6. CASE /\ key \in Required
             /\ list' = [list EXCEPT ![proto][key] = x]
             /\ got' = got \cup {key} /\ key' = "NULL"
    <2> DEFINE e == [list[proto] EXCEPT ![key] = x]
    <2>1. list' = [list EXCEPT ![proto] = e]
      BY <1>6
    <2> HIDE DEF e
    <2>2. list'[proto'] = e /\ \A i \in 0 .. proto - 1 : list'[i] = list[i]
      BY <1>1, <2>1, Stores
    <2>3. Goes
      BY <1>1, <2>2 DEF Goes
    <2> QED
      BY <1>2, <1>6, <2>2, <2>3 DEF Scalars, e
  <1>7. CASE /\ key \notin Required \cup {"NULL", "properties"}
             /\ key' = "NULL" /\ UNCHANGED <<list, got>>
    BY <1>1, <1>2, <1>3, <1>7 DEF Goes, Scalars
  <1> QED
    BY <1>4, <1>5, <1>6, <1>7 DEF ScalarEvent

(* The type of an event that is no scalar.                                 *)
LEMMA TypeAt ==
    ASSUME NEW docs, NEW p, p.part \notin {"KEY", "VALUE"}
    PROVE  EventAt(docs, p).type = p.part
  BY DEF EventAt

(* A step inside a document leads to the following place.                  *)
Inside(p) == p.part \notin {"STREAM_END", "DOCUMENT_END", "ERROR"}

LEMMA InsideStep ==
    ASSUME IInv, Parse, NEW docs, AllPlain(docs), NEW p, Inside(p),
           AtPlace(docs, p, state), Head(input) = EventAt(docs, p)
    PROVE  Goes /\ AtPlace(docs, Following(docs, p), state')
  <1>0. /\ at = "parse" /\ p.part \in Parts
        /\ state.level = eventLevel /\ state.key = key
        /\ p.part \notin {"KEY", "VALUE"} => Head(input).type = p.part
    BY Dispatch, TypeAt DEF AtPlace, state
  <1>1. CASE p.part = "STREAM_START"
    <2>1. /\ Head(input).type = "STREAM_START" /\ eventLevel = "NONE" /\ key = "NULL"
          /\ state.parsed = 0
      BY <1>0, <1>1 DEF AtPlace
    <2>2. Move("NONE", "STREAM")
      BY <2>1, Dispatch DEF StreamStart
    <2>3. /\ Goes /\ state'.level = "STREAM" /\ state'.key = "NULL" /\ state'.parsed = 0
      BY <1>0, <2>1, <2>2, Moves
    <2>4. Following(docs, p) = NextDocument(docs, 0)
      BY <1>1 DEF Following
    <2>5. 0 \in 0 .. Len(docs)
      BY DEF AllPlain
    <2> QED
      BY <2>3, <2>4, <2>5, AtNextDocument
  <1>2. CASE p.part = "DOCUMENT_START"
    <2>1. /\ Head(input).type = "DOCUMENT_START" /\ eventLevel = "STREAM"
          /\ key = "NULL" /\ p.doc \in 1 .. Len(docs) /\ state.parsed = p.doc - 1
      BY <1>0, <1>2 DEF AtPlace
    <2>2. /\ eventLevel' = "DOCUMENT" /\ got' = {}
          /\ list' = [list EXCEPT ![proto] = Cleared]
          /\ UNCHANGED <<at, entry, numProtos, key, parsed>>
      BY <2>1, Dispatch DEF DocumentStart
    <2>3. list'[proto'] = Cleared /\ \A i \in 0 .. proto - 1 : list'[i] = list[i]
      BY <1>0, <2>2, Stores
    <2>4. /\ state'.level = "DOCUMENT" /\ state'.key = "NULL" /\ state'.got = {}
          /\ state'.cur = Cleared /\ state'.parsed = state.parsed
      BY <2>1, <2>2, <2>3 DEF state
    <2>5. Goes
      BY <2>2, <2>3 DEF Goes
    <2>6. Len(docs[p.doc]) \in Nat
      BY <2>1, DocFacts
    <2>7. After(docs, p.doc, 0, state')
      BY <2>1, <2>4, <2>6, StringsCleared DEF After
    <2> DEFINE q == Place("MAPPING_START", p.doc, 0, 0)
    <2>8. Following(docs, p) = q
      BY <1>2 DEF Following
    <2>9. q.part = "MAPPING_START" /\ q.doc = p.doc
      BY DEF Place
    <2> HIDE DEF q
    <2> QED
      BY <2>4, <2>5, <2>7, <2>8, <2>9 DEF AtPlace, Parts
  <1>3. CASE p.part = "MAPPING_START"
    <2>1. /\ Head(input).type = "MAPPING_START" /\ eventLevel = "DOCUMENT"
          /\ key = "NULL" /\ After(docs, p.doc, 0, state)
      BY <1>0, <1>3 DEF AtPlace
    <2>2. Move("DOCUMENT", "MAPPING")
      BY <2>1, Dispatch DEF MappingStart
    <2>3. /\ Goes /\ state'.level = "MAPPING" /\ state'.key = "NULL"
          /\ state'.parsed = state.parsed /\ state'.got = state.got
          /\ state'.cur = state.cur
      BY <1>0, <2>1, <2>2, Moves
    <2>4. After(docs, p.doc, 0, state')
      BY <2>1, <2>3 DEF After
    <2>5. Following(docs, p) = NextField(docs, p.doc, 0)
      BY <1>3 DEF Following
    <2> QED
      BY <2>3, <2>4, <2>5, AtNextField
  <1>4. CASE p.part = "KEY"
    <2>1. /\ Head(input).type = "SCALAR"
          /\ Scalar = docs[p.doc][p.field].key
      BY <1>4 DEF EventAt, Scalar
    <2>2. Goes /\ Scalars(docs[p.doc][p.field].key, state, state')
      BY <2>1, Dispatch, AtScalar
    <2> QED
      BY <1>4, <2>2, KeyRead
  <1>5. CASE p.part = "SEQUENCE_START"
    <2>1. /\ Head(input).type = "SEQUENCE_START" /\ eventLevel = "MAPPING"
          /\ p.field \in 1 .. Len(docs[p.doc])
          /\ After(docs, p.doc, p.field - 1, state)
          /\ docs[p.doc][p.field].list
          /\ key = docs[p.doc][p.field].key
      BY <1>0, <1>5 DEF AtPlace
    <2>2. Move("MAPPING", "SEQUENCE")
      BY <2>1, Dispatch DEF SequenceStart
    <2>3. /\ Goes /\ state'.level = "SEQUENCE" /\ state'.key = key
          /\ state'.parsed = state.parsed /\ state'.got = state.got
          /\ state'.cur = state.cur
      BY <1>0, <2>1, <2>2, Moves
    <2>4. After(docs, p.doc, p.field - 1, state')
      BY <2>1, <2>3 DEF After
    <2>5. ReadValues(docs, p.doc, p.field, 0, state')
      BY <2>1, <2>3, <2>4, ReadNone
    <2>6. Following(docs, p) = NextValue(docs, p.doc, p.field, 0)
      BY <1>5 DEF Following
    <2> QED
      BY <2>3, <2>5, <2>6, AtNextValue
  <1>6. CASE p.part = "VALUE"
    <2>1. /\ Head(input).type = "SCALAR"
          /\ Scalar = docs[p.doc][p.field].values[p.value]
      BY <1>6 DEF EventAt, Scalar
    <2>2. Goes /\ Scalars(docs[p.doc][p.field].values[p.value], state, state')
      BY <2>1, Dispatch, AtScalar
    <2>3. /\ p.value \in 1 .. Len(docs[p.doc][p.field].values)
          /\ ReadValues(docs, p.doc, p.field, p.value - 1, state)
      BY <1>6 DEF AtPlace
    <2>4. ReadValues(docs, p.doc, p.field, p.value, state')
      BY <2>2, <2>3, ValueRead
    <2>5. Following(docs, p) = NextValue(docs, p.doc, p.field, p.value)
      BY <1>6 DEF Following
    <2> QED
      BY <2>2, <2>4, <2>5, AtNextValue
  <1>7. CASE p.part = "SEQUENCE_END"
    <2>1. /\ Head(input).type = "SEQUENCE_END" /\ eventLevel = "SEQUENCE"
          /\ After(docs, p.doc, p.field, state)
      BY <1>0, <1>7 DEF AtPlace
    <2>2. /\ eventLevel' = "MAPPING" /\ key' = "NULL"
          /\ UNCHANGED <<at, entry, numProtos, list, got, parsed>>
      BY <2>1, Dispatch DEF SequenceEnd
    <2>3. /\ Goes /\ state'.level = "MAPPING" /\ state'.key = "NULL"
          /\ state'.parsed = state.parsed /\ state'.got = state.got
          /\ state'.cur = state.cur
      BY <2>2 DEF Goes, state, proto
    <2>4. After(docs, p.doc, p.field, state')
      BY <2>1, <2>3 DEF After
    <2>5. Following(docs, p) = NextField(docs, p.doc, p.field)
      BY <1>7 DEF Following
    <2> QED
      BY <2>3, <2>4, <2>5, AtNextField
  <1>8. CASE p.part = "MAPPING_END"
    <2>1. /\ Head(input).type = "MAPPING_END" /\ eventLevel = "MAPPING"
          /\ key = "NULL" /\ After(docs, p.doc, Len(docs[p.doc]), state)
      BY <1>0, <1>8 DEF AtPlace
    <2>2. Move("MAPPING", "DOCUMENT")
      BY <2>1, Dispatch DEF MappingEnd
    <2>3. /\ Goes /\ state'.level = "DOCUMENT" /\ state'.key = "NULL"
          /\ state'.parsed = state.parsed /\ state'.got = state.got
          /\ state'.cur = state.cur
      BY <1>0, <2>1, <2>2, Moves
    <2>4. After(docs, p.doc, Len(docs[p.doc]), state')
      BY <2>1, <2>3 DEF After
    <2> DEFINE q == Place("DOCUMENT_END", p.doc, 0, 0)
    <2>5. Following(docs, p) = q
      BY <1>8 DEF Following
    <2>6. q.part = "DOCUMENT_END" /\ q.doc = p.doc
      BY DEF Place
    <2> HIDE DEF q
    <2> QED
      BY <2>3, <2>4, <2>5, <2>6 DEF AtPlace, Parts
  <1> QED
    BY <1>0, <1>1, <1>2, <1>3, <1>4, <1>5, <1>6, <1>7, <1>8 DEF Inside, Parts

-----------------------------------------------------------------------------
(* The events of a file that are left, and the documents that are stored.  *)

LEMMA RestOf ==
    ASSUME NEW S, NEW e \in Seq(S), NEW n \in 1 .. Len(e)
    PROVE  /\ Head(SubSeq(e, n, Len(e))) = e[n]
           /\ Tail(SubSeq(e, n, Len(e))) = SubSeq(e, n + 1, Len(e))
           /\ SubSeq(e, 1, Len(e)) = e
  <1>1. Len(e) \in n .. Len(e)
    OBVIOUS
  <1> QED
    BY <1>1, HeadTailOfSubSeq, SubSeqFull

(* The first n documents are in the array, from the place of the file on.  *)
Stored(docs, n) ==
    \A i \in 0 .. n - 1 : /\ i + 1 \in DOMAIN docs
                          /\ Complete(docs[i + 1])
                          /\ list[numProtos + i] = Described(docs[i + 1])

Reading(f) ==
    /\ Stored(f.docs, parsed)
    /\ \E n \in 1 .. Len(f.places) :
          /\ input = SubSeq(f.events, n, Len(f.events))
          /\ AtPlace(f.docs, f.places[n], state)

(* How a readable file ends: all of its documents are stored, or as many   *)
(* as there is space for.                                                  *)
Ends(f) ==
    \E n \in 0 .. Len(f.docs) :
        /\ ParseReturns(n)
        /\ (n = Len(f.docs) /\ n < space) \/ n = space
        /\ Stored(f.docs, n)
        /\ UNCHANGED list

LEMMA ReadableFacts ==
    ASSUME NEW f, Readable(f)
    PROVE  /\ AllPlain(f.docs)
           /\ Len(f.places) \in Nat /\ DOMAIN f.places = 1 .. Len(f.places)
           /\ Len(f.places) > 0
           /\ Len(f.events) = Len(f.places)
           /\ \A n \in 1 .. Len(f.places) : f.events[n] = EventAt(f.docs, f.places[n])
           /\ \E S : f.events \in Seq(S)
  <1> DEFINE X == [part : STRING, doc : Nat, field : Nat, value : Nat]
             S == {EventAt(f.docs, f.places[n]) : n \in DOMAIN f.places}
  <1>1. /\ f.places \in Seq(X) /\ f.places # <<>>
        /\ f.events = [n \in DOMAIN f.places |-> EventAt(f.docs, f.places[n])]
    BY DEF Readable, LaidOut
  <1> HIDE DEF X
  <1>2. Len(f.places) \in Nat /\ DOMAIN f.places = 1 .. Len(f.places)
    BY <1>1
  <1>3. Len(f.places) > 0
    BY <1>1, <1>2, EmptySeq
  <1>4. f.events \in [1 .. Len(f.places) -> S]
    BY <1>1, <1>2
  <1> HIDE DEF S
  <1>5. f.events \in Seq(S) /\ Len(f.events) = Len(f.places)
    BY <1>2, <1>4
  <1>6. AllPlain(f.docs)
    BY DEF Readable, LaidOut, AllPlain
  <1> QED
    BY <1>1, <1>2, <1>3, <1>5, <1>6

(* The start of a file.                                                    *)
LEMMA ReadingStarts ==
    ASSUME NEW f, Readable(f), input' = f.events, eventLevel' = "NONE",
           key' = "NULL", parsed' = 0
    PROVE  Reading(f)'
  <1>1. 1 \in 1 .. Len(f.places) /\ f.events = SubSeq(f.events, 1, Len(f.events))
    BY ReadableFacts, SubSeqFull
  <1>2. f.places[1] \in {Start, Illegal}
    BY DEF Readable, LaidOut
  <1>3. state'.level = "NONE" /\ state'.key = "NULL" /\ state'.parsed = 0
    BY DEF state
  <1>4. f.places[1].part \in {"STREAM_START", "ERROR"}
    BY <1>2 DEF Start, Illegal, Place
  <1>5. AtPlace(f.docs, f.places[1], state')
    BY <1>3, <1>4 DEF AtPlace, Parts
  <1>6. Stored(f.docs, parsed)'
    BY DEF Stored
  <1> QED
    BY <1>1, <1>5, <1>6 DEF Reading

(* The place after one that is not the last.                               *)
LEMMA NextPlace ==
    ASSUME NEW f, Readable(f), NEW n \in 1 .. Len(f.places),
           f.places[n].part \notin {"STREAM_END", "ERROR"}
    PROVE  /\ n + 1 \in 1 .. Len(f.places)
           /\ f.places[n + 1] \in {Following(f.docs, f.places[n]), Illegal}
  <1>1. Len(f.places) \in Nat /\ DOMAIN f.places = 1 .. Len(f.places)
    BY ReadableFacts
  <1>2. /\ n < Len(f.places)
        /\ f.places[n + 1] \in {Following(f.docs, f.places[n]), Illegal}
    BY <1>1 DEF Readable, LaidOut
  <1> QED
    BY <1>1, <1>2

(* The parser comes to that place, or to an error instead of it.           *)
LEMMA ComesTo ==
    ASSUME NEW f, Readable(f), NEW n \in 1 .. Len(f.places), NEW s,
           f.places[n].part \notin {"STREAM_END", "ERROR"},
           AtPlace(f.docs, Following(f.docs, f.places[n]), s)
    PROVE  AtPlace(f.docs, f.places[n + 1], s)
  <1>1. Illegal.part = "ERROR"
    BY DEF Illegal, Place
  <1>2. AtPlace(f.docs, Illegal, s)
    BY <1>1 DEF AtPlace, Parts
  <1> QED
    BY <1>2, NextPlace

(* What is stored stays while the parser fills the entry behind it.        *)
LEMMA StoredKept ==
    ASSUME IInv, at = "parse", Goes, NEW docs, Stored(docs, parsed)
    PROVE  Stored(docs, parsed)'
  <1>1. numProtos' = numProtos /\ parsed' = parsed
    BY DEF Goes
  <1>2. numProtos \in Nat /\ parsed \in Nat
    BY Counters
  <1>3. \A i \in 0 .. parsed - 1 : numProtos + i \in 0 .. proto - 1
    BY <1>2 DEF proto
  <1>4. \A i \in 0 .. parsed - 1 : list'[numProtos + i] = list[numProtos + i]
    BY <1>3 DEF Goes
  <1> QED
    BY <1>1, <1>4 DEF Stored

(* The end of a document that has all of its fields.                       *)
LEMMA EndStep ==
    ASSUME IInv, Parse, NEW docs, AllPlain(docs), NEW p, p.part = "DOCUMENT_END",
           AtPlace(docs, p, state), Head(input) = EventAt(docs, p),
           Stored(docs, parsed)
    PROVE  \/ at' \in {"endless", "aborted"}
           \/ /\ UNCHANGED list
              /\ parsed' = parsed + 1 /\ parsed' \in 0 .. Len(docs)
              /\ Stored(docs, parsed')
              /\ \/ parsed' = space /\ ParseReturns(parsed')
                 \/ /\ UNCHANGED <<at, entry, numProtos>>
                    /\ AtPlace(docs, Following(docs, p), state')
  <1>1. /\ at = "parse" /\ Head(input).type = "DOCUMENT_END"
        /\ state.level = eventLevel /\ state.key = key /\ state.got = got
        /\ state.cur = list[proto] /\ state.parsed = parsed
    BY Dispatch, TypeAt DEF state
  <1>2. /\ After(docs, p.doc, Len(docs[p.doc]), state)
        /\ eventLevel = "DOCUMENT" /\ key = "NULL"
    BY <1>1 DEF AtPlace
  <1>3. DocumentEnd
    BY <1>1, Dispatch
  <1>4. CASE got # Required
    <2>1. Fail
      BY <1>3, <1>4 DEF DocumentEnd
    <2> QED
      BY <2>1 DEF Fail
  <1>5. CASE got = Required
    <2>1. /\ eventLevel' = "STREAM" /\ parsed' = parsed + 1
          /\ IF parsed' = space
             THEN ParseReturns(parsed')
             ELSE UNCHANGED <<at, entry, numProtos>>
          /\ UNCHANGED <<list, key, got>>
      BY <1>2, <1>3, <1>5 DEF DocumentEnd
    <2>2. p.doc \in 1 .. Len(docs) /\ parsed = p.doc - 1
      BY <1>1, <1>2 DEF After
    <2>3. Len(docs) \in Nat /\ docs[p.doc] \in Document /\ DOMAIN docs = 1 .. Len(docs)
      BY <2>2, DocFacts DEF AllPlain
    <2>4. /\ Strings(docs[p.doc], Len(docs[p.doc]), list[proto], Required)
          /\ list[proto].properties = Named(docs[p.doc], Len(docs[p.doc]))
      BY <1>1, <1>2, <1>5 DEF After
    <2>5. Complete(docs[p.doc]) /\ list[proto] = Described(docs[p.doc])
      BY <2>3, <2>4, Finished
    <2>6. /\ parsed' \in 0 .. Len(docs) /\ parsed' = p.doc /\ parsed + 1 = p.doc
          /\ p.doc \in DOMAIN docs /\ parsed \in Nat
      BY <2>1, <2>2, <2>3
    <2>7. Stored(docs, parsed + 1)
      <3> SUFFICES ASSUME NEW i \in 0 .. (parsed + 1) - 1
                   PROVE  /\ i + 1 \in DOMAIN docs
                          /\ Complete(docs[i + 1])
                          /\ list[numProtos + i] = Described(docs[i + 1])
        BY DEF Stored
      <3>1. CASE i = parsed
        BY <2>5, <2>6, <3>1 DEF proto
      <3>2. CASE i # parsed
        <4>1. i \in 0 .. parsed - 1
          BY <2>6, <3>2
        <4> QED
          BY <4>1 DEF Stored
      <3> QED
        BY <3>1, <3>2
    <2>8. Stored(docs, parsed')
      BY <2>1, <2>7
    <2>9. CASE parsed' = space
      BY <2>1, <2>6, <2>8, <2>9
    <2>10. CASE parsed' # space
      <3>1. /\ state'.parsed = p.doc /\ state'.level = "STREAM" /\ state'.key = "NULL"
        BY <1>2, <2>1, <2>6 DEF state
      <3>2. Following(docs, p) = NextDocument(docs, p.doc)
        BY DEF Following
      <3>3. p.doc \in 0 .. Len(docs)
        BY <2>2, <2>3
      <3>4. AtPlace(docs, Following(docs, p), state')
        BY <3>1, <3>2, <3>3, AtNextDocument
      <3> QED
        BY <2>1, <2>6, <2>8, <2>10, <3>4
    <2> QED
      BY <2>9, <2>10
  <1> QED
    BY <1>4, <1>5

(* An event of a readable file is taken where it stands in the documents,  *)
(* makes the parser fail, or ends the file.                                *)
LEMMA ReadingStep ==
    ASSUME IInv, Parse, NEW f, Readable(f), Reading(f)
    PROVE  \/ UNCHANGED <<at, entry, numProtos>> /\ Reading(f)'
                 /\ \A i \in 0 .. numProtos - 1 : list'[i] = list[i]
           \/ at' \in {"endless", "aborted"}
           \/ Ends(f)
  <1>1. PICK n \in 1 .. Len(f.places) :
          /\ input = SubSeq(f.events, n, Len(f.events))
          /\ AtPlace(f.docs, f.places[n], state)
    BY DEF Reading
  <1> DEFINE p == f.places[n]
  <1>2. Stored(f.docs, parsed)
    BY DEF Reading
  <1>3. /\ AllPlain(f.docs) /\ Len(f.events) = Len(f.places)
        /\ f.events[n] = EventAt(f.docs, p)
    BY ReadableFacts
  <1>4. Head(input) = EventAt(f.docs, p) /\ Tail(input) = SubSeq(f.events, n + 1, Len(f.events))
    <2>1. PICK S : f.events \in Seq(S)
      BY ReadableFacts
    <2> QED
      BY <1>1, <1>3, <2>1, RestOf
  <1>5. at = "parse" /\ input' = SubSeq(f.events, n + 1, Len(f.events))
    BY <1>4, Dispatch
  <1>6. /\ numProtos \in Nat /\ parsed \in Nat /\ space \in Nat /\ parsed + 1 <= space
        /\ \A i \in 0 .. numProtos - 1 : i \in 0 .. proto - 1
    BY <1>5, Counters DEF proto
  <1> HIDE DEF p
  <1>7. CASE Inside(p)
    <2>1. Goes /\ AtPlace(f.docs, Following(f.docs, p), state')
      BY <1>1, <1>3, <1>4, <1>7, InsideStep DEF p
    <2>2. p.part \notin {"STREAM_END", "ERROR"}
      BY <1>7 DEF Inside
    <2>3. n + 1 \in 1 .. Len(f.places) /\ AtPlace(f.docs, f.places[n + 1], state')
      BY <2>1, <2>2, NextPlace, ComesTo DEF p
    <2>4. Stored(f.docs, parsed)'
      BY <1>2, <1>5, <2>1, StoredKept
    <2>5. Reading(f)'
      BY <1>5, <2>3, <2>4 DEF Reading
    <2> QED
      BY <1>6, <2>1, <2>5 DEF Goes
  <1>8. CASE p.part = "DOCUMENT_END"
    <2>1. CASE at' \in {"endless", "aborted"}
      BY <2>1
    <2>2. CASE /\ UNCHANGED list
               /\ parsed' = parsed + 1 /\ parsed' \in 0 .. Len(f.docs)
               /\ Stored(f.docs, parsed')
               /\ parsed' = space /\ ParseReturns(parsed')
      BY <2>2 DEF Ends
    <2>3. CASE /\ UNCHANGED list
               /\ parsed' = parsed + 1
               /\ Stored(f.docs, parsed')
               /\ UNCHANGED <<at, entry, numProtos>>
               /\ AtPlace(f.docs, Following(f.docs, p), state')
      <3>1. p.part \notin {"STREAM_END", "ERROR"}
        BY <1>8
      <3>2. n + 1 \in 1 .. Len(f.places) /\ AtPlace(f.docs, f.places[n + 1], state')
        BY <2>3, <3>1, NextPlace, ComesTo DEF p
      <3>3. Stored(f.docs, parsed)'
        BY <2>3 DEF Stored
      <3>4. Reading(f)'
        BY <1>5, <3>2, <3>3 DEF Reading
      <3> QED
        BY <2>3, <3>4
    <2> QED
      BY <1>1, <1>2, <1>3, <1>4, <1>8, <2>1, <2>2, <2>3, EndStep DEF p
  <1>9. CASE p.part = "STREAM_END"
    <2>1. /\ Head(input).type = "STREAM_END" /\ parsed = Len(f.docs)
          /\ eventLevel = "STREAM"
      <3>1. Head(input).type = "STREAM_END"
        BY <1>4, <1>9, TypeAt
      <3>2. state.parsed = Len(f.docs) /\ state.level = "STREAM"
        BY <1>1, <1>9 DEF AtPlace, p
      <3> QED
        BY <3>1, <3>2 DEF state
    <2>2. ParseReturns(parsed) /\ UNCHANGED list
      BY <2>1, Dispatch DEF StreamEnd
    <2>3. parsed \in 0 .. Len(f.docs) /\ parsed < space
      BY <1>6, <2>1
    <2> QED
      BY <1>2, <2>1, <2>2, <2>3 DEF Ends
  <1>10. CASE p.part = "ERROR"
    <2>1. Head(input).type = "ERROR"
      BY <1>4, <1>10, TypeAt
    <2>2. Fail
      BY <2>1, Dispatch DEF ParserError
    <2> QED
      BY <2>2 DEF Fail
  <1> QED
    BY <1>7, <1>8, <1>9, <1>10 DEF Inside

-----------------------------------------------------------------------------
(* The scan.                                                               *)

(* x describes a document of a file of the directory.                      *)
Describes(x) ==
    \E f \in DOMAIN names : \E d \in DOMAIN FileAt(f).docs :
        /\ Usable(FileAt(f))
        /\ Complete(FileAt(f).docs[d])
        /\ x = Described(FileAt(f).docs[d])

(* The hypothesis and the conclusion of OneFileFound.                      *)
OnlyFile(f) ==
    /\ \A g \in DOMAIN names : Opened(FileAt(g)) <=> g = f
    /\ FileAt(f).init
    /\ WellFormed(FileAt(f))

FoundAll(f) ==
    /\ numProtos = IF Len(FileAt(f).docs) < Slots
                   THEN Len(FileAt(f).docs) ELSE Slots
    /\ \A i \in 0 .. numProtos - 1 : list[i] = Described(FileAt(f).docs[i + 1])

NamesInv ==
    /\ names \in Directories \cup {NoDirectory}
    /\ at \in {"scan", "parse"} => names # NoDirectory
    /\ at = "parse" => entry \in DOMAIN names /\ Usable(File)

ReadingInv == at = "parse" /\ Readable(File) => Reading(File)

EntriesInv ==
    AllReadable /\ at \in {"opendir", "scan", "parse", "returned"} =>
        \A i \in 0 .. numProtos - 1 : Describes(list[i])

OneFileInv ==
    names # NoDirectory => \A f \in DOMAIN names : OnlyFile(f) =>
        /\ at = "opendir" => entry = 1 /\ numProtos = 0
        /\ at = "scan" /\ entry <= f => numProtos = 0
        /\ at = "parse" => entry = f /\ numProtos = 0
        /\ at = "scan" /\ entry > f => FoundAll(f)
        /\ at = "returned" => FoundAll(f)

EInv == IInv /\ NamesInv /\ ReadingInv /\ EntriesInv /\ OneFileInv

LEMMA EInit == Init => EInv
  <1> SUFFICES ASSUME Init PROVE EInv
    OBVIOUS
  <1>1. at = "opendir" /\ entry = 1 /\ numProtos = 0
        /\ names \in Directories \cup {NoDirectory}
    BY DEF Init
  <1> QED
    BY <1>1, InitInv DEF EInv, NamesInv, ReadingInv, EntriesInv, OneFileInv

(* A directory is a sequence.                                              *)
LEMMA NamesFacts ==
    ASSUME NamesInv, names # NoDirectory
    PROVE  Len(names) \in Nat /\ DOMAIN names = 1 .. Len(names)
  <1>1. names \in Seq(DOMAIN Contents)
    BY DirectoriesAssumption DEF NamesInv
  <1> QED
    BY <1>1

(* The same directory means the same files.                                *)
LEMMA SameNames ==
    ASSUME names' = names
    PROVE  /\ AllReadable' = AllReadable
           /\ \A f : OnlyFile(f)' = OnlyFile(f)
           /\ \A f : FileAt(f)' = FileAt(f)
           /\ \A x : Describes(x)' = Describes(x)
           /\ UNCHANGED <<list, numProtos>> => \A f : FoundAll(f)' = FoundAll(f)
           /\ entry' = entry => File' = File
  BY DEF AllReadable, OnlyFile, FileAt, Describes, FoundAll, File

(* The steps of the scan.                                                  *)
LEMMA EScanStep ==
    ASSUME EInv, OpenDirectory \/ SkipEntry \/ ParseFile \/ ScanEnds
    PROVE  NamesInv' /\ ReadingInv' /\ EntriesInv' /\ OneFileInv'
  <1>0. /\ IInv /\ NamesInv /\ ReadingInv /\ EntriesInv /\ OneFileInv
        /\ Slots \in Nat /\ Slots > 0 /\ entry \in Nat
    BY Counters DEF EInv
  <1>1. names' = names /\ list' = list
    BY DEF OpenDirectory, SkipEntry, ParseFile, ScanEnds
  <1>2. /\ AllReadable' = AllReadable
        /\ \A f : OnlyFile(f)' = OnlyFile(f)
        /\ \A x : Describes(x)' = Describes(x)
        /\ numProtos' = numProtos => \A f : FoundAll(f)' = FoundAll(f)
        /\ entry' = entry => File' = File
    BY <1>1, SameNames
  <1> HIDE DEF AllReadable, OnlyFile, Describes, FoundAll, File
  <1>3. CASE OpenDirectory
    <2>1. CASE names = NoDirectory
      <3>1. at' = "returned" /\ numProtos' = -1
        BY <1>3, <2>1 DEF OpenDirectory
      <3> QED
        BY <1>0, <1>1, <2>1, <3>1 DEF NamesInv, ReadingInv, EntriesInv, OneFileInv
    <2>2. CASE names # NoDirectory
      <3>1. at = "opendir" /\ at' = "scan" /\ UNCHANGED <<numProtos, entry>>
        BY <1>3, <2>2 DEF OpenDirectory
      <3>2. DOMAIN names = 1 .. Len(names) /\ Len(names) \in Nat
        BY <1>0, <2>2, NamesFacts
      <3>3. NamesInv' /\ ReadingInv'
        BY <1>0, <1>1, <2>2, <3>1 DEF NamesInv, ReadingInv
      <3>4. EntriesInv'
        BY <1>0, <1>1, <1>2, <3>1 DEF EntriesInv
      <3>5. ASSUME NEW f \in DOMAIN names, OnlyFile(f)
            PROVE  entry = 1 /\ numProtos = 0 /\ ~(entry > f)
        BY <1>0, <2>2, <3>1, <3>2, <3>5 DEF OneFileInv
      <3>6. OneFileInv'
        BY <1>1, <1>2, <3>1, <3>5 DEF OneFileInv
      <3> QED
        BY <3>3, <3>4, <3>6
    <2> QED
      BY <2>1, <2>2
  <1>4. CASE SkipEntry
    <2>1. /\ at = "scan" /\ entry <= Len(names) /\ ~Opened(File) /\ entry' = entry + 1
          /\ UNCHANGED <<at, numProtos>>
      BY <1>4 DEF SkipEntry, Opened
    <2>2. names # NoDirectory
      BY <1>0, <2>1 DEF NamesInv
    <2>3. entry \in DOMAIN names /\ DOMAIN names = 1 .. Len(names) /\ Len(names) \in Nat
      BY <1>0, <2>1, <2>2, NamesFacts DEF IInv, TypeOK
    <2>4. NamesInv' /\ ReadingInv'
      BY <1>0, <1>1, <2>1, <2>2 DEF NamesInv, ReadingInv
    <2>5. EntriesInv'
      BY <1>0, <1>1, <1>2, <2>1 DEF EntriesInv
    <2>6. ASSUME NEW f \in DOMAIN names, OnlyFile(f)
          PROVE  /\ entry' <= f => numProtos = 0
                 /\ entry' > f => FoundAll(f)
      <3>1. entry # f
        BY <2>1, <2>3, <2>6 DEF OnlyFile, File
      <3>2. /\ entry <= f => numProtos = 0
            /\ entry > f => FoundAll(f)
        BY <1>0, <2>1, <2>2, <2>6 DEF OneFileInv
      <3>3. f \in Nat
        BY <2>3
      <3>4. /\ entry' <= f => entry <= f
            /\ entry' > f => entry > f
        BY <1>0, <2>1, <3>1, <3>3
      <3> QED
        BY <3>2, <3>4
    <2>7. OneFileInv'
      BY <1>1, <1>2, <2>1, <2>6 DEF OneFileInv
    <2> QED
      BY <2>4, <2>5, <2>7
  <1>5. CASE ParseFile
    <2>1. at = "scan" /\ entry <= Len(names) /\ Opened(File)
      BY <1>5 DEF ParseFile, Opened
    <2>2. names # NoDirectory
      BY <1>0, <2>1 DEF NamesInv
    <2>3. entry \in DOMAIN names /\ DOMAIN names = 1 .. Len(names) /\ Len(names) \in Nat
      BY <1>0, <2>1, <2>2, NamesFacts DEF IInv, TypeOK
    <2>4. ASSUME NEW f \in DOMAIN names, OnlyFile(f)
          PROVE  entry = f /\ numProtos = 0 /\ File.init
      <3>1. entry = f
        BY <2>1, <2>3, <2>4 DEF OnlyFile, File
      <3>2. entry <= f
        BY <1>0, <3>1
      <3> QED
        BY <1>0, <2>1, <2>2, <2>4, <3>1, <3>2 DEF OneFileInv, OnlyFile, File
    <2>5. CASE File.init
      <3>1. /\ at' = "parse" /\ input' = File.events /\ eventLevel' = "NONE"
            /\ key' = "NULL" /\ parsed' = 0
            /\ UNCHANGED <<numProtos, entry>>
        BY <1>5, <2>5 DEF ParseFile
      <3>2. File' = File
        BY <1>2, <3>1
      <3>3. NamesInv'
        BY <1>0, <1>1, <2>1, <2>2, <2>3, <2>5, <3>1, <3>2 DEF NamesInv, Usable
      <3>4. ReadingInv'
        <4>1. PICK c : c = File
          OBVIOUS
        <4>2. Readable(c) => Reading(c)'
          BY <3>1, <4>1, ReadingStarts
        <4> QED
          BY <3>1, <3>2, <4>1, <4>2 DEF ReadingInv
      <3>5. EntriesInv'
        BY <1>0, <1>1, <1>2, <2>1, <3>1 DEF EntriesInv
      <3>6. OneFileInv'
        BY <1>1, <1>2, <2>4, <3>1 DEF OneFileInv
      <3> QED
        BY <3>3, <3>4, <3>5, <3>6
    <2>6. CASE ~File.init
      <3>1. numProtos' = 0 /\ at' = "scan"
        BY <1>0, <1>5, <2>6 DEF ParseFile, ParseReturns
      <3>2. \A f \in DOMAIN names : ~OnlyFile(f)
        BY <2>4, <2>6
      <3> QED
        BY <1>0, <1>1, <1>2, <2>2, <3>1, <3>2
        DEF NamesInv, ReadingInv, EntriesInv, OneFileInv
    <2> QED
      BY <2>5, <2>6
  <1>6. CASE ScanEnds
    <2>1. /\ at = "scan" /\ entry > Len(names) /\ at' = "returned"
          /\ UNCHANGED <<entry, numProtos>>
      BY <1>6 DEF ScanEnds
    <2>2. names # NoDirectory
      BY <1>0, <2>1 DEF NamesInv
    <2>3. DOMAIN names = 1 .. Len(names) /\ Len(names) \in Nat
      BY <1>0, <2>2, NamesFacts
    <2>4. NamesInv' /\ ReadingInv'
      BY <1>0, <1>1, <2>1, <2>2 DEF NamesInv, ReadingInv
    <2>5. EntriesInv'
      BY <1>0, <1>1, <1>2, <2>1 DEF EntriesInv
    <2>6. ASSUME NEW f \in DOMAIN names, OnlyFile(f)
          PROVE  FoundAll(f)
      <3>1. entry > f
        BY <1>0, <2>1, <2>3
      <3> QED
        BY <1>0, <2>1, <2>2, <2>6, <3>1 DEF OneFileInv
    <2>7. OneFileInv'
      BY <1>1, <1>2, <2>1, <2>6 DEF OneFileInv
    <2> QED
      BY <2>4, <2>5, <2>7
  <1> QED
    BY <1>3, <1>4, <1>5, <1>6

(* A parse that goes on is still that of the same file.                    *)
LEMMA SameFile ==
    ASSUME IInv, Parse, at' = "parse"
    PROVE  UNCHANGED <<entry, numProtos>>
  <1>1. \A n : ParseReturns(n) => at' # "parse"
    BY DEF ParseReturns
  <1>2. Fail => at' # "parse"
    BY DEF Fail
  <1>3. ASSUME NEW level, NEW next, Move(level, next)
        PROVE  UNCHANGED <<entry, numProtos>>
    BY <1>2, <1>3 DEF Move
  <1>4. CASE StreamStart \/ MappingStart \/ MappingEnd \/ SequenceStart
    BY <1>3, <1>4 DEF StreamStart, MappingStart, MappingEnd, SequenceStart
  <1>5. CASE ParserError \/ StreamEnd
    BY <1>1, <1>2, <1>5 DEF ParserError, StreamEnd
  <1>6. CASE DocumentStart \/ SequenceEnd \/ ScalarEvent \/ OtherEvent
    BY <1>2, <1>6 DEF DocumentStart, SequenceEnd, ScalarEvent, OtherEvent
  <1>7. CASE DocumentEnd
    BY <1>1, <1>2, <1>7 DEF DocumentEnd
  <1> QED
    BY <1>4, <1>5, <1>6, <1>7 DEF Parse

(* The end of a readable file.                                             *)
LEMMA EndsInv ==
    ASSUME EInv, at = "parse", NEW c, c = File, Readable(c), Ends(c), names' = names
    PROVE  NamesInv' /\ ReadingInv' /\ EntriesInv' /\ OneFileInv'
  <1>0. /\ IInv /\ NamesInv /\ EntriesInv /\ OneFileInv
        /\ Slots \in Nat /\ numProtos \in Nat /\ entry \in Nat
    BY Counters DEF EInv
  <1>1. PICK n \in 0 .. Len(c.docs) :
          /\ ParseReturns(n)
          /\ (n = Len(c.docs) /\ n < space) \/ n = space
          /\ Stored(c.docs, n)
          /\ UNCHANGED list
    BY DEF Ends
  <1>2. Len(c.docs) \in Nat
    BY ReadableFacts DEF AllPlain
  <1>3. /\ numProtos' = n /\ entry' = entry + 1 /\ at' \in {"scan", "returned"}
    BY <1>1 DEF ParseReturns
  <1>4. names # NoDirectory /\ entry \in DOMAIN names /\ Usable(c)
    BY <1>0 DEF NamesInv
  <1>5. /\ AllReadable' = AllReadable
        /\ \A f : OnlyFile(f)' = OnlyFile(f)
        /\ \A f : FileAt(f)' = FileAt(f)
        /\ \A x : Describes(x)' = Describes(x)
    BY SameNames
  <1>6. NamesInv' /\ ReadingInv'
    BY <1>0, <1>3, <1>4 DEF NamesInv, ReadingInv
  <1>7. EntriesInv'
    <2> SUFFICES ASSUME AllReadable, NEW i \in 0 .. n - 1
                 PROVE  Describes(list[i])
      BY <1>1, <1>3, <1>5 DEF EntriesInv
    <2>1. CASE i \in 0 .. numProtos - 1
      BY <1>0, <2>1 DEF EntriesInv
    <2>2. CASE i \notin 0 .. numProtos - 1
      <3> DEFINE k == i - numProtos
      <3>1. k \in 0 .. n - 1 /\ numProtos + k = i
        BY <1>0, <1>1, <1>2, <2>2
      <3> HIDE DEF k
      <3>2. /\ k + 1 \in DOMAIN c.docs /\ Complete(c.docs[k + 1])
            /\ list[i] = Described(c.docs[k + 1])
        BY <1>1, <3>1 DEF Stored
      <3>3. FileAt(entry) = c
        BY DEF File
      <3> QED
        BY <1>4, <3>2, <3>3 DEF Describes
    <2> QED
      BY <2>1, <2>2
  <1>8. OneFileInv'
    <2> SUFFICES ASSUME NEW f \in DOMAIN names, OnlyFile(f)
                 PROVE  ~(entry' <= f) /\ FoundAll(f)'
      BY <1>3, <1>5 DEF OneFileInv
    <2>1. entry = f /\ numProtos = 0
      BY <1>0, <1>4 DEF OneFileInv
    <2>2. FileAt(f)' = c
      BY <1>5, <2>1 DEF File
    <2>3. n = IF Len(c.docs) < Slots THEN Len(c.docs) ELSE Slots
      BY <1>0, <1>1, <1>2, <2>1 DEF space
    <2>4. \A i \in 0 .. n - 1 : list'[i] = Described(c.docs[i + 1])
      BY <1>1, <2>1 DEF Stored
    <2>5. ~(entry' <= f)
      BY <1>0, <1>3, <2>1
    <2> HIDE DEF FileAt
    <2> QED
      BY <1>3, <2>2, <2>3, <2>4, <2>5 DEF FoundAll
  <1> QED
    BY <1>6, <1>7, <1>8

(* The steps of the parser.                                                *)
LEMMA EParseStep ==
    ASSUME EInv, Parse
    PROVE  NamesInv' /\ ReadingInv' /\ EntriesInv' /\ OneFileInv'
  <1>0. IInv /\ NamesInv /\ ReadingInv /\ EntriesInv /\ OneFileInv
    BY DEF EInv
  <1>1. at = "parse" /\ names' = names
    BY Dispatch
  <1>2. names # NoDirectory /\ entry \in DOMAIN names /\ Usable(File)
    BY <1>0, <1>1 DEF NamesInv
  <1>3. PICK c : c = File
    OBVIOUS
  <1>4. /\ AllReadable' = AllReadable
        /\ \A f : OnlyFile(f)' = OnlyFile(f)
        /\ \A x : Describes(x)' = Describes(x)
        /\ entry' = entry => File' = File
    BY <1>1, SameNames
  <1> HIDE DEF File, AllReadable, OnlyFile, Describes, FoundAll
  <1>5. at' = "parse" => UNCHANGED <<entry, numProtos>>
    BY <1>0, SameFile
  <1>6. NamesInv'
    BY <1>0, <1>1, <1>2, <1>4, <1>5 DEF NamesInv
  <1>7. CASE Readable(c)
    <2>1. Reading(c)
      BY <1>0, <1>1, <1>3, <1>7 DEF ReadingInv
    <2>2. CASE /\ UNCHANGED <<at, entry, numProtos>> /\ Reading(c)'
               /\ \A i \in 0 .. numProtos - 1 : list'[i] = list[i]
      <3>1. ReadingInv'
        BY <1>3, <1>4, <2>2 DEF ReadingInv
      <3>2. EntriesInv'
        BY <1>0, <1>1, <1>4, <2>2 DEF EntriesInv
      <3>3. OneFileInv'
        BY <1>0, <1>1, <1>4, <2>2 DEF OneFileInv
      <3> QED
        BY <1>6, <3>1, <3>2, <3>3
    <2>3. CASE at' \in {"endless", "aborted"}
      BY <1>6, <2>3 DEF ReadingInv, EntriesInv, OneFileInv
    <2>4. CASE Ends(c)
      BY <1>1, <1>3, <1>7, <2>4, EndsInv
    <2> QED
      BY <1>0, <1>7, <2>1, <2>2, <2>3, <2>4, ReadingStep
  <1>8. CASE ~Readable(c)
    <2>1. ~AllReadable
      BY <1>2, <1>3, <1>8 DEF AllReadable, File
    <2>2. ASSUME NEW f \in DOMAIN names, OnlyFile(f)
          PROVE  FALSE
      <3>1. entry = f
        BY <1>0, <1>1, <1>2, <2>2 DEF OneFileInv
      <3> QED
        BY <1>3, <1>8, <2>2, <3>1 DEF OnlyFile, WellFormed, File
    <2>3. ReadingInv'
      BY <1>3, <1>4, <1>5, <1>8 DEF ReadingInv
    <2> QED
      BY <1>1, <1>4, <1>6, <2>1, <2>2, <2>3 DEF EntriesInv, OneFileInv
  <1> QED
    BY <1>7, <1>8

LEMMA EStep == EInv /\ [Next]_vars => EInv'
  <1> SUFFICES ASSUME EInv, [Next]_vars
               PROVE  EInv'
    OBVIOUS
  <1>1. IInv'
    BY Step DEF EInv
  <1>2. CASE Next
    BY <1>1, <1>2, EScanStep, EParseStep DEF Next, EInv
  <1>3. CASE UNCHANGED vars
    <2>1. UNCHANGED <<names, at, entry, numProtos, list, input, eventLevel, key, got, parsed>>
      BY <1>3 DEF vars, parseVars
    <2>2. /\ AllReadable' = AllReadable
          /\ \A f : OnlyFile(f)' = OnlyFile(f)
          /\ \A x : Describes(x)' = Describes(x)
          /\ \A f : FoundAll(f)' = FoundAll(f)
          /\ File' = File
      BY <2>1, SameNames
    <2>3. \A f : Reading(f)' = Reading(f)
      BY <2>1 DEF Reading, Stored, state, proto
    <2>4. NamesInv' /\ ReadingInv'
      BY <2>1, <2>2, <2>3 DEF EInv, NamesInv, ReadingInv
    <2>5. EntriesInv' /\ OneFileInv'
      BY <2>1, <2>2 DEF EInv, EntriesInv, OneFileInv
    <2> QED
      BY <1>1, <2>4, <2>5 DEF EInv
  <1> QED
    BY <1>2, <1>3

(* The inductive invariant of the whole scan.                              *)
THEOREM EntriesInvariant == Spec => []EInv
  BY EInit, EStep, PTL DEF Spec

(* When libyaml's events are those of the documents of the files, and no   *)
(* field is one that misleads the parser (properties without a list, or a  *)
(* list under another key with one of the parser's keys after its first    *)
(* element), every entry returned is the description of one complete       *)
(* document, however many are incomplete or break off.                     *)
THEOREM DescribesEntries == Spec => []EntriesComplete
  <1>1. EInv => EntriesComplete
    BY DEF EInv, EntriesInv, EntriesComplete, Returned, Describes
  <1> QED
    BY <1>1, EntriesInvariant, PTL

(* One well-formed file is found with all of its documents in order, as    *)
(* many as fit, whatever else is in the directory.                         *)
THEOREM FindsOneFile == Spec => []OneFileFound
  <1>1. EInv => OneFileFound
    BY DEF EInv, OneFileInv, OneFileFound, Returned, OnlyFile, FoundAll
  <1> QED
    BY <1>1, EntriesInvariant, PTL

-----------------------------------------------------------------------------
(* Files without errors.                                                   *)

(* In a directory of well-formed files no parse fails, so that its endless *)
(* clean-up is not reached: what ScanReturns needs besides fairness.       *)
NeverFails ==
    (\A f \in DOMAIN names : Usable(FileAt(f)) => WellFormed(FileAt(f)))
        => at \notin {"endless", "aborted"}

(* At the end of a complete document all three fields have been got.       *)
LEMMA GotAll ==
    ASSUME NEW doc \in Document, NEW e, NEW g,
           Strings(doc, Len(doc), e, g), Complete(doc)
    PROVE  g = Required
  <1>1. DOMAIN doc = 1 .. Len(doc)
    BY DEF Document
  <1>2. \A k \in Required : \E i \in 1 .. Len(doc) : doc[i].key = k
    BY <1>1 DEF Complete, Fields
  <1>3. g \subseteq Required
    BY DEF Strings
  <1>4. \A k \in Required \ g : \A i \in 1 .. Len(doc) : doc[i].key # k
    BY DEF Strings
  <1>5. \A k \in Required : k \in g
    BY <1>2, <1>4, Zenon
  <1> QED
    BY <1>3, <1>5

LEMMA WellFormedStep ==
    ASSUME IInv, Parse, NEW f, WellFormed(f), Reading(f)
    PROVE  at' \notin {"endless", "aborted"}
  <1>0. Readable(f)
    BY DEF WellFormed
  <1>1. PICK n \in 1 .. Len(f.places) :
          /\ input = SubSeq(f.events, n, Len(f.events))
          /\ AtPlace(f.docs, f.places[n], state)
    BY DEF Reading
  <1> DEFINE p == f.places[n]
  <1>2. /\ AllPlain(f.docs) /\ Len(f.events) = Len(f.places)
        /\ f.events[n] = EventAt(f.docs, p) /\ n \in DOMAIN f.places
    BY <1>0, ReadableFacts
  <1>3. Head(input) = EventAt(f.docs, p)
    <2>1. PICK S : f.events \in Seq(S)
      BY <1>0, ReadableFacts
    <2> QED
      BY <1>1, <1>2, <2>1, RestOf
  <1>4. at = "parse" /\ p.part # "ERROR"
    BY <1>2, Dispatch DEF WellFormed
  <1>5. \A i : ParseReturns(i) => at' \in {"scan", "returned"}
    BY DEF ParseReturns
  <1> HIDE DEF p
  <1>6. CASE Inside(p)
    <2>1. Goes
      BY <1>1, <1>2, <1>3, <1>6, InsideStep DEF p
    <2> QED
      BY <1>4, <2>1 DEF Goes
  <1>7. CASE p.part = "DOCUMENT_END"
    <2>1. Head(input).type = "DOCUMENT_END"
      BY <1>3, <1>7, TypeAt
    <2>2. /\ After(f.docs, p.doc, Len(f.docs[p.doc]), state)
          /\ state.level = "DOCUMENT"
      BY <1>1, <1>7 DEF AtPlace, p
    <2>3. /\ p.doc \in 1 .. Len(f.docs)
          /\ Strings(f.docs[p.doc], Len(f.docs[p.doc]), state.cur, state.got)
      BY <2>2 DEF After
    <2>4. f.docs[p.doc] \in Document /\ DOMAIN f.docs = 1 .. Len(f.docs)
      BY <1>2, <2>3, DocFacts DEF AllPlain
    <2>5. Complete(f.docs[p.doc])
      BY <2>3, <2>4 DEF WellFormed
    <2>6. state.got = Required
      BY <2>3, <2>4, <2>5, GotAll
    <2>7. got = Required /\ eventLevel = "DOCUMENT"
      BY <2>2, <2>6 DEF state
    <2>8. DocumentEnd
      BY <2>1, Dispatch
    <2> QED
      BY <1>4, <1>5, <2>7, <2>8 DEF DocumentEnd
  <1>8. CASE p.part = "STREAM_END"
    <2>1. Head(input).type = "STREAM_END"
      BY <1>3, <1>8, TypeAt
    <2>2. state.level = "STREAM"
      BY <1>1, <1>8 DEF AtPlace, p
    <2>3. eventLevel = "STREAM"
      BY <2>2 DEF state
    <2>4. StreamEnd
      BY <2>1, Dispatch
    <2> QED
      BY <1>5, <2>3, <2>4 DEF StreamEnd
  <1> QED
    BY <1>4, <1>6, <1>7, <1>8 DEF Inside

LEMMA NeverFailsStep == EInv /\ NeverFails /\ [Next]_vars => NeverFails'
  <1> SUFFICES ASSUME EInv, NeverFails, [Next]_vars,
                      \A f \in DOMAIN names' : Usable(FileAt(f)') => WellFormed(FileAt(f)')
               PROVE  at' \notin {"endless", "aborted"}
    BY DEF NeverFails
  <1>1. names' = names
    BY Dispatch DEF Next, OpenDirectory, SkipEntry, ParseFile, ScanEnds, vars
  <1>2. \A f \in DOMAIN names : Usable(FileAt(f)) => WellFormed(FileAt(f))
    BY <1>1 DEF FileAt
  <1>3. CASE OpenDirectory \/ SkipEntry \/ ParseFile \/ ScanEnds
    BY <1>3 DEF OpenDirectory, SkipEntry, ParseFile, ScanEnds, ParseReturns
  <1>4. CASE Parse
    <2>1. at = "parse"
      BY <1>4, Dispatch
    <2>2. entry \in DOMAIN names /\ Usable(File)
      BY <2>1 DEF EInv, NamesInv
    <2>3. PICK c : c = File
      OBVIOUS
    <2>4. WellFormed(c)
      BY <1>2, <2>2, <2>3 DEF File
    <2>5. Reading(c)
      BY <2>1, <2>3, <2>4 DEF EInv, ReadingInv, WellFormed
    <2> QED
      BY <1>4, <2>4, <2>5, WellFormedStep DEF EInv
  <1>5. CASE UNCHANGED vars
    BY <1>2, <1>5 DEF NeverFails, vars
  <1> QED
    BY <1>3, <1>4, <1>5 DEF Next

(* The parser accepts every file in the documented format: key order,      *)
(* repeated fields, unknown keys and lists under them included.            *)
THEOREM WellFormedNeverFails == Spec => []NeverFails
  <1>1. Init => NeverFails
    BY DEF Init, NeverFails
  <1> QED
    BY <1>1, NeverFailsStep, EntriesInvariant, PTL DEF Spec

-----------------------------------------------------------------------------
(* Any events.  An entry is filled by one document whatever libyaml makes  *)
(* of the files.                                                           *)

(* q events of the file have been taken.                                   *)
Taken(events, q) ==
    /\ q \in 0 .. Len(events)
    /\ input = SubSeq(events, q + 1, Len(events))
    /\ key \in Required => Follows(events, q + 1, key)
    /\ eventLevel \in {"DOCUMENT", "MAPPING", "SEQUENCE"} =>
         \E a \in 1 .. q : FilledBetween(list[proto], got, events, a, q + 1)

(* Entry e was filled by a document of these events.                       *)
FilledIn(e, events) ==
    \E a, b \in DOMAIN events : /\ FilledBetween(e, Required, events, a, b)
                                /\ events[b].type = "DOCUMENT_END"

TakenInv ==
    at = "parse" =>
        /\ \E q \in Nat : Taken(File.events, q)
        /\ \A i \in numProtos .. proto - 1 : FilledIn(list[i], File.events)

FilledInv ==
    \A i \in 0 .. numProtos - 1 :
        \E f \in DOMAIN names :
            Usable(FileAt(f)) /\ FilledIn(list[i], FileAt(f).events)

OInv == IInv /\ NamesInv /\ TakenInv /\ FilledInv

(* One more event of a document.                                           *)
LEMMA FilledMore ==
    ASSUME NEW e, NEW g, NEW ev, NEW a \in Nat, NEW b \in Nat, a < b,
           FilledBetween(e, g, ev, a, b),
           ev[b].type \notin {"DOCUMENT_START", "DOCUMENT_END"}
    PROVE  FilledBetween(e, g, ev, a, b + 1)
  <1>1. \A n : n \in a + 1 .. (b + 1) - 1 <=> n \in a + 1 .. b - 1 \/ n = b
    OBVIOUS
  <1> QED
    BY <1>1 DEF FilledBetween

(* A property is named by that event.                                      *)
LEMMA FilledProperty ==
    ASSUME NEW e, DOMAIN e = DOMAIN Cleared, NEW g, g \subseteq Required,
           NEW ev, NEW a \in Nat, NEW b \in Nat, a < b,
           FilledBetween(e, g, ev, a, b), ev[b].type = "SCALAR",
           NEW h, h = WithProperties(e, e.properties \cup
                                            ({ev[b].value} \cap PropertyNames))
    PROVE  FilledBetween(h, g, ev, a, b + 1)
  <1>1. FilledBetween(e, g, ev, a, b + 1)
    BY FilledMore
  <1>2. b \in a + 1 .. (b + 1) - 1
    OBVIOUS
  <1>3. /\ h.properties = e.properties \cup ({ev[b].value} \cap PropertyNames)
        /\ \A k \in Required : h[k] = e[k]
    BY DEF WithProperties, Required, Cleared
  <1>4. \A x \in h.properties : \E n \in a + 1 .. (b + 1) - 1 :
          ev[n].type = "SCALAR" /\ ev[n].value = x
    <2>1. \A x \in e.properties : \E n \in a + 1 .. (b + 1) - 1 :
            ev[n].type = "SCALAR" /\ ev[n].value = x
      BY <1>1 DEF FilledBetween
    <2> QED
      BY <1>2, <1>3, <2>1, Zenon
  <1>5. \A k \in g : h[k] = e[k]
    BY <1>3
  <1>6. \A k \in g : \E n \in a + 1 .. (b + 1) - 1 :
          ev[n].type = "SCALAR" /\ ev[n].value = h[k] /\ Follows(ev, n, k)
    <2>1. \A k \in g : \E n \in a + 1 .. (b + 1) - 1 :
            ev[n].type = "SCALAR" /\ ev[n].value = e[k] /\ Follows(ev, n, k)
      BY <1>1 DEF FilledBetween
    <2> QED
      BY <1>5, <2>1
  <1> QED
    BY <1>1, <1>4, <1>6, Zenon DEF FilledBetween

(* A field is stored by it.                                                *)
LEMMA FilledField ==
    ASSUME NEW e, DOMAIN e = DOMAIN Cleared, NEW g, g \subseteq Required,
           NEW ev, NEW a \in Nat, NEW b \in Nat, a < b,
           FilledBetween(e, g, ev, a, b), ev[b].type = "SCALAR",
           NEW k \in Required, Follows(ev, b, k),
           NEW h, h = [e EXCEPT ![k] = ev[b].value]
    PROVE  FilledBetween(h, g \cup {k}, ev, a, b + 1)
  <1>1. FilledBetween(e, g, ev, a, b + 1)
    BY FilledMore
  <1>2. b \in a + 1 .. (b + 1) - 1
    OBVIOUS
  <1>3. /\ h.properties = e.properties /\ h[k] = ev[b].value
        /\ \A j \in Required : j # k => h[j] = e[j]
    BY DEF Required, Cleared
  <1>4. \A j \in g \cup {k} : \E n \in a + 1 .. (b + 1) - 1 :
          /\ ev[n].type = "SCALAR" /\ ev[n].value = h[j]
          /\ Follows(ev, n, j)
    <2> SUFFICES ASSUME NEW j \in g \cup {k}
                 PROVE  \E n \in a + 1 .. (b + 1) - 1 :
                          /\ ev[n].type = "SCALAR" /\ ev[n].value = h[j]
                          /\ Follows(ev, n, j)
      OBVIOUS
    <2>1. CASE j = k
      BY <1>2, <1>3, <2>1
    <2>2. CASE j # k
      <3>1. j \in g /\ h[j] = e[j]
        BY <1>3, <2>2
      <3> QED
        BY <1>1, <3>1 DEF FilledBetween
    <2> QED
      BY <2>1, <2>2
  <1> QED
    BY <1>1, <1>3, <1>4 DEF FilledBetween

(* An event that is no scalar leaves the last scalar where it is.          *)
LEMMA FollowsOn ==
    ASSUME NEW ev, NEW n \in Nat \ {0}, NEW k
    PROVE  /\ ev[n].type # "SCALAR" /\ Follows(ev, n, k) => Follows(ev, n + 1, k)
           /\ ev[n].type = "SCALAR" /\ ev[n].value = k => Follows(ev, n + 1, k)
  <1>1. \A m \in 1 .. n - 1 : \A l :
          l \in m + 1 .. (n + 1) - 1 => l \in m + 1 .. n - 1 \/ l = n
    OBVIOUS
  <1>2. 1 .. n - 1 \subseteq 1 .. (n + 1) - 1 /\ n \in 1 .. (n + 1) - 1
    OBVIOUS
  <1>3. n + 1 .. (n + 1) - 1 = {}
    OBVIOUS
  <1>4. ASSUME ev[n].type # "SCALAR", Follows(ev, n, k)
        PROVE  Follows(ev, n + 1, k)
    <2>1. PICK m \in 1 .. n - 1 :
            /\ ev[m].type = "SCALAR" /\ ev[m].value = k
            /\ \A l \in m + 1 .. n - 1 : ev[l].type # "SCALAR"
      BY <1>4 DEF Follows
    <2>2. \A l \in m + 1 .. (n + 1) - 1 : ev[l].type # "SCALAR"
      BY <1>1, <1>4, <2>1
    <2> QED
      BY <1>2, <2>1, <2>2 DEF Follows
  <1>5. ASSUME ev[n].type = "SCALAR", ev[n].value = k
        PROVE  Follows(ev, n + 1, k)
    BY <1>2, <1>3, <1>5 DEF Follows
  <1> QED
    BY <1>4, <1>5

(* A file is a sequence of events.                                         *)
LEMMA EventsOf ==
    ASSUME NamesInv, names # NoDirectory, entry \in DOMAIN names
    PROVE  File.events \in Seq([type : STRING, value : STRING])
  <1>1. names \in Seq(DOMAIN Contents)
    BY DirectoriesAssumption DEF NamesInv
  <1>2. names[entry] \in DOMAIN Contents
    BY <1>1
  <1> QED
    BY <1>2, ContentsAssumption DEF File, FileAt

(* The event that the parser takes is the next one of the file.            *)
LEMMA NextTaken ==
    ASSUME Parse, NEW S, NEW ev \in Seq(S), NEW q \in Nat, Taken(ev, q)
    PROVE  /\ at = "parse" /\ q + 1 \in 1 .. Len(ev)
           /\ Head(input) = ev[q + 1]
           /\ input' = SubSeq(ev, (q + 1) + 1, Len(ev))
  <1>1. /\ at = "parse" /\ input # <<>> /\ input' = Tail(input)
    BY Dispatch
  <1>2. /\ q \in 0 .. Len(ev) /\ Len(ev) \in Nat
        /\ input = SubSeq(ev, q + 1, Len(ev))
    BY DEF Taken
  <1>3. ASSUME q = Len(ev) PROVE FALSE
    <2>1. q + 1 \in Int /\ Len(ev) \in Int /\ Len(ev) < q + 1
      BY <1>2, <1>3
    <2> QED
      BY <1>1, <1>2, <2>1, SubSeqEmpty
  <1>4. q + 1 \in 1 .. Len(ev)
    BY <1>2, <1>3
  <1> QED
    BY <1>1, <1>2, <1>4, RestOf

(* An event that only moves the parser within a document, or outside one.  *)
LEMMA TakenQuiet ==
    ASSUME NEW ev, NEW q \in Nat, Taken(ev, q),
           q + 1 \in 1 .. Len(ev), input' = SubSeq(ev, (q + 1) + 1, Len(ev)),
           ev[q + 1].type \notin {"SCALAR", "DOCUMENT_START", "DOCUMENT_END"},
           UNCHANGED <<numProtos, parsed, list, got>>, key' \in {key, "NULL"},
           eventLevel' \in {"DOCUMENT", "MAPPING", "SEQUENCE"} =>
               eventLevel \in {"DOCUMENT", "MAPPING", "SEQUENCE"}
    PROVE  Taken(ev, q + 1)'
  <1>1. proto' = proto /\ q + 1 \in Nat /\ q + 1 \in 0 .. Len(ev)
    BY DEF proto
  <1>2. key' \in Required => Follows(ev, (q + 1) + 1, key')
    <2> SUFFICES ASSUME key' \in Required
                 PROVE  Follows(ev, (q + 1) + 1, key')
      OBVIOUS
    <2>1. key' = key
      BY DEF Required
    <2>2. Follows(ev, q + 1, key)
      BY <2>1 DEF Taken
    <2> QED
      BY <1>1, <2>1, <2>2, FollowsOn
  <1>3. ASSUME eventLevel' \in {"DOCUMENT", "MAPPING", "SEQUENCE"}
        PROVE  \E a \in 1 .. q + 1 : FilledBetween(list[proto], got, ev, a, (q + 1) + 1)
    <2>1. PICK a \in 1 .. q : FilledBetween(list[proto], got, ev, a, q + 1)
      BY <1>3 DEF Taken
    <2>2. a \in Nat /\ a < q + 1 /\ a \in 1 .. q + 1
      OBVIOUS
    <2>3. FilledBetween(list[proto], got, ev, a, (q + 1) + 1)
      BY <1>1, <2>1, <2>2, FilledMore
    <2> QED
      BY <2>2, <2>3
  <1> QED
    BY <1>1, <1>2, <1>3 DEF Taken

(* The start of a document.                                                *)
LEMMA TakenStart ==
    ASSUME IInv, NEW ev, NEW q \in Nat, Taken(ev, q), DocumentStart,
           q + 1 \in 1 .. Len(ev), input' = SubSeq(ev, (q + 1) + 1, Len(ev)),
           ev[q + 1].type = "DOCUMENT_START", eventLevel = "STREAM"
    PROVE  Goes /\ Taken(ev, q + 1)'
  <1>1. /\ at = "parse" /\ got' = {} /\ key' = key
        /\ list' = [list EXCEPT ![proto] = Cleared]
        /\ UNCHANGED <<at, entry, numProtos, parsed>>
    BY DEF DocumentStart, Event
  <1>2. /\ list'[proto'] = Cleared
        /\ \A i \in 0 .. proto - 1 : list'[i] = list[i]
    BY <1>1, Stores
  <1>3. q + 1 \in Nat /\ q + 1 \in 0 .. Len(ev) /\ q + 1 \in 1 .. q + 1
    OBVIOUS
  <1>4. FilledBetween(Cleared, {}, ev, q + 1, (q + 1) + 1)
    <2>1. (q + 1) + 1 .. ((q + 1) + 1) - 1 = {}
      OBVIOUS
    <2> QED
      BY <2>1 DEF FilledBetween, Cleared
  <1>5. key' \in Required => Follows(ev, (q + 1) + 1, key')
    BY <1>1, <1>3, FollowsOn DEF Taken
  <1>6. Taken(ev, q + 1)'
    BY <1>1, <1>2, <1>3, <1>4, <1>5 DEF Taken
  <1> QED
    BY <1>1, <1>2, <1>6 DEF Goes

(* A scalar.                                                               *)
LEMMA TakenScalar ==
    ASSUME IInv, NEW ev, NEW q \in Nat, Taken(ev, q), ScalarEvent,
           q + 1 \in 1 .. Len(ev), input' = SubSeq(ev, (q + 1) + 1, Len(ev)),
           Head(input) = ev[q + 1], ev[q + 1].type = "SCALAR"
    PROVE  Goes /\ Taken(ev, q + 1)'
  <1> DEFINE x == ev[q + 1].value
  <1>1. Goes /\ Scalars(x, state, state')
    BY AtScalar DEF Scalar
  <1>2. /\ state.key = key /\ state'.key = key' /\ state.got = got
        /\ state'.got = got' /\ state.cur = list[proto] /\ state'.cur = list'[proto']
        /\ state.level = eventLevel /\ state'.level = eventLevel'
    BY DEF state
  <1>3. /\ q + 1 \in Nat /\ q + 1 \in Nat \ {0} /\ q + 1 \in 0 .. Len(ev)
        /\ DOMAIN list[proto] = DOMAIN Cleared /\ got \subseteq Required
    <2>1. at = "parse"
      BY DEF ScalarEvent, Event
    <2>2. DOMAIN list[proto] = DOMAIN Cleared /\ got \subseteq Required
      BY <2>1, Counters DEF IInv, TypeOK
    <2> QED
      BY <2>2
  <1>4. key' \in Required => Follows(ev, (q + 1) + 1, key')
    <2> SUFFICES ASSUME key' \in Required
                 PROVE  Follows(ev, (q + 1) + 1, key')
      OBVIOUS
    <2>1. key' = x
      BY <1>1, <1>2 DEF Scalars, Required
    <2> QED
      BY <1>3, <2>1, FollowsOn
  <1>5. ASSUME eventLevel' \in {"DOCUMENT", "MAPPING", "SEQUENCE"}
        PROVE  \E a \in 1 .. q + 1 :
                 FilledBetween(list'[proto'], got', ev, a, (q + 1) + 1)
    <2>1. eventLevel' = eventLevel
      BY <1>1, <1>2 DEF Scalars
    <2>2. PICK a \in 1 .. q : FilledBetween(list[proto], got, ev, a, q + 1)
      BY <1>5, <2>1 DEF Taken
    <2>3. a \in Nat /\ a < q + 1 /\ a \in 1 .. q + 1
      OBVIOUS
    <2>4. CASE key = "properties"
      <3>1. /\ got' = got
            /\ list'[proto'] = WithProperties(list[proto],
                    list[proto].properties \cup ({x} \cap PropertyNames))
        BY <1>1, <1>2, <2>4 DEF Scalars, Required
      <3>2. FilledBetween(list'[proto'], got', ev, a, (q + 1) + 1)
        BY <1>3, <2>2, <2>3, <3>1, FilledProperty
      <3> QED
        BY <2>3, <3>2
    <2>5. CASE key \in Required
      <3>1. /\ got' = got \cup {key}
            /\ list'[proto'] = [list[proto] EXCEPT ![key] = x]
        BY <1>1, <1>2, <2>5 DEF Scalars, Required
      <3>2. Follows(ev, q + 1, key)
        BY <2>5 DEF Taken
      <3>3. FilledBetween(list'[proto'], got', ev, a, (q + 1) + 1)
        BY <1>3, <2>2, <2>3, <2>5, <3>1, <3>2, FilledField
      <3> QED
        BY <2>3, <3>3
    <2>6. CASE key \notin Required \cup {"properties"}
      <3>1. got' = got /\ list'[proto'] = list[proto]
        BY <1>1, <1>2, <2>6 DEF Scalars
      <3>2. FilledBetween(list'[proto'], got', ev, a, (q + 1) + 1)
        BY <1>3, <2>2, <2>3, <3>1, FilledMore
      <3> QED
        BY <2>3, <3>2
    <2> QED
      BY <2>4, <2>5, <2>6
  <1>6. Taken(ev, q + 1)'
    BY <1>3, <1>4, <1>5 DEF Taken
  <1> QED
    BY <1>1, <1>6

(* The end of a document, which fills an entry.                            *)
LEMMA TakenEnd ==
    ASSUME IInv, NEW ev, NEW q \in Nat, Taken(ev, q), DocumentEnd,
           q + 1 \in 1 .. Len(ev), input' = SubSeq(ev, (q + 1) + 1, Len(ev)),
           ev[q + 1].type = "DOCUMENT_END", DOMAIN ev = 1 .. Len(ev),
           eventLevel = "DOCUMENT", got = Required
    PROVE  /\ FilledIn(list[proto], ev)
           /\ list' = list /\ parsed' = parsed + 1
           /\ \/ ParseReturns(parsed')
              \/ UNCHANGED <<at, entry, numProtos>> /\ Taken(ev, q + 1)'
  <1>1. /\ eventLevel' = "STREAM" /\ parsed' = parsed + 1
        /\ IF parsed' = space
           THEN ParseReturns(parsed')
           ELSE UNCHANGED <<at, entry, numProtos>>
        /\ UNCHANGED <<list, key, got>>
    BY DEF DocumentEnd
  <1>2. PICK a \in 1 .. q : FilledBetween(list[proto], Required, ev, a, q + 1)
    BY DEF Taken
  <1>3. a \in DOMAIN ev /\ q + 1 \in DOMAIN ev
    OBVIOUS
  <1>4. FilledIn(list[proto], ev)
    BY <1>2, <1>3 DEF FilledIn
  <1>5. key' \in Required => Follows(ev, (q + 1) + 1, key')
    BY <1>1, FollowsOn DEF Taken
  <1>6. Taken(ev, q + 1)'
    BY <1>1, <1>5 DEF Taken
  <1> QED
    BY <1>1, <1>4, <1>6

(* Every event: the parse fails, goes on to the next event, or ends with   *)
(* all the entries it returns filled.                                      *)
LEMMA TakenStep ==
    ASSUME IInv, Parse, NEW S, NEW ev \in Seq(S), NEW q \in Nat, Taken(ev, q),
           \A i \in numProtos .. proto - 1 : FilledIn(list[i], ev)
    PROVE  \/ at' \in {"endless", "aborted"} /\ UNCHANGED <<list, numProtos>>
           \/ /\ UNCHANGED <<at, entry, numProtos>> /\ Taken(ev, q + 1)'
              /\ \A i \in numProtos .. proto' - 1 : FilledIn(list'[i], ev)
              /\ \A i \in 0 .. numProtos - 1 : list'[i] = list[i]
           \/ \E n \in 0 .. Slots :
                /\ ParseReturns(n) /\ UNCHANGED list
                /\ \A i \in numProtos .. n - 1 : FilledIn(list[i], ev)
  <1>1. /\ at = "parse" /\ q + 1 \in 1 .. Len(ev)
        /\ Head(input) = ev[q + 1]
        /\ input' = SubSeq(ev, (q + 1) + 1, Len(ev))
        /\ DOMAIN ev = 1 .. Len(ev)
    BY NextTaken
  <1>2. /\ numProtos \in Nat /\ parsed \in Nat /\ proto = numProtos + parsed
        /\ parsed + 1 \in 0 .. Slots /\ parsed \in 0 .. Slots
        /\ Slots \in Nat
    BY <1>1, Counters DEF proto
  <1>3. ASSUME Fail
        PROVE  at' \in {"endless", "aborted"} /\ UNCHANGED <<list, numProtos>>
    BY <1>3 DEF Fail
  <1>4. ASSUME Goes
        PROVE  /\ UNCHANGED <<at, entry, numProtos>>
               /\ \A i \in numProtos .. proto' - 1 : FilledIn(list'[i], ev)
               /\ \A i \in 0 .. numProtos - 1 : list'[i] = list[i]
    <2>1. /\ proto' = proto /\ UNCHANGED <<at, entry, numProtos>>
          /\ \A i \in 0 .. proto - 1 : list'[i] = list[i]
      BY <1>4 DEF Goes, proto
    <2>2. /\ \A i \in numProtos .. proto - 1 : i \in 0 .. proto - 1
          /\ \A i \in 0 .. numProtos - 1 : i \in 0 .. proto - 1
      BY <1>2
    <2> QED
      BY <2>1, <2>2
  <1>5. ASSUME Goes, UNCHANGED <<list, got>>, key' \in {key, "NULL"},
               ev[q + 1].type \notin {"SCALAR", "DOCUMENT_START", "DOCUMENT_END"},
               eventLevel' \in {"DOCUMENT", "MAPPING", "SEQUENCE"} =>
                   eventLevel \in {"DOCUMENT", "MAPPING", "SEQUENCE"}
        PROVE  Taken(ev, q + 1)'
    BY <1>1, <1>5, TakenQuiet DEF Goes
  <1>6. CASE ParserError
    BY <1>3, <1>6 DEF ParserError
  <1>7. CASE StreamStart \/ MappingStart \/ MappingEnd \/ SequenceStart
    <2>1. PICK level \in {"NONE", "DOCUMENT", "MAPPING"},
               next \in {"STREAM", "MAPPING", "DOCUMENT", "SEQUENCE"} :
            /\ Move(level, next)
            /\ level = "NONE" => next = "STREAM"
      BY <1>7 DEF StreamStart, MappingStart, MappingEnd, SequenceStart
    <2>2. ev[q + 1].type \notin {"SCALAR", "DOCUMENT_START", "DOCUMENT_END"}
      BY <1>1, <1>7 DEF StreamStart, MappingStart, MappingEnd, SequenceStart, Event
    <2>3. CASE eventLevel = level
      <3>1. /\ Goes /\ UNCHANGED <<list, got, key>> /\ eventLevel' = next
        BY <2>1, <2>3 DEF Move, Goes
      <3> QED
        BY <1>4, <1>5, <2>1, <2>2, <2>3, <3>1
    <2>4. CASE eventLevel # level
      BY <1>3, <2>1, <2>4 DEF Move
    <2> QED
      BY <2>3, <2>4
  <1>8. CASE StreamEnd
    <2>1. CASE eventLevel # "STREAM"
      BY <1>3, <1>8, <2>1 DEF StreamEnd
    <2>2. CASE eventLevel = "STREAM"
      <3>1. ParseReturns(parsed) /\ UNCHANGED list
        BY <1>8, <2>2 DEF StreamEnd
      <3>2. \A i \in numProtos .. parsed - 1 : i \in numProtos .. proto - 1
        BY <1>2
      <3> QED
        BY <1>2, <3>1, <3>2
    <2> QED
      BY <2>1, <2>2
  <1>9. CASE DocumentStart
    <2>1. CASE eventLevel # "STREAM"
      BY <1>3, <1>9, <2>1 DEF DocumentStart
    <2>2. CASE eventLevel = "STREAM"
      <3>1. ev[q + 1].type = "DOCUMENT_START"
        BY <1>1, <1>9 DEF DocumentStart, Event
      <3> QED
        BY <1>1, <1>4, <1>9, <2>2, <3>1, TakenStart
    <2> QED
      BY <2>1, <2>2
  <1>10. CASE DocumentEnd
    <2>1. CASE eventLevel # "DOCUMENT" \/ got # Required
      BY <1>3, <1>10, <2>1 DEF DocumentEnd
    <2>2. CASE eventLevel = "DOCUMENT" /\ got = Required
      <3>1. ev[q + 1].type = "DOCUMENT_END"
        BY <1>1, <1>10 DEF DocumentEnd, Event
      <3>2. /\ FilledIn(list[proto], ev)
            /\ list' = list /\ parsed' = parsed + 1
            /\ \/ ParseReturns(parsed')
               \/ UNCHANGED <<at, entry, numProtos>> /\ Taken(ev, q + 1)'
        BY <1>1, <1>10, <2>2, <3>1, TakenEnd
      <3>3. \A i \in numProtos .. proto : FilledIn(list[i], ev)
        <4>1. \A i \in numProtos .. proto : i \in numProtos .. proto - 1 \/ i = proto
          BY <1>2
        <4> QED
          BY <3>2, <4>1
      <3>4. CASE ParseReturns(parsed')
        <4>1. \A i \in numProtos .. parsed' - 1 : i \in numProtos .. proto
          BY <1>2, <3>2
        <4> QED
          BY <1>2, <3>2, <3>3, <3>4, <4>1
      <3>5. CASE UNCHANGED <<at, entry, numProtos>> /\ Taken(ev, q + 1)'
        <4>1. proto' - 1 = proto
          BY <1>2, <3>2, <3>5 DEF proto
        <4> QED
          BY <3>2, <3>3, <3>5, <4>1
      <3> QED
        BY <3>2, <3>4, <3>5
    <2> QED
      BY <2>1, <2>2
  <1>11. CASE SequenceEnd
    <2>1. CASE eventLevel # "SEQUENCE"
      BY <1>3, <1>11, <2>1 DEF SequenceEnd
    <2>2. CASE eventLevel = "SEQUENCE"
      <3>1. /\ Goes /\ UNCHANGED <<list, got>> /\ key' = "NULL"
            /\ ev[q + 1].type = "SEQUENCE_END"
        BY <1>1, <1>11, <2>2 DEF SequenceEnd, Goes, Event
      <3> QED
        BY <1>4, <1>5, <2>2, <3>1
    <2> QED
      BY <2>1, <2>2
  <1>12. CASE ScalarEvent
    <2>1. ev[q + 1].type = "SCALAR"
      BY <1>1, <1>12 DEF ScalarEvent, Event
    <2> QED
      BY <1>1, <1>4, <1>12, <2>1, TakenScalar
  <1>13. CASE OtherEvent
    <2>1. /\ Goes /\ UNCHANGED <<list, got, key, eventLevel>>
          /\ ev[q + 1].type = "ALIAS"
      BY <1>1, <1>13 DEF OtherEvent, Goes, Event
    <2> QED
      BY <1>4, <1>5, <2>1
  <1> QED
    BY <1>6, <1>7, <1>8, <1>9, <1>10, <1>11, <1>12, <1>13 DEF Parse

(* What is filled stays so, in a directory that does not change.           *)
LEMMA FilledKept ==
    ASSUME FilledInv, names' = names, NEW n \in Int, n <= numProtos,
           numProtos \in Int, \A i \in 0 .. numProtos - 1 : list'[i] = list[i]
    PROVE  \A i \in 0 .. n - 1 :
             \E f \in DOMAIN names' :
                 Usable(FileAt(f)') /\ FilledIn(list'[i], FileAt(f)'.events)
  <1>1. \A f : FileAt(f)' = FileAt(f)
    BY DEF FileAt
  <1>2. \A i \in 0 .. n - 1 : i \in 0 .. numProtos - 1
    OBVIOUS
  <1> HIDE DEF FileAt
  <1> QED
    BY <1>1, <1>2 DEF FilledInv

(* The steps of the scan.                                                  *)
LEMMA OScanStep ==
    ASSUME OInv, IInv', OpenDirectory \/ SkipEntry \/ ParseFile \/ ScanEnds
    PROVE  TakenInv' /\ FilledInv'
  <1>0. /\ IInv /\ NamesInv /\ FilledInv /\ Slots \in Nat
        /\ names' = names /\ list' = list
        /\ numProtos \in Int
    BY Counters DEF OInv, OpenDirectory, SkipEntry, ParseFile, ScanEnds
  <1>1. numProtos' \in Int /\ (numProtos' <= numProtos \/ numProtos' = 0)
    BY <1>0 DEF OpenDirectory, SkipEntry, ParseFile, ScanEnds, ParseReturns,
       IInv, TypeOK, SpaceInv
  <1>2. FilledInv'
    <2>1. CASE numProtos' <= numProtos
      BY <1>0, <1>1, <2>1, FilledKept DEF FilledInv
    <2>2. CASE numProtos' = 0
      BY <2>2 DEF FilledInv
    <2> QED
      BY <1>1, <2>1, <2>2
  <1>3. TakenInv'
    <2> SUFFICES ASSUME at' = "parse"
                 PROVE  /\ \E q \in Nat : Taken(File.events, q)'
                        /\ \A i \in numProtos' .. proto' - 1 :
                             FilledIn(list'[i], File'.events)
      BY DEF TakenInv
    <2>1. /\ at = "scan" /\ entry <= Len(names)
          /\ input' = File.events /\ eventLevel' = "NONE"
          /\ key' = "NULL" /\ parsed' = 0 /\ UNCHANGED <<numProtos, entry>>
      BY DEF OpenDirectory, SkipEntry, ParseFile, ScanEnds, ParseReturns
    <2>2. File' = File
      BY <1>0, <2>1 DEF File, FileAt
    <2>3. names # NoDirectory /\ entry \in DOMAIN names
      <3>1. names # NoDirectory
        BY <1>0, <2>1 DEF NamesInv
      <3> QED
        BY <1>0, <2>1, <3>1, NamesFacts DEF IInv, TypeOK
    <2>4. PICK ev : ev = File.events
      OBVIOUS
    <2>5. ev \in Seq([type : STRING, value : STRING])
      BY <1>0, <2>3, <2>4, EventsOf
    <2>6. ev = SubSeq(ev, 0 + 1, Len(ev)) /\ 0 \in 0 .. Len(ev)
      BY <2>5, SubSeqFull
    <2>7. Taken(ev, 0)'
      BY <2>1, <2>4, <2>6 DEF Taken, Required
    <2>8. numProtos' .. proto' - 1 = {}
      BY <1>1, <2>1 DEF proto
    <2>9. \E q \in Nat : Taken(File.events, q)'
      BY <2>2, <2>4, <2>7
    <2> QED
      BY <2>8, <2>9
  <1> QED
    BY <1>2, <1>3

(* The steps of the parser.                                                *)
LEMMA OParseStep ==
    ASSUME OInv, Parse
    PROVE  TakenInv' /\ FilledInv'
  <1>0. /\ IInv /\ NamesInv /\ TakenInv /\ FilledInv
        /\ at = "parse" /\ names' = names
    BY Dispatch DEF OInv
  <1>1. /\ names # NoDirectory /\ entry \in DOMAIN names /\ Usable(File)
        /\ numProtos \in Nat
    BY <1>0, Counters DEF NamesInv
  <1>2. PICK ev : ev = File.events
    OBVIOUS
  <1>3. ev \in Seq([type : STRING, value : STRING])
    BY <1>0, <1>1, <1>2, EventsOf
  <1>4. PICK q \in Nat : Taken(ev, q)
    BY <1>0, <1>2 DEF TakenInv
  <1>5. \A i \in numProtos .. proto - 1 : FilledIn(list[i], ev)
    BY <1>0, <1>2 DEF TakenInv
  <1>6. entry' = entry => File' = File
    BY <1>0 DEF File, FileAt
  <1>7. CASE at' \in {"endless", "aborted"} /\ UNCHANGED <<list, numProtos>>
    BY <1>0, <1>1, <1>7, FilledKept DEF TakenInv, FilledInv
  <1>8. CASE /\ UNCHANGED <<at, entry, numProtos>> /\ Taken(ev, q + 1)'
             /\ \A i \in numProtos .. proto' - 1 : FilledIn(list'[i], ev)
             /\ \A i \in 0 .. numProtos - 1 : list'[i] = list[i]
    <2>1. FilledInv'
      BY <1>0, <1>1, <1>8, FilledKept DEF FilledInv
    <2>2. q + 1 \in Nat /\ File'.events = ev
      BY <1>2, <1>6, <1>8
    <2>3. TakenInv'
      BY <1>8, <2>2 DEF TakenInv
    <2> QED
      BY <2>1, <2>3
  <1>9. CASE \E n \in 0 .. Slots :
                /\ ParseReturns(n) /\ UNCHANGED list
                /\ \A i \in numProtos .. n - 1 : FilledIn(list[i], ev)
    <2>1. PICK n \in 0 .. Slots :
                /\ ParseReturns(n) /\ UNCHANGED list
                /\ \A i \in numProtos .. n - 1 : FilledIn(list[i], ev)
      BY <1>9
    <2>2. numProtos' = n /\ at' # "parse" /\ n \in Int
      BY <2>1 DEF ParseReturns
    <2>3. FilledInv'
      <3> SUFFICES ASSUME NEW i \in 0 .. n - 1
                   PROVE  \E f \in DOMAIN names :
                            Usable(FileAt(f)) /\ FilledIn(list[i], FileAt(f).events)
        BY <1>0, <2>1, <2>2 DEF FilledInv, FileAt
      <3>1. CASE i \in 0 .. numProtos - 1
        BY <1>0, <3>1 DEF FilledInv
      <3>2. CASE i \in numProtos .. n - 1
        BY <1>1, <1>2, <2>1, <3>2 DEF File
      <3> QED
        BY <1>1, <2>2, <3>1, <3>2
    <2> QED
      BY <2>2, <2>3 DEF TakenInv
  <1> QED
    BY <1>0, <1>3, <1>4, <1>5, <1>7, <1>8, <1>9, TakenStep

LEMMA OStep == OInv /\ EInv' /\ [Next]_vars => OInv'
  <1> SUFFICES ASSUME OInv, EInv', [Next]_vars
               PROVE  OInv'
    OBVIOUS
  <1>1. IInv' /\ NamesInv'
    BY DEF EInv
  <1>2. CASE Next
    BY <1>1, <1>2, OScanStep, OParseStep DEF Next, OInv
  <1>3. CASE UNCHANGED vars
    <2>1. UNCHANGED <<names, at, entry, numProtos, list, input, eventLevel, key, got, parsed>>
      BY <1>3 DEF vars, parseVars
    <2>2. File' = File /\ proto' = proto /\ \A f : FileAt(f)' = FileAt(f)
      BY <2>1 DEF File, FileAt, proto
    <2>3. \A ev, q : Taken(ev, q)' = Taken(ev, q)
      BY <2>1, <2>2 DEF Taken
    <2>4. TakenInv' /\ FilledInv'
      BY <2>1, <2>2, <2>3 DEF OInv, TakenInv, FilledInv
    <2> QED
      BY <1>1, <2>4 DEF OInv
  <1> QED
    BY <1>2, <1>3

(* Whatever the files hold, every entry returned was filled between the    *)
(* start and the end of one document of one file (tapsParseYaml): no       *)
(* hypothesis on the files but that they are sequences of events.          *)
THEOREM FillsFromOneDocument == Spec => []FromOneDocument
  <1>1. Init => OInv
    <2> SUFFICES ASSUME Init PROVE OInv
      OBVIOUS
    <2>1. at = "opendir" /\ numProtos = 0
      BY DEF Init
    <2> QED
      BY <2>1, EInit DEF OInv, EInv, TakenInv, FilledInv
  <1>2. OInv => FromOneDocument
    BY DEF OInv, FilledInv, FilledIn, FromOneDocument
  <1> QED
    BY <1>1, <1>2, OStep, EntriesInvariant, PTL DEF Spec
=============================================================================
