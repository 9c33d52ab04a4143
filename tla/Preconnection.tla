--------------------------- MODULE Preconnection ---------------------------
(***************************************************************************)
(* src/src/taps_preconnection.c over the transport properties and a local  *)
(* endpoint: which of the installed protocols a preconnection keeps, who   *)
(* frees their strings, and what a listener is started with.               *)
(*                                                                         *)
(* An entry is its position in the array that tapsUpdateProtocols filled.  *)
(* The memset in tapsPreconnectionNew clears a pointer's size only, so     *)
(* numProtocols starts with any value of StaleCounts, and that many slots  *)
(* of the table before the candidates are garbage.  The loops of New and   *)
(* Free take one step for each turn; the application makes no other call   *)
(* meanwhile.  Undefined behaviour ends a behaviour of the model.          *)
(***************************************************************************)
EXTENDS TransportProperties, Endpoint

CONSTANTS
    Directories,    \* possible results of tapsUpdateProtocols: sequences of
                    \* ability sets, <<>> also when it fails
    MaxCandidates,  \* TAPS_MAX_PROTOCOL_CANDIDATES
    StaleCounts,    \* values numProtocols may start with
    NoListener

ASSUME PreconnectionAssumption ==
    /\ Directories \subseteq Seq(SUBSET Abilities)
    /\ MaxCandidates \in Nat \ {0}
    /\ StaleCounts \subseteq Int

VARIABLES
    pc,             \* the object: "none", "new" (in tapsPreconnectionNew),
                    \*   "live", "freeing" (in its Free) or "freed"
    numLocal,
    directory,      \* what tapsUpdateProtocols returned to its New
    scan,           \* the entry of it that the loop of New is at
    table,          \* pc->protocol: the entry in each slot, or Garbage
    numProtocols,
    frees,          \* how often the strings of each entry were freed
    listener,       \* what tapsListenerNew was given, or NoListener
    fault,          \* "none", or what ended the behaviour: a write outside
                    \*   the table ("overrun"), the use of a slot nobody
                    \*   filled ("garbage") or a copy from NULL ("null")
    stale,          \* history: what numProtocols started with
    askedThen,      \* history: asked when New was called
    atListen        \* history: the endpoint and asked at Listen

tableVars == <<directory, scan, table, numProtocols, frees, stale, askedThen>>
pcVars    == <<pc, numLocal, tableVars>>
vars      == <<tpVars, epVars, pcVars, listener, atListen, fault>>

Garbage == 0
Entries == 1 .. Len(directory)
Slots   == 0 .. MaxCandidates - 1
InUse   == {k \in Slots : k < numProtocols}

(* Every variable holds a value of the type the code gives it.  The int    *)
(* numProtocols may be anything.                                           *)
TypeOK ==
    /\ TpTypeOK
    /\ EpTypeOK
    /\ pc \in {"none", "new", "live", "freeing", "freed"}
    /\ numLocal \in {0, 1}
    /\ directory \in Directories \cup {<<>>}
    /\ scan \in 1 .. Len(directory) + 1
    /\ table \in [Slots -> Entries \cup {Garbage}]
    /\ numProtocols \in Int
    /\ frees \in [Entries -> Nat]
    /\ fault \in {"none", "overrun", "garbage", "null"}
    /\ stale \in Int
    /\ askedThen \in [Abilities -> Preferences]
    /\ listener # NoListener => listener.proto \in Entries

Init ==
    /\ TpInit
    /\ EpInit
    /\ pc = "none"
    /\ numLocal = 0
    /\ directory = <<>>
    /\ scan = 1
    /\ table = [k \in Slots |-> Garbage]
    /\ numProtocols = 0
    /\ frees = <<>>
    /\ listener = NoListener
    /\ fault = "none"
    /\ stale = 0
    /\ askedThen = asked
    /\ atListen = NoListener

-----------------------------------------------------------------------------
(* Choosing the protocols *)

(* Faulty variant: one required ability is enough.                         *)
MutMatches(abilities) ==
    /\ abilities \cap prohibit = {}
    /\ abilities \cap require # {}

Matches(abilities) ==
    /\ abilities \cap prohibit = {}
    /\ require \subseteq abilities

(* Faulty variant: room for one more.                                      *)
MutFull == numProtocols = MaxCandidates + 1

Full == numProtocols = MaxCandidates

(* tapsPreconnectionNew up to its loop.                                    *)
tapsPreconnectionNew(locals, dir, count) ==
    /\ tp = "live"
    /\ pc \in {"none", "freed"} /\ listener = NoListener
    /\ locals = 1 => ep = "live"
    /\ pc' = "new"
    /\ numLocal' = locals
    /\ directory' = dir
    /\ scan' = 1
    /\ table' = [k \in Slots |-> Garbage]
    /\ numProtocols' = count
    /\ frees' = [i \in 1 .. Len(dir) |-> 0]
    /\ stale' = count
    /\ askedThen' = asked
    /\ UNCHANGED <<tpVars, epVars, listener, atListen, fault>>

(* Faulty variant: the strings of a match that a full table has no room    *)
(* for are not freed.                                                      *)
MutDropEntry ==
    /\ ~Matches(directory[scan]) \/ Full
    /\ frees' = [frees EXCEPT ![scan] = @ + (IF Full THEN 0 ELSE 1)]
    /\ scan' = scan + 1
    /\ UNCHANGED <<table, numProtocols, fault>>

(* An entry that does not match, or finds the table full: its strings are  *)
(* freed.                                                                  *)
DropEntry ==
    /\ ~Matches(directory[scan]) \/ Full
    /\ frees' = [frees EXCEPT ![scan] = @ + 1]
    /\ scan' = scan + 1
    /\ UNCHANGED <<table, numProtocols, fault>>

(* Any other is copied to where numProtocols says.  The test for a full    *)
(* table does not notice a count that started beyond its end or below 0.   *)
KeepEntry ==
    /\ Matches(directory[scan]) /\ ~Full
    /\ \/ /\ numProtocols \in Slots
          /\ table' = [table EXCEPT ![numProtocols] = scan]
          /\ numProtocols' = numProtocols + 1
          /\ scan' = scan + 1
          /\ UNCHANGED fault
       \/ /\ numProtocols \notin Slots
          /\ fault' = "overrun"
          /\ UNCHANGED <<table, numProtocols, scan>>
    /\ UNCHANGED frees

(* One turn of the loop.                                                   *)
NewEntry ==
    /\ pc = "new"
    /\ scan <= Len(directory)
    /\ DropEntry \/ KeepEntry
    /\ UNCHANGED <<tpVars, epVars, pc, numLocal, directory, stale>>
    /\ UNCHANGED <<askedThen, listener, atListen>>

(* With nothing in the table New frees the object, which then has no       *)
(* strings to free, and fails.                                             *)
NewReturns ==
    /\ pc = "new"
    /\ scan > Len(directory)
    /\ pc' = IF numProtocols = 0 THEN "none" ELSE "live"
    /\ UNCHANGED <<tpVars, epVars, numLocal, tableVars>>
    /\ UNCHANGED <<listener, atListen, fault>>

-----------------------------------------------------------------------------
(* Listening *)

htons(p) == (p % 256) * 256 + p \div 256

(* Faulty variant: the port stays in host byte order.                      *)
MutLocalAddress ==
    LET family == IF HasAddress("ipv6") THEN "ipv6" ELSE "ipv4"
    IN tapsEndpointGetAddress(family)

(* The IPv6 address if there is one, else the IPv4 address, and the port   *)
(* in network byte order.                                                  *)
LocalAddress ==
    LET family == IF HasAddress("ipv6") THEN "ipv6" ELSE "ipv4"
    IN [tapsEndpointGetAddress(family) EXCEPT !.port = htons(@)]

(* The first entry of the table goes to tapsListenerNew (TapsListener); a  *)
(* call that fails or is refused changes nothing here.  A garbage libpath  *)
(* makes it fail or crash.  The application has not freed the endpoint:    *)
(* taps.h warns that this is likely to segfault.  It starts one listener.  *)
tapsPreconnectionListen ==
    /\ pc = "live" /\ listener = NoListener
    /\ numLocal = 1 /\ ep = "live"
    /\ HasAddress("ipv6") \/ HasAddress("ipv4")
    /\ LocalAddress.port # 0
    /\ \/ /\ table[0] # Garbage
          /\ listener' = [proto |-> table[0], address |-> LocalAddress]
          /\ atListen' = [port |-> port, ipv4 |-> ipv4, ipv6 |-> ipv6,
                          asked |-> asked]
          /\ UNCHANGED fault
       \/ /\ table[0] = Garbage
          /\ fault' = "garbage"
          /\ UNCHANGED <<listener, atListen>>
    /\ UNCHANGED <<tpVars, epVars, pcVars>>

tapsPreconnectionFree ==
    /\ pc = "live"
    /\ pc' = "freeing"
    /\ UNCHANGED <<tpVars, epVars, numLocal, tableVars>>
    /\ UNCHANGED <<listener, atListen, fault>>

(* One turn of the loop of tapsPreconnectionFree: the last slot counted.   *)
(* Pointers nobody wrote may be NULL or make free crash; a negative count  *)
(* takes the loop down through memory until it does.                       *)
FreeEntry ==
    /\ pc = "freeing"
    /\ numProtocols # 0
    /\ LET k == numProtocols - 1
           filled == k \in Slots /\ table[k] # Garbage
       IN \/ /\ filled
             /\ frees' = [frees EXCEPT ![table[k]] = @ + 1]
             /\ numProtocols' = k
             /\ UNCHANGED fault
          \/ /\ ~filled /\ k >= 0
             /\ numProtocols' = k
             /\ UNCHANGED <<frees, fault>>
          \/ /\ ~filled
             /\ fault' = "garbage"
             /\ UNCHANGED <<frees, numProtocols>>
    /\ UNCHANGED <<tpVars, epVars, pc, numLocal, directory, scan, table>>
    /\ UNCHANGED <<stale, askedThen, listener, atListen>>

FreeReturns ==
    /\ pc = "freeing"
    /\ numProtocols = 0
    /\ pc' = "freed"
    /\ UNCHANGED <<tpVars, epVars, numLocal, tableVars>>
    /\ UNCHANGED <<listener, atListen, fault>>

-----------------------------------------------------------------------------
(* The application *)

Properties ==
    /\ \/ \E type \in {"listener", "initiate", "rendezvous"} :
             tapsTransportPropertiesNew(type)
       \/ \E p \in Settable, x \in Preferences :
             tapsTransportPropertiesSet(p, x)
       \/ \E x \in Multipaths : tapsTransportPropertiesSetMultipath(x)
       \/ \E x \in Directions : tapsTransportPropertiesSetDirection(x)
       \/ \E x \in BOOLEAN : tapsTransportPropertiesSetAdvertises_altaddr(x)
       \/ \E i \in Interfaces \cup {NoSuchInterface}, x \in Preferences :
             tapsTransportPropertiesSetInterface(i, x)
       \/ tapsTransportPropertiesFree
    /\ UNCHANGED <<epVars, pcVars, listener, atListen, fault>>

Endpoints ==
    /\ \/ tapsEndpointNew
       \/ \E p \in Ports : tapsEndpointWithPort(p)
       \/ \E a \in IPv4s : tapsEndpointWithIPv4Address(a)
       \/ \E a \in IPv6s : tapsEndpointWithIPv6Address(a)
       \/ \E f \in StringFields : tapsEndpointWithString(f)
       \/ tapsEndpointFree
    /\ UNCHANGED <<tpVars, pcVars, listener, atListen, fault>>

tapsEndpointGetProperty(name) ==
    /\ ep = "live"
    /\ GetPropertyCrashes(name)
    /\ fault' = "null"
    /\ UNCHANGED <<tpVars, epVars, pcVars, listener, atListen>>

(* Calls the application makes when it is in none.                         *)
Application ==
    /\ pc \notin {"new", "freeing"}
    /\ \/ Properties
       \/ Endpoints
       \/ \E f \in StringNames : tapsEndpointGetProperty(f)
       \/ \E locals \in {0, 1}, dir \in Directories, count \in StaleCounts :
             tapsPreconnectionNew(locals, dir, count)
       \/ tapsPreconnectionListen
       \/ tapsPreconnectionFree

Next ==
    /\ fault = "none"
    /\ \/ Application
       \/ NewEntry
       \/ NewReturns
       \/ FreeEntry
       \/ FreeReturns

Spec == Init /\ [][Next]_vars

-----------------------------------------------------------------------------
(* Properties *)

(* Each ability is in exactly the vector of the preference the application *)
(* asked for last, whichever setters it called in which order: no earlier  *)
(* preference stays behind in another vector                               *)
(* (tapsTransportPropertiesSet and the typed setters).                     *)
PreferenceHonoured ==
    tp # "none" =>
    \A p \in Abilities :
        /\ p \in require <=> asked[p] = "require"
        /\ p \in prefer <=> asked[p] = "prefer"
        /\ p \in avoid <=> asked[p] = "avoid"
        /\ p \in prohibit <=> asked[p] = "prohibit"

(* The application's preferences a allow entry i.                          *)
Allowed(a, i) ==
    \A p \in Abilities :
        /\ a[p] = "require" => p \in directory[i]
        /\ a[p] = "prohibit" => p \notin directory[i]

(* What the application wanted of a protocol when it called New.           *)
Wanted(i) == Allowed(askedThen, i)

(* The loop of New is past entry i.                                        *)
Passed(i) == pc = "new" => i < scan

HeldBy(i) == {k \in InUse : table[k] = i}

(* A preconnection keeps only protocols with every ability the application *)
(* had asked to require when it called New and none it had asked to        *)
(* prohibit, in the order of the directory; it passes over one only when   *)
(* the table is full of earlier ones; and so New fails only when there is  *)
(* none (the loop of tapsPreconnectionNew).                                *)
CandidatesMatch ==
    /\ \A k \in InUse : table[k] # Garbage => Wanted(table[k])
    /\ \A j, k \in InUse : j < k /\ table[j] # Garbage => table[j] < table[k]
    /\ pc \notin {"freeing", "freed"} =>
       \A i \in Entries :
            Passed(i) /\ Wanted(i) /\ HeldBy(i) = {} =>
                /\ numProtocols = MaxCandidates
                /\ \A k \in InUse : table[k] < i

(* The strings of each protocol that tapsUpdateProtocols returned are in   *)
(* one slot of the table and not freed, or in none and freed once: neither *)
(* an entry that does not match, nor one a full table has no room for, nor *)
(* a failing New leaks or frees twice, and tapsPreconnectionFree takes     *)
(* over exactly the rest, also when numProtocols did not start with 0.     *)
(* Entries that the directory scan itself drops are not among them.        *)
StringsFreedOnce ==
    \A i \in Entries :
        Passed(i) =>
            \/ frees[i] = 1 /\ HeldBy(i) = {}
            \/ frees[i] = 0 /\ \E k \in InUse : HeldBy(i) = {k}

(* The table is overrun only when the uninitialised numProtocols started   *)
(* outside it, and Listen and Free use a slot that nobody filled only when *)
(* it did not start with 0: the loops themselves stay within what they     *)
(* filled.                                                                 *)
OnlyStaleFaults ==
    /\ fault = "overrun" => stale \notin 0 .. MaxCandidates
    /\ fault = "garbage" => stale # 0

(* A listener listens where the endpoint pointed when Listen was called,   *)
(* fields attached after New included: at its port, which is not 0, and at *)
(* its IPv6 address or else its IPv4 address; and on the first protocol of *)
(* the directory that was wanted when New was called                       *)
(* (tapsPreconnectionListen).                                              *)
ListensAsAsked ==
    listener # NoListener =>
        /\ htons(listener.address.port) = atListen.port
        /\ atListen.port # 0
        /\ listener.address.addr =
              IF atListen.ipv6 # Unset THEN atListen.ipv6 ELSE atListen.ipv4
        /\ listener.address.addr # Unset
        /\ Wanted(listener.proto)
        /\ \A i \in Entries : Wanted(i) => listener.proto <= i

(* taps.h: "Calling tapsPreconnectionNew does not freeze the contents of   *)
(* the endpoint and property objects.  This data is not frozen until the   *)
(* connection begins": the protocol has what the application asked for     *)
(* when it called Listen.  New has already chosen by then: the run         *)
(* frozen_early shows that the code does not keep this.                    *)
FrozenAtListen ==
    listener # NoListener => Allowed(atListen.asked, listener.proto)
=============================================================================
