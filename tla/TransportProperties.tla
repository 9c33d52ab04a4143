------------------------ MODULE TransportProperties ------------------------
(***************************************************************************)
(* src/src/taps_transport_properties.c: the preferences an application     *)
(* states before it connects or listens.  A bit vector of 16 abilities is  *)
(* the set of the abilities whose bit is set.                              *)
(*                                                                         *)
(* The module declares the state of one object and the effect of each      *)
(* call; Preconnection extends it.                                         *)
(***************************************************************************)
EXTENDS Integers, Sequences

CONSTANTS
    Settable,       \* names the application gives tapsTransportPropertiesSet
    Multipaths,     \* values it gives tapsTransportPropertiesSetMultipath
    Directions,     \* and tapsTransportPropertiesSetDirection
    Interfaces,     \* interfaces with an IP address
    NoSuchInterface,\* a name that is not one of them
    MaxSets         \* bound: setter calls

Abilities ==
    {"reliability", "preserveMsgBoundaries", "perMsgReliability",
     "preserveOrder", "zeroRttMsg", "multistreaming", "FullChecksumSend",
     "FullChecksumRecv", "congestionControl", "keepAlive",
     "useTemporaryLocalAddress", "multipath", "advertises_altaddr",
     "direction", "softErrorNotify", "activeReadBeforeSend"}

(* taps.h does not list these as names for tapsTransportPropertiesSet:     *)
(* they have setters of their own.                                         *)
TypedAbilities == {"multipath", "advertises_altaddr", "direction"}

Preferences == {"require", "prefer", "ignore", "avoid", "prohibit"}

ASSUME PropertiesAssumption ==
    /\ Settable \subseteq Abilities \ TypedAbilities
    /\ Multipaths \subseteq {"disabled", "active", "passive"}
    /\ Directions \subseteq {"bidir", "send", "recv"}
    /\ NoSuchInterface \notin Interfaces
    /\ MaxSets \in Nat

VARIABLES
    tp,             \* the object: "none", "live" or "freed"
    require, prefer, avoid, prohibit, explicitlySet,
    multipath, direction, advertises_altaddr,
    interfaces,     \* "null", or the list of getifaddrs is "held"
    ifPreference,   \* the preference written into each interface of it
    sets,           \* setter calls so far
    asked           \* history: the preference asked for last, or the default

vectors == <<require, prefer, avoid, prohibit, explicitlySet>>
typed   == <<multipath, direction, advertises_altaddr>>
ifVars  == <<interfaces, ifPreference>>
tpVars  == <<tp, vectors, typed, ifVars, sets, asked>>

TpTypeOK ==
    /\ tp \in {"none", "live", "freed"}
    /\ \A v \in {require, prefer, avoid, prohibit, explicitlySet} :
         v \subseteq Abilities
    /\ multipath \in {"disabled", "active", "passive"}
    /\ direction \in {"bidir", "send", "recv"}
    /\ advertises_altaddr \in BOOLEAN
    /\ interfaces \in {"null", "held"}
    /\ ifPreference \in [Interfaces -> Preferences]
    /\ sets \in 0 .. MaxSets
    /\ asked \in [Abilities -> Preferences]

TpInit ==
    /\ tp = "none"
    /\ require = {} /\ prefer = {} /\ avoid = {} /\ prohibit = {}
    /\ explicitlySet = {}
    /\ multipath = "disabled" /\ direction = "bidir"
    /\ advertises_altaddr = FALSE
    /\ interfaces = "null"
    /\ ifPreference = [i \in Interfaces |-> "ignore"]
    /\ sets = 0
    /\ asked = [p \in Abilities |-> "ignore"]

(* tapsTransportPropertiesNew: the defaults of the connection type.        *)
tapsTransportPropertiesNew(type) ==
    /\ tp = "none"
    /\ tp' = "live"
    /\ require' = {"reliability", "preserveOrder", "FullChecksumSend",
                   "FullChecksumRecv", "congestionControl"}
    /\ prefer' = {"multistreaming"}
            \cup {p \in {"multipath"} : type = "listener"}
            \cup {p \in {"useTemporaryLocalAddress"} : type = "initiate"}
    /\ avoid' = IF type = "initiate" THEN {} ELSE {"useTemporaryLocalAddress"}
    /\ multipath' = IF type = "listener" THEN "passive" ELSE "disabled"
    /\ asked' = [p \in Abilities |-> IF p \in require' THEN "require"
                                     ELSE IF p \in prefer' THEN "prefer"
                                     ELSE IF p \in avoid' THEN "avoid"
                                     ELSE "ignore"]
    /\ UNCHANGED <<prohibit, explicitlySet, direction, advertises_altaddr>>
    /\ UNCHANGED <<ifVars, sets>>

-----------------------------------------------------------------------------
(* The setters *)

Put(vector, p, on) == IF on THEN vector \cup {p} ELSE vector \ {p}

Setting ==
    /\ tp = "live"
    /\ sets < MaxSets
    /\ sets' = sets + 1
    /\ UNCHANGED tp

(* Faulty variant: the bit is set without being cleared elsewhere.         *)
MutSet(p, preference) ==
    /\ require' = Put(require, p, preference = "require" \/ p \in require)
    /\ prefer' = Put(prefer, p, preference = "prefer")
    /\ avoid' = Put(avoid, p, preference = "avoid")
    /\ prohibit' = Put(prohibit, p, preference = "prohibit")
    /\ explicitlySet' = explicitlySet \cup {p}

(* The bit of p, cleared everywhere and set in one vector.                 *)
SetVectors(p, preference) ==
    /\ require' = Put(require, p, preference = "require")
    /\ prefer' = Put(prefer, p, preference = "prefer")
    /\ avoid' = Put(avoid, p, preference = "avoid")
    /\ prohibit' = Put(prohibit, p, preference = "prohibit")
    /\ explicitlySet' = explicitlySet \cup {p}

tapsTransportPropertiesSet(p, preference) ==
    /\ Setting
    /\ SetVectors(p, preference)
    /\ asked' = [asked EXCEPT ![p] = preference]
    /\ UNCHANGED <<typed, ifVars>>

(* The typed setters state p as preferred or not, and touch no vector but  *)
(* prefer.                                                                 *)
Prefer(p, on) ==
    /\ Setting
    /\ prefer' = Put(prefer, p, on)
    /\ explicitlySet' = explicitlySet \cup {p}
    /\ asked' = [asked EXCEPT ![p] = IF on THEN "prefer" ELSE "ignore"]
    /\ UNCHANGED <<require, avoid, prohibit, ifVars>>

tapsTransportPropertiesSetMultipath(value) ==
    /\ Prefer("multipath", value # "disabled")
    /\ multipath' = value
    /\ UNCHANGED <<direction, advertises_altaddr>>

tapsTransportPropertiesSetDirection(value) ==
    /\ Prefer("direction", value # "bidir")
    /\ direction' = value
    /\ UNCHANGED <<multipath, advertises_altaddr>>

tapsTransportPropertiesSetAdvertises_altaddr(value) ==
    /\ Prefer("advertises_altaddr", value)
    /\ advertises_altaddr' = value
    /\ UNCHANGED <<multipath, direction>>

(* Faulty variant: a name that no interface has gets an entry.             *)
MutSetInterface(name, preference) ==
    /\ Setting
    /\ interfaces' = "held"
    /\ ifPreference' = [i \in Interfaces \cup {name} |->
          IF i = name THEN preference ELSE ifPreference[i]]
    /\ UNCHANGED <<vectors, typed, asked>>

(* The first preference that is not "ignore" fetches the interfaces, which *)
(* may fail.  Every entry of that name gets the preference.                *)
tapsTransportPropertiesSetInterface(name, preference) ==
    /\ Setting
    /\ \/ /\ interfaces = "held" \/ preference # "ignore"
          /\ interfaces' = "held"
          /\ ifPreference' = [i \in Interfaces |->
                IF i = name THEN preference ELSE ifPreference[i]]
       \/ /\ interfaces = "null"
          /\ UNCHANGED ifVars
    /\ UNCHANGED <<vectors, typed, asked>>

tapsTransportPropertiesFree ==
    /\ tp = "live"
    /\ tp' = "freed"
    /\ interfaces' = "null"
    /\ UNCHANGED <<vectors, typed, ifPreference, sets, asked>>
=============================================================================
