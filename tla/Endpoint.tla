------------------------------ MODULE Endpoint ------------------------------
(***************************************************************************)
(* src/src/taps_endpoint.c: one endpoint, whose fields are attached one by *)
(* one and each at most once.  An attachment that is refused (the field is *)
(* taken, the text is no address, strdup fails) changes nothing and is no  *)
(* step.  Aliases and the STUN server are not modelled.                    *)
(*                                                                         *)
(* The module declares the state of one object and the effect of each      *)
(* call; Preconnection extends it.                                         *)
(***************************************************************************)
EXTENDS Integers

CONSTANTS
    Ports,          \* ports the application attaches
    IPv4s, IPv6s,   \* addresses it attaches
    StringFields,   \* string fields it attaches
    Unset           \* a field whose has_ bit is clear

StringNames == {"hostname", "service", "protocol", "interface"}

ASSUME EndpointAssumption ==
    /\ \A p \in Ports : p \in Nat /\ p < 65536
    /\ StringFields \subseteq StringNames
    /\ Unset \notin Ports
    /\ Unset \notin IPv4s
    /\ Unset \notin IPv6s

VARIABLES
    ep,             \* the object: "none", "live" or "freed"
    port, ipv4, ipv6,
    strings         \* the string fields whose has_ bit is set

epVars == <<ep, port, ipv4, ipv6, strings>>

EpTypeOK ==
    /\ ep \in {"none", "live", "freed"}
    /\ port \in Ports \cup {Unset}
    /\ ipv4 \in IPv4s \cup {Unset}
    /\ ipv6 \in IPv6s \cup {Unset}
    /\ strings \subseteq StringFields

EpInit ==
    /\ ep = "none"
    /\ port = Unset /\ ipv4 = Unset /\ ipv6 = Unset
    /\ strings = {}

tapsEndpointNew ==
    /\ ep = "none"
    /\ ep' = "live"
    /\ UNCHANGED <<port, ipv4, ipv6, strings>>

tapsEndpointWithPort(p) ==
    /\ ep = "live"
    /\ port = Unset
    /\ port' = p
    /\ UNCHANGED <<ep, ipv4, ipv6, strings>>

tapsEndpointWithIPv4Address(a) ==
    /\ ep = "live"
    /\ ipv4 = Unset
    /\ ipv4' = a
    /\ UNCHANGED <<ep, port, ipv6, strings>>

tapsEndpointWithIPv6Address(a) ==
    /\ ep = "live"
    /\ ipv6 = Unset
    /\ ipv6' = a
    /\ UNCHANGED <<ep, port, ipv4, strings>>

(* tapsEndpointWithHostname, WithService, WithInterface, WithProtocol.     *)
tapsEndpointWithString(f) ==
    /\ ep = "live"
    /\ f \notin strings
    /\ strings' = strings \cup {f}
    /\ UNCHANGED <<ep, port, ipv4, ipv6>>

(* tapsEndpointGetProperty changes nothing; asked for the interface it     *)
(* tests has_service and copies from NULL when there is no interface.      *)
GetPropertyCrashes(name) ==
    /\ name = "interface"
    /\ "service" \in strings
    /\ "interface" \notin strings

(* tapsEndpointGetAddress: the port in host byte order, 0 if there is      *)
(* none.  It fails when HasAddress does not hold.                          *)
HasAddress(family) == (IF family = "ipv6" THEN ipv6 ELSE ipv4) # Unset

tapsEndpointGetAddress(family) ==
    [family |-> family,
     addr   |-> IF family = "ipv6" THEN ipv6 ELSE ipv4,
     port   |-> IF port = Unset THEN 0 ELSE port]

tapsEndpointFree ==
    /\ ep = "live"
    /\ ep' = "freed"
    /\ UNCHANGED <<port, ipv4, ipv6, strings>>
=============================================================================
