------------------------------ MODULE IPFilter ------------------------------
(***************************************************************************)
(* The filter every HTTP request passes first (handler/ipfilter.go:24-70). *)
(* It reads two settings, one after the other, and lets the request        *)
(* through when a read fails.  A list of subnets is the set of addresses   *)
(* in it.                                                                  *)
(***************************************************************************)
EXTENDS Settings

CONSTANTS
    Addresses,          \* where requests come from
    IPv6                \* those that are IPv6 addresses

ASSUME AddressAssumption == IPv6 \subseteq Addresses

PassesIPv6(table, ip) == ~(table["disable_ipv6"] = TRUE /\ ip \in IPv6)

\* A blank list restricts nobody.
PassesSubnets(table, ip) ==
    table["allowed_subnets"] = Blank \/ ip \in table["allowed_subnets"]

\* What a filter that is stored as a whole says of an address.
Admits(table, ip) == PassesIPv6(table, ip) /\ PassesSubnets(table, ip)
=============================================================================
