---------------------------- MODULE RouteOption ----------------------------
(***************************************************************************)
(* Classless routes from the configuration to the log: parse_route accepts *)
(* them one by one at startup, and reply writes them into option 121, as   *)
(* many times as its length needs.  Who follows RFC 3396, as Packet::parse *)
(* does, joins these before they are read; the dump of the packet reads    *)
(* each by itself (classless_routes of dhcp.rs), and so it reads what      *)
(* other hosts have put into such an option.                               *)
(*                                                                         *)
(* An octet has OctetBits bits; an address has Octets of them.             *)
(***************************************************************************)
EXTENDS Subnet, SequencesExt

CONSTANTS
  OctetBits,
  Gateway,      \* gateways of clients
  MaxRoutes,    \* a bound on the configured routes, for TLC
  MaxForeign    \* a bound on the octets of a foreign option, for TLC

ASSUME RouteOptionAssumption ==
  /\ OctetBits \in 1 .. Width /\ Width % OctetBits = 0
  /\ 2^OctetBits > Width          \* an octet holds a prefix
  /\ Gateway \subseteq Address
  /\ MaxForeign \in 0 .. 2^OctetBits - 1

Octets == Width \div OctetBits
MaxChunk == 2^OctetBits - 1   \* the greatest length an octet holds
RouteOctet == 0 .. MaxChunk

VARIABLES
  routes,   \* client_options.classless_routes, as far as they are validated
  chunks,   \* the options 121 of the answer, one chunk in each
  value,    \* what is read, as one option 121
  stage,
  position, \* where classless_routes stands in it, from 0
  shown     \* the routes it has read

routeVars == <<routes, chunks, value, stage, position, shown>>

Route == [network : Address, prefix : 0 .. Width]

\* The server's own options, or one of another host.
RouteInit ==
  /\ routes = <<>> /\ chunks = <<>> /\ position = 0 /\ shown = <<>>
  /\ \/ stage = "config" /\ value = <<>>
     \/ stage = "dump" /\ \E n \in 0 .. MaxForeign : value \in [1..n -> RouteOctet]

-----------------------------------------------------------------------------
AnyPrefix(r) == r.prefix \in 1 .. Width

parse_route(r) ==
  /\ r.prefix \in 1 .. Width
  /\ And(r.network, Complement(prefix_mask(r.prefix))) = 0

Validate(r) ==
  /\ stage = "config" /\ Len(routes) < MaxRoutes
  /\ IF parse_route(r) THEN routes' = Append(routes, r) /\ UNCHANGED stage
     ELSE stage' = "refused" /\ UNCHANGED routes
  /\ UNCHANGED <<chunks, value, position, shown>>

-----------------------------------------------------------------------------
octets(ip) == [i \in 1..Octets |-> (ip \div 2^(Width - i * OctetBits)) % 2^OctetBits]
FromOctets(s) ==
  LET from[i \in 0 .. Len(s)] == IF i = 0 THEN 0 ELSE from[i - 1] * 2^OctetBits + s[i]
  IN from[Len(s)]

\* As many whole octets as hold the prefix (div_ceil).
Significant(prefix) == (prefix + OctetBits - 1) \div OctetBits

Encoded(r, gateway) ==
  <<r.prefix>> \o SubSeq(octets(r.network), 1, Significant(r.prefix)) \o octets(gateway)

\* option: a value is cut wherever an octet can count no further.
Chunks(s) ==
  [k \in 1 .. (Len(s) + MaxChunk - 1) \div MaxChunk |->
     SubSeq(s, (k - 1) * MaxChunk + 1, IF k * MaxChunk <= Len(s) THEN k * MaxChunk ELSE Len(s))]

WriteOption(gateway) ==
  /\ stage = "config" /\ routes # <<>>
  /\ chunks' = Chunks(FlattenSeq([i \in DOMAIN routes |-> Encoded(routes[i], gateway)]))
  /\ stage' = "sent"
  /\ UNCHANGED <<routes, value, position, shown>>

\* The client appends what comes under one code; the dump takes one at a time.
JoinChunks ==
  /\ stage = "sent"
  /\ value' = FlattenSeq(chunks)
  /\ stage' = "dump"
  /\ UNCHANGED <<routes, chunks, position, shown>>

DumpChunk ==
  /\ stage = "sent"
  /\ \E i \in DOMAIN chunks : value' = chunks[i]
  /\ stage' = "dump"
  /\ UNCHANGED <<routes, chunks, position, shown>>

-----------------------------------------------------------------------------
\* The option is a sequence of prefix, significant octets and gateway.
Prefix == value[position + 1]
NetworkLen == Significant(Prefix)
Left == Len(value) - position - 1

\* The network is copied into an array of the octets of an address.  A slice that
\* ends behind that, or behind the value, would panic.
InArray(n) == n <= Octets
InValue(n) == position + 1 + n <= Len(value)

MayRead == stage = "dump" /\ position < Len(value)

Enough == Left >= NetworkLen + Octets
AnyOctet == Prefix <= MaxChunk
Valid == Prefix <= Width

Overlong ==
  /\ MayRead
  /\ ~Valid \/ ~Enough
  /\ stage' = "printable"
  /\ shown' = <<>>
  /\ UNCHANGED <<routes, chunks, value, position>>

ReadRoute ==
  /\ MayRead
  /\ Valid /\ Enough
  /\ IF ~InArray(NetworkLen) \/ ~InValue(NetworkLen + Octets)
       THEN stage' = "panic" /\ UNCHANGED <<position, shown>>
     ELSE LET from == position + 2
              network == SubSeq(value, from, from + NetworkLen - 1)
                           \o [i \in 1 .. Octets - NetworkLen |-> 0]
              gateway == SubSeq(value, from + NetworkLen, from + NetworkLen + Octets - 1)
          IN /\ shown' = Append(shown, [network |-> FromOctets(network), prefix |-> Prefix,
                                        gateway |-> FromOctets(gateway)])
             /\ position' = position + 1 + NetworkLen + Octets
             /\ UNCHANGED stage
  /\ UNCHANGED <<routes, chunks, value>>

Dumped ==
  /\ stage = "dump" /\ position = Len(value)
  /\ stage' = "dumped"
  /\ UNCHANGED <<routes, chunks, value, position, shown>>

RouteNext ==
  \/ \E r \in Route : Validate(r)
  \/ \E gateway \in Gateway : WriteOption(gateway)
  \/ JoinChunks \/ DumpChunk
  \/ Overlong \/ ReadRoute \/ Dumped

RouteSpec == RouteInit /\ [][RouteNext]_routeVars

-----------------------------------------------------------------------------
\* Every configured route reaches who joins the options, as it was meant: neither the
\* octets that are left out, nor the routes before it, nor where the options were cut
\* change it, and it goes to the gateway of the client; and each option is one that
\* the octet of its length can count (parse_route, reply, option, classless_routes).
RoutesArrive ==
  stage \in {"dumped", "printable"} /\ routes # <<>> =>
    /\ \A i \in DOMAIN chunks : Len(chunks[i]) \in 1 .. MaxChunk
    /\ value = FlattenSeq(chunks) =>
         /\ stage = "dumped"
         /\ \E gateway \in Gateway :
              shown = [i \in DOMAIN routes |-> [network |-> routes[i].network,
                         prefix |-> routes[i].prefix, gateway |-> gateway]]

\* Whatever octets are in an option, nothing is sliced behind its end or that of an
\* address, and routes are shown only if they are, written down again, these octets:
\* none is skipped or read twice, and none taken from where there is only a part of
\* it (the checks of classless_routes against its copy_from_slice and slices).
ShownAsSent ==
  /\ stage # "panic"
  /\ stage = "dumped" =>
       FlattenSeq([i \in DOMAIN shown |-> Encoded(shown[i], shown[i].gateway)]) = value
=============================================================================
