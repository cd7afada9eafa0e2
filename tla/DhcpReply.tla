----------------------------- MODULE DhcpReply -----------------------------
(***************************************************************************)
(* What the server answers to one packet: Packet::stage, route_mode,       *)
(* boot_mode_mismatch and reply of dhcp.rs, which keep no state.           *)
(*                                                                         *)
(* Abstractions.  A packet is what Packet::parse leaves of it: its type,   *)
(* its addresses, and of each option whether it is there and what the      *)
(* decision tells apart.  None is an option that is absent, or an address  *)
(* field of zero.  "arch" is the first architecture of option 93 that      *)
(* stage knows, "vendorArch" that of the Arch: part of the vendor class.   *)
(* "room" is what the client's maximum message size leaves room for;       *)
(* ReplySize has the arithmetic.  The parameters that every OFFER and ACK  *)
(* carries (mask, names, MTU, DNS, NTP) are left out: no choice is made.   *)
(***************************************************************************)
CONSTANTS
  Address,      \* addresses a client may have, or name
  Relay,        \* addresses of relays
  ThisServer,   \* the server identifier of this server
  OtherServer,  \* that of another one
  Unusable,     \* an unspecified, broadcast or multicast address
  None,
  File,         \* boot files
  Files         \* config.boot.architectures: the files of each machine

Machine == {"x86_64", "arm64"}

ASSUME DhcpReplyAssumption ==
  /\ None \notin Address \cup Relay \cup File \cup {ThisServer, OtherServer, Unusable, "broadcast"}
  /\ ThisServer # OtherServer /\ Unusable \notin {ThisServer, OtherServer}
  /\ Files \in [Machine -> [bios : File \cup {None}, uefi : File \cup {None},
                            ipxe : File \cup {None}]]

\* The architecture types stage knows, as the mode and machine they stand for.
Arch == {<<"bios", "x86_64">>, <<"uefi", "x86_64">>, <<"uefi", "arm64">>}
Unknown == <<"unknown", "unknown">>

Packet ==
  [message : {"discover", "request", "decline", "release", "inform"},
   ciaddr : Address \cup {None},
   giaddr : Relay \cup {None},
   broadcast : BOOLEAN,
   requested : Address \cup {None},                      \* option 50
   server : {ThisServer, OtherServer, None},             \* option 54
   ipxe : BOOLEAN,                                       \* option 77 names iPXE
   pxe : BOOLEAN,                                        \* option 60 begins PXEClient
   arch : Arch \cup {None},
   vendorArch : Arch \cup {None},
   wantsRoutes : BOOLEAN,                                \* option 55 lists 121
   relayInfo : BOOLEAN,                                  \* option 82
   room : {"all", "noRelayInfo", "none"}]

Client == [ip : Address, bootType : {"bios", "uefi"}]

Reply ==
  [message : {"offer", "ack", "nak"},
   yiaddr : Address \cup {None}, ciaddr : Address \cup {None},
   broadcast : BOOLEAN,
   lease : BOOLEAN,                                      \* options 51, 58, 59
   routes : {"none", "default", "classless"},            \* option 3, or 121
   bootFile : File \cup {None},
   relayInfo : {"none", "echoed", "omitted"},
   to : Address \cup Relay \cup {"broadcast"}]

-----------------------------------------------------------------------------
\* Packet::stage: where in its boot the client is, and on what machine.
stage(p) ==
  LET detected == IF p.arch # None THEN p.arch
                  ELSE IF p.vendorArch # None THEN p.vendorArch ELSE Unknown
  IN  IF p.ipxe THEN <<"ipxe", detected[2]>>
      ELSE IF p.pxe \/ p.arch # None THEN detected
      ELSE <<"os", "unknown">>

Firmware == {"bios", "uefi"}

RoutesAsAsked(p) == IF p.wantsRoutes THEN "classless" ELSE "default"

\* Firmware gets the default route also when it asks for option 121.
route_mode(p) ==
  IF stage(p)[1] \notin Firmware /\ p.wantsRoutes THEN "classless" ELSE "default"

boot_mode_mismatch(p, c) == stage(p)[1] \in Firmware /\ stage(p)[1] # c.bootType

-----------------------------------------------------------------------------

\* A REQUEST that names its address twice, or a server but no address.
IllFormed(p) ==
  \/ p.ciaddr # None /\ (p.requested # None \/ p.server # None)
  \/ p.server # None /\ p.requested = None

wanted(p) == IF p.requested # None THEN p.requested ELSE p.ciaddr

Requests(p) == p.message = "request" /\ ~IllFormed(p) /\ wanted(p) # None
Informs(p) == p.message = "inform" /\ p.ciaddr # None

AcceptAnyAddress(p, c) ==
  IF p.message = "discover" THEN "offer"
  ELSE IF Requests(p) \/ Informs(p) THEN "ack" ELSE "silence"

\* The type of the answer, if the packet is meant for this server.
AnswerType(p, c) ==
  IF p.message = "discover" THEN "offer"
  ELSE IF Requests(p) /\ wanted(p) # c.ip THEN "nak"
  ELSE IF Requests(p) \/ Informs(p) THEN "ack" ELSE "silence"

\* The boot file, for the stages that load one: iPXE gets its script, firmware
\* the file of the mode in the CSV.
FirmwareFile(p, c) ==
  IF stage(p)[1] # "os" /\ stage(p)[2] \in Machine THEN Files[stage(p)[2]][c.bootType] ELSE None

boot_file(p, c) ==
  LET at == stage(p)
  IN  IF at[1] \notin Firmware \cup {"ipxe"} \/ at[2] \notin Machine THEN None
      ELSE Files[at[2]][IF at[1] = "ipxe" THEN "ipxe" ELSE c.bootType]

\* To the relay; or to the address the client uses, unless it is refused.
ToTheClient(p, type) ==
  IF p.giaddr # None THEN p.giaddr
  ELSE IF p.ciaddr # None THEN p.ciaddr ELSE "broadcast"

destination(p, type) ==
  IF p.giaddr # None THEN p.giaddr
  ELSE IF type # "nak" /\ p.ciaddr # None THEN p.ciaddr ELSE "broadcast"

\* reply: nothing, an error if the answer cannot name its server or does not fit, or
\* the answer.  Only an address that is assigned comes with a lease.
NoReply == [message |-> "silence"]
NotPossible == [message |-> "error"]

reply(p, c, server) ==
  LET type == AnswerType(p, c)
      assigns == type # "nak" /\ p.message # "inform"
      relayed == p.giaddr # None
  IN  IF server = Unusable THEN NotPossible
      ELSE IF p.server \notin {None, server} \/ boot_mode_mismatch(p, c) \/ type = "silence"
        THEN NoReply
      ELSE IF p.room = "none" THEN NotPossible
      ELSE [message |-> type,
            yiaddr |-> IF assigns THEN c.ip ELSE None,
            ciaddr |-> IF type = "nak" THEN None ELSE p.ciaddr,
            broadcast |-> p.broadcast \/ (type = "nak" /\ relayed),
            lease |-> assigns,
            routes |-> IF type = "nak" THEN "none" ELSE route_mode(p),
            bootFile |-> IF type = "nak" THEN None ELSE boot_file(p, c),
            relayInfo |-> IF ~(relayed /\ p.relayInfo) THEN "none"
                          ELSE IF p.room = "all" THEN "echoed" ELSE "omitted",
            to |-> destination(p, type)]
=============================================================================
