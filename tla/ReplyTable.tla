----------------------------- MODULE ReplyTable -----------------------------
(***************************************************************************)
(* One packet, one client record, one server identifier, one answer: the   *)
(* decisions of DhcpReply against the tables they are meant to follow.     *)
(***************************************************************************)
EXTENDS DhcpReply

CONSTANT Inputs   \* the packets to try

ASSUME ReplyTableAssumption == Inputs \subseteq Packet

VARIABLES packet, client, server, answer

tableVars == <<packet, client, server, answer>>

Pending == [message |-> "pending"]

\* What validate leaves of dhcp.listen_ip, a wildcard or an address, and of
\* dhcp.server_identifier, which may be absent.
Config == [listen : {ThisServer, Unusable}, identifier : {ThisServer, None}]

\* serve: the configured identifier, else the concrete address that is listened on;
\* else the local address the kernel gives with the packet, whatever that is.
explicit(config) ==
  IF config.identifier # None THEN config.identifier
  ELSE IF config.listen # Unusable THEN config.listen ELSE None

Identifier(config) ==
  IF explicit(config) # None THEN {explicit(config)} ELSE {ThisServer, Unusable}

TableInit ==
  /\ packet \in Inputs
  /\ client \in Client
  /\ \E config \in Config : server \in Identifier(config)
  /\ answer = Pending

Decide ==
  /\ answer = Pending
  /\ answer' = reply(packet, client, server)
  /\ UNCHANGED <<packet, client, server>>

TableSpec == TableInit /\ [][Decide]_tableVars

Answered == answer.message \in {"offer", "ack", "nak"}

-----------------------------------------------------------------------------
(***************************************************************************)
(* RFC 2131, table 4, names the state of a client by which of its address, *)
(* the requested address and the server identifier a REQUEST carries.      *)
(***************************************************************************)
ClientState(p) ==
  LET carried == <<p.server # None, p.requested # None, p.ciaddr # None>>
  IN  CASE carried = <<TRUE, TRUE, FALSE>> -> "selecting"
        [] carried = <<FALSE, TRUE, FALSE>> -> "init-reboot"
        [] carried = <<FALSE, FALSE, TRUE>> -> "renewing"
        [] OTHER -> "none of these"

Claim(p) == IF ClientState(p) = "renewing" THEN p.ciaddr ELSE p.requested

\* A REQUEST has a meaning for this server in one of the states of RFC 2131, if
\* its client did not choose another.
ForUs(p) == ClientState(p) # "none of these" /\ p.server \in {None, server}

Confirmed ==
  Answered /\ packet.message = "request" =>
    /\ ForUs(packet)
    /\ answer.message = IF Claim(packet) = client.ip THEN "ack" ELSE "nak"

NotIgnored ==
  answer = NoReply /\ packet.message = "request" =>
    ~ForUs(packet) \/ boot_mode_mismatch(packet, client)

\* A REQUEST is answered only if it has a meaning, and is then acknowledged if and
\* only if the address it claims in its state is the one the CSV gives it, and
\* refused otherwise; and one that has a meaning is met with silence only because
\* of the boot mode (the REQUEST arm and the early returns of reply).
RequestsByState == Confirmed /\ NotIgnored

\* The route table of PLAN.md section 7.
PlanRoutes ==
  [at \in {"bios", "uefi", "ipxe", "os", "unknown"} |->
     IF at \in {"bios", "uefi"} THEN {<<TRUE, "default">>, <<FALSE, "default">>}
     ELSE {<<TRUE, "classless">>, <<FALSE, "default">>}]

\* The routes of an OFFER or ACK are those of the table for the boot stage and
\* the parameter request list; a NAK has none (route_mode, and its use in reply).
RoutesFollowPlan ==
  Answered =>
    IF answer.message = "nak" THEN answer.routes = "none"
    ELSE <<packet.wantsRoutes, answer.routes>> \in PlanRoutes[stage(packet)[1]]

\* An answer goes where its client can hear it (RFC 2131 sections 4.1, 4.3.2):
\* through the relay the packet came by, with the broadcast bit if the client
\* may have no address it can use; without a relay never to an address that is
\* refused, nor to one the client does not use yet; and it never names a server that
\* the client could not write to (destination, NAK branch, the first ensure of reply).
HeardByClient ==
  Answered =>
    /\ server # Unusable
    /\ packet.giaddr # None => answer.to = packet.giaddr
    /\ answer.message = "nak" /\ packet.giaddr # None => answer.broadcast
    /\ answer.message = "nak" /\ packet.giaddr = None => answer.to = "broadcast"
    /\ packet.giaddr = None => answer.to \in {"broadcast", packet.ciaddr} \ {None}
=============================================================================
