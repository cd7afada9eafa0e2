------------------------------ MODULE MCReply ------------------------------
(***************************************************************************)
(* One answer, seen two ways, one at a time: what it decides (ReplyTable)  *)
(* and how long it gets (ReplySize).  The other stays in one initial state.*)
(***************************************************************************)
EXTENDS ReplyTable, ReplySize

CONSTANTS a1, a2, r1, undionly, ipxeefi, ipxearm, script

MCFiles ==
  [x86_64 |-> [bios |-> undionly, uefi |-> ipxeefi, ipxe |-> script],
   arm64 |-> [bios |-> None, uefi |-> ipxearm, ipxe |-> script]]

\* Every packet, but for the flag that is only echoed and for what is told
\* apart only together with a relay.
MCInputs == {p \in Packet : ~p.broadcast /\ p.relayInfo = (p.giaddr # None)}

SomePacket == CHOOSE p \in MCInputs : TRUE
SomeClient == CHOOSE c \in Client : TRUE

VARIABLE subject

MCInit ==
  /\ subject \in {"decision", "size"}
  /\ IF subject = "decision" THEN TableInit
     ELSE packet = SomePacket /\ client = SomeClient /\ server = ThisServer /\ TableInit
  /\ IF subject = "size" THEN SizeInit
     ELSE lease = 0 /\ announced = Absent /\ relay = Absent /\ SizeInit

MCNext ==
  \/ subject = "decision" /\ Decide /\ UNCHANGED <<subject, sizeVars>>
  \/ subject = "size" /\ SizeNext /\ UNCHANGED <<subject, tableVars>>

MCSpec == MCInit /\ [][MCNext]_<<subject, tableVars, sizeVars>>
=============================================================================
