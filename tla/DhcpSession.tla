---------------------------- MODULE DhcpSession ----------------------------
(***************************************************************************)
(* The DHCP server between its clients, which come through relays and lose *)
(* packets, and a client table that is replaced under it.                  *)
(*                                                                         *)
(* serve keeps nothing about a client: it looks the packet's MAC up in the *)
(* snapshot of that moment and answers as DhcpReply says.  Lookup and      *)
(* decision are one step, since run_sync shares the task and serve awaits  *)
(* only the next packet and the sending of an answer.                      *)
(*                                                                         *)
(* The hosts are clients of RFC 2131, modelled from what reply expects of  *)
(* them.  A host listens only for answers to the packet it sent last,      *)
(* which it may repeat: so that packet may be handled any number of times, *)
(* or never.  Answers wait until the host takes one, in any order, or are  *)
(* lost when it goes on.  Counters, logging and packets that serve cannot  *)
(* parse or does not answer are left out: they change nothing here.        *)
(***************************************************************************)
EXTENDS DhcpReply

CONSTANTS
  Mac,
  Version,  \* the versions of the CSV
  Table,    \* their clients by MAC
  Via,      \* the relay on each host's link, or None on the server's own
  Netboot,  \* mode and machine of each host that boots from the network, or None
  Script    \* the boot files that start an operating system; others load iPXE

ASSUME DhcpSessionAssumption ==
  /\ None \notin Version
  /\ \A v \in Version :
       /\ DOMAIN Table[v] \subseteq Mac
       /\ \A m \in DOMAIN Table[v] : Table[v][m] \in Client
       \* Clients::parse: no address twice.
       /\ \A m, n \in DOMAIN Table[v] : Table[v][m].ip = Table[v][n].ip => m = n
  /\ Via \in [Mac -> Relay \cup {None}]
  /\ Netboot \in [Mac -> Arch \cup {None}]
  /\ Script \subseteq File

VARIABLES
  snapshot,  \* Shared.snapshot, as the version it was parsed from, or None
  host,      \* the hosts
  replies    \* for each host the answers under way to what it sent last

sessionVars == <<snapshot, host, replies>>

\* addr is the address a host has, asks to get, or was offered; granted the
\* version by which it was acknowledged (only remembered).
Asking == {"selecting", "requesting", "rebooting", "renewing", "rebinding"}
Host == [stage : {"firmware", "ipxe", "os"},
         state : {"init", "bound"} \cup Asking,
         addr : Address \cup {None},
         granted : Version \cup {None},
         file : File \cup {None}]

SessionTypeOK ==
  /\ snapshot \in Version \cup {None}
  /\ host \in [Mac -> Host]
  /\ replies \in [Mac -> SUBSET [answer : Reply, version : Version]]

FirstStage(m) == IF Netboot[m] = None THEN "os" ELSE "firmware"
Off(at) ==
  [stage |-> at, state |-> "init", addr |-> None, granted |-> None, file |-> None]

SessionInit ==
  /\ snapshot = None
  /\ host = [m \in Mac |-> Off(FirstStage(m))]
  /\ replies = [m \in Mac |-> {}]

\* A host uses its address in these states.
Has(m) == host[m].state \in {"bound", "renewing", "rebinding"}

\* What a host in this state sends.  Only a renewal goes straight to the server.
PacketOf(m, h) ==
  [message |-> IF h.state = "selecting" THEN "discover" ELSE "request",
   ciaddr |-> IF h.state \in {"renewing", "rebinding"} THEN h.addr ELSE None,
   giaddr |-> IF h.state = "renewing" THEN None ELSE Via[m],
   broadcast |-> FALSE,
   requested |-> IF h.state \in {"requesting", "rebooting"} THEN h.addr ELSE None,
   server |-> IF h.state = "requesting" THEN ThisServer ELSE None,
   ipxe |-> h.stage = "ipxe",
   pxe |-> h.stage # "os",
   arch |-> IF h.stage = "os" THEN None ELSE Netboot[m],
   vendorArch |-> None,
   wantsRoutes |-> TRUE,
   relayInfo |-> FALSE,
   room |-> "all"]

\* A relay puts the answers sent to it on its link; without one, broadcasts are
\* heard; and a host hears what is sent to the address it uses.
Hears(m, answer) ==
  \/ Via[m] # None /\ answer.to = Via[m]
  \/ Via[m] = None /\ answer.to = "broadcast"
  \/ Has(m) /\ answer.to = host[m].addr

-----------------------------------------------------------------------------
\* run_sync replaces the snapshot; a restart begins with none.
Publish ==
  /\ snapshot' \in (Version \cup {None}) \ {snapshot}
  /\ UNCHANGED <<host, replies>>

\* What serve answers to the packet of host m, if it does.
Known(m) == snapshot # None /\ m \in DOMAIN Table[snapshot]

ServerAnswer(m) ==
  IF host[m].state \in Asking /\ Known(m)
    THEN reply(PacketOf(m, host[m]), Table[snapshot][m], ThisServer) ELSE NoReply

Handle(m) ==
  /\ ServerAnswer(m).message \in {"offer", "ack", "nak"}
  /\ replies' = [replies EXCEPT
       ![m] = @ \cup {[answer |-> ServerAnswer(m), version |-> snapshot]}]
  /\ UNCHANGED <<snapshot, host>>

-----------------------------------------------------------------------------
\* The host goes on, and with it what its last packet brought is lost.
Goes(m, h) ==
  /\ host' = [host EXCEPT ![m] = h]
  /\ replies' = [replies EXCEPT ![m] = {}]
  /\ UNCHANGED snapshot

Discover(m) ==
  /\ host[m].state = "init"
  /\ Goes(m, [host[m] EXCEPT !.state = "selecting"])

Heard(m) == {r \in replies[m] : Hears(m, r.answer)}

TakeOffer(m) ==
  /\ host[m].state = "selecting"
  /\ \E r \in Heard(m) :
       /\ r.answer.message = "offer"
       /\ Goes(m, [host[m] EXCEPT !.state = "requesting", !.addr = r.answer.yiaddr])

\* Some clients go by yiaddr, others keep the address they asked for.
TakeAck(m) ==
  /\ host[m].state \in Asking \ {"selecting"}
  /\ \E r \in Heard(m) :
       /\ r.answer.message = "ack"
       /\ \E addr \in {host[m].addr, r.answer.yiaddr} :
            Goes(m, [host[m] EXCEPT !.state = "bound", !.addr = addr,
                                    !.granted = r.version, !.file = r.answer.bootFile])

TakeNak(m) ==
  /\ host[m].state \in Asking \ {"selecting"}
  /\ \E r \in Heard(m) : r.answer.message = "nak"
  /\ Goes(m, Off(host[m].stage))

\* The timers of a lease: first T1, then T2.
Renew(m) ==
  /\ host[m].state = "bound" /\ host[m].stage = "os"
  /\ Goes(m, [host[m] EXCEPT !.state = "renewing"])

Rebind(m) ==
  /\ host[m].state = "renewing"
  /\ Goes(m, [host[m] EXCEPT !.state = "rebinding"])

\* The lease has run out, or nobody answers.
GiveUp(m) ==
  /\ host[m].state \in Asking \ {"renewing"}
  /\ Goes(m, Off(host[m].stage))

\* What was loaded starts, and asks anew.
NextStage(m) ==
  /\ host[m].state = "bound" /\ host[m].stage # "os" /\ host[m].file # None
  /\ Goes(m, Off(IF host[m].file \in Script THEN "os" ELSE "ipxe"))

\* A host that boots from its disk may remember its address.
Reboot(m) ==
  \/ Goes(m, Off(FirstStage(m)))
  \/ /\ Netboot[m] = None /\ Has(m)
     /\ Goes(m, [host[m] EXCEPT !.state = "rebooting", !.granted = None])

HostStep(m) ==
  \/ Discover(m) \/ TakeOffer(m) \/ TakeAck(m) \/ TakeNak(m)
  \/ Renew(m) \/ Rebind(m) \/ GiveUp(m) \/ NextStage(m)

SessionNext == Publish \/ \E m \in Mac : Handle(m) \/ HostStep(m) \/ Reboot(m)

SessionSpec == SessionInit /\ [][SessionNext]_sessionVars

-----------------------------------------------------------------------------
(***************************************************************************)
(* Fairness: serve handles a packet that is repeated as long as the host   *)
(* waits for an answer, and the hosts go on.  A new version or a reboot is *)
(* never owed.                                                             *)
(***************************************************************************)
SessionFairness ==
  \A m \in Mac : WF_sessionVars(Handle(m)) /\ WF_sessionVars(HostStep(m))

SessionFairSpec == SessionSpec /\ SessionFairness

\* An answer to what the host sent last is under way, or would come.
Answerable(m) ==
  \/ Heard(m) # {}
  \/ ServerAnswer(m).message # "silence" /\ Hears(m, ServerAnswer(m))

\* A step in which nothing is replaced or switched off, and no host runs out of
\* patience before an answer that comes.
Calm ==
  /\ snapshot' = snapshot
  /\ \A m \in Mac : ~Reboot(m) /\ (Answerable(m) => ~Rebind(m) /\ ~GiveUp(m))

-----------------------------------------------------------------------------
\* Two hosts never use one address by the same version of the CSV, however late
\* and out of order the answers came: an address changes hands only when the
\* CSV gives it to somebody else (the lookup in serve, the REQUEST arm of
\* reply; PLAN.md section 3 keeps no leases).
Exclusive ==
  \A m, n \in Mac :
    Has(m) /\ Has(n) /\ host[m].granted = host[n].granted /\ host[m].addr = host[n].addr
      => m = n

\* Where a host should end: without an address if the CSV does not know it, in
\* its firmware if the CSV has it boot in another mode, or else in its system
\* with the address of the CSV.
Mismatched(m) == Netboot[m] # None /\ Netboot[m][1] # Table[snapshot][m].bootType

Settled(m) ==
  IF ~Known(m) THEN ~Has(m)
  ELSE \/ host[m].stage = "os" /\ Has(m) /\ host[m].addr = Table[snapshot][m].ip
       \/ host[m].stage = "firmware" /\ ~Has(m) /\ Mismatched(m)

\* Once it is calm every host settles by the current version, whatever it was
\* told before: it is talked out of an address that is no longer its own, also
\* behind a relay, and boots without going round in circles (AnswerType,
\* destination and boot_file together).
Settles == <>[][Calm]_sessionVars => <>[](\A m \in Mac : Settled(m))
=============================================================================
