------------------------- MODULE DhcpSessionProofs -------------------------
(***************************************************************************)
(* Proofs about DhcpSession, for any hosts, relays and versions.           *)
(***************************************************************************)
EXTENDS DhcpSession, TLAPS

Answers == {"offer", "ack", "nak"}

LEMMA StageIsKnown ==
  ASSUME NEW p \in Packet
  PROVE  /\ stage(p)[1] \in {"bios", "uefi", "ipxe", "os", "unknown"}
         /\ stage(p)[2] \in Machine \cup {"unknown"}
  BY DEF stage, Packet, Arch, Unknown, Machine

\* reply gives an answer of its type to a packet of its type, or none.
LEMMA ReplyType ==
  ASSUME NEW p \in Packet, NEW c \in Client, NEW s, reply(p, c, s).message \in Answers
  PROVE  reply(p, c, s) \in Reply
  <1> DEFINE type == AnswerType(p, c)
             a == reply(p, c, s)
  <1>1. a # NoReply /\ a # NotPossible
    BY DEF Answers, NoReply, NotPossible
  <1>2. a = [message |-> type,
             yiaddr |-> IF type # "nak" /\ p.message # "inform" THEN c.ip ELSE None,
             ciaddr |-> IF type = "nak" THEN None ELSE p.ciaddr,
             broadcast |-> p.broadcast \/ (type = "nak" /\ p.giaddr # None),
             lease |-> type # "nak" /\ p.message # "inform",
             routes |-> IF type = "nak" THEN "none" ELSE route_mode(p),
             bootFile |-> IF type = "nak" THEN None ELSE boot_file(p, c),
             relayInfo |-> IF ~(p.giaddr # None /\ p.relayInfo) THEN "none"
                           ELSE IF p.room = "all" THEN "echoed" ELSE "omitted",
             to |-> destination(p, type)]
    BY <1>1 DEF reply
  <1>3. type \in Answers
    BY <1>2
  <1>4. c.ip \in Address /\ p.ciaddr \in Address \cup {None}
    BY DEF Packet, Client
  <1>5. route_mode(p) \in {"default", "classless"}
    BY DEF route_mode
  <1>6. boot_file(p, c) \in File \cup {None}
    BY StageIsKnown, DhcpReplyAssumption DEF boot_file, Client, Machine, Firmware
  <1>7. destination(p, type) \in Address \cup Relay \cup {"broadcast"}
    BY DEF destination, Packet
  <1> HIDE DEF type
  <1> QED  BY <1>2, <1>3, <1>4, <1>5, <1>6, <1>7 DEF Reply, Answers

\* What an ACK to a REQUEST confirms.
LEMMA AckConfirms ==
  ASSUME NEW p, NEW c, NEW s, p.message = "request", reply(p, c, s).message = "ack"
  PROVE  wanted(p) = c.ip /\ reply(p, c, s).yiaddr = c.ip
  <1>1. AnswerType(p, c) = "ack"
    BY DEF reply, NoReply, NotPossible
  <1>2. wanted(p) = c.ip
    BY <1>1 DEF AnswerType, Informs
  <1> QED  BY <1>1, <1>2 DEF reply, NoReply, NotPossible

LEMMA PacketType ==
  ASSUME NEW m \in Mac, NEW h \in Host
  PROVE  PacketOf(m, h) \in Packet
  BY DhcpSessionAssumption DEF PacketOf, Packet, Host

\* What a host asks for is what it remembers.
LEMMA PacketAsks ==
  ASSUME NEW m \in Mac, NEW h \in Host, h.state \in Asking \ {"selecting"}
  PROVE  PacketOf(m, h).message = "request" /\ wanted(PacketOf(m, h)) = h.addr
  BY DEF PacketOf, wanted, Host, Asking

-----------------------------------------------------------------------------
\* Answers under way are those to what the host sent last, each by its version.
RepliesFit ==
  \A m \in Mac : \A r \in replies[m] :
    /\ r.version \in Version /\ m \in DOMAIN Table[r.version]
    /\ r.answer = reply(PacketOf(m, host[m]), Table[r.version][m], ThisServer)

HeldIsAssigned ==
  \A m \in Mac : Has(m) =>
    /\ host[m].granted \in Version /\ m \in DOMAIN Table[host[m].granted]
    /\ host[m].addr = Table[host[m].granted][m].ip

SessionInv == SessionTypeOK /\ RepliesFit /\ HeldIsAssigned

LEMMA OffIsHost == ASSUME NEW at \in {"firmware", "ipxe", "os"} PROVE Off(at) \in Host
  BY DEF Off, Host

LEMMA SessionInvInit == SessionInit => SessionInv
  <1> SUFFICES ASSUME SessionInit PROVE SessionInv
    OBVIOUS
  <1>1. \A m \in Mac : Off(FirstStage(m)) \in Host
    BY OffIsHost DEF FirstStage
  <1>2. SessionTypeOK
    BY <1>1 DEF SessionInit, SessionTypeOK
  <1>3. RepliesFit
    BY DEF SessionInit, RepliesFit
  <1>4. HeldIsAssigned
    BY DEF SessionInit, HeldIsAssigned, Has, Off
  <1> QED  BY <1>2, <1>3, <1>4 DEF SessionInv

\* It is enough that a host goes on to a state in which what it has is assigned.
LEMMA HostGoes ==
  ASSUME SessionInv, NEW m \in Mac, NEW h \in Host, Goes(m, h),
         h.state \in {"bound", "renewing", "rebinding"} =>
           /\ h.granted \in Version /\ m \in DOMAIN Table[h.granted]
           /\ h.addr = Table[h.granted][m].ip
  PROVE  SessionInv'
  <1>1. /\ host' = [host EXCEPT ![m] = h] /\ replies' = [replies EXCEPT ![m] = {}]
        /\ snapshot' = snapshot /\ host \in [Mac -> Host]
        /\ replies \in [Mac -> SUBSET [answer : Reply, version : Version]]
    BY DEF SessionInv, SessionTypeOK, Goes
  <1>2. SessionTypeOK'
    BY <1>1 DEF SessionInv, SessionTypeOK
  <1>3. RepliesFit'
    <2> SUFFICES ASSUME NEW n \in Mac, NEW r \in replies'[n]
                 PROVE  /\ r.version \in Version /\ n \in DOMAIN Table[r.version]
                        /\ r.answer = reply(PacketOf(n, host'[n]), Table[r.version][n], ThisServer)
      BY DEF RepliesFit
    <2>1. n # m /\ r \in replies[n] /\ host'[n] = host[n]
      BY <1>1
    <2> QED  BY <2>1 DEF SessionInv, RepliesFit
  <1>4. HeldIsAssigned'
    <2> SUFFICES ASSUME NEW n \in Mac, Has(n)'
                 PROVE  /\ host'[n].granted \in Version
                        /\ n \in DOMAIN Table[host'[n].granted]
                        /\ host'[n].addr = Table[host'[n].granted][n].ip
      BY DEF HeldIsAssigned
    <2>1. CASE n = m
      BY <1>1, <2>1 DEF Has
    <2>2. CASE n # m
      BY <1>1, <2>2 DEF Has, SessionInv, HeldIsAssigned
    <2> QED  BY <2>1, <2>2
  <1> QED  BY <1>2, <1>3, <1>4 DEF SessionInv

LEMMA HandleInv == ASSUME SessionInv, NEW m \in Mac, Handle(m) PROVE SessionInv'
  <1> DEFINE a == ServerAnswer(m)
  <1>1. /\ a.message \in Answers /\ host' = host /\ snapshot' = snapshot
        /\ replies' = [replies EXCEPT ![m] = @ \cup {[answer |-> a, version |-> snapshot]}]
    BY DEF Handle, Answers
  <1>2. /\ host[m].state \in Asking /\ Known(m)
        /\ a = reply(PacketOf(m, host[m]), Table[snapshot][m], ThisServer)
    BY <1>1 DEF ServerAnswer, NoReply, Answers
  <1>3. snapshot \in Version /\ m \in DOMAIN Table[snapshot] /\ host[m] \in Host
    BY <1>2 DEF Known, SessionInv, SessionTypeOK
  <1>4. Table[snapshot][m] \in Client
    BY <1>3, DhcpSessionAssumption
  <1>5. a \in Reply
    BY <1>1, <1>2, <1>3, <1>4, PacketType, ReplyType
  <1> HIDE DEF a
  <1>6. SessionTypeOK'
    BY <1>1, <1>3, <1>5 DEF SessionInv, SessionTypeOK
  <1>7. RepliesFit'
    <2> SUFFICES ASSUME NEW n \in Mac, NEW r \in replies'[n]
                 PROVE  /\ r.version \in Version /\ n \in DOMAIN Table[r.version]
                        /\ r.answer = reply(PacketOf(n, host[n]), Table[r.version][n], ThisServer)
      BY <1>1 DEF RepliesFit
    <2>1. CASE r \in replies[n]
      BY <2>1 DEF SessionInv, RepliesFit
    <2>2. CASE r \notin replies[n]
      <3>1. n = m /\ r = [answer |-> a, version |-> snapshot]
        BY <1>1, <2>2 DEF SessionInv, SessionTypeOK
      <3> QED  BY <1>2, <1>3, <3>1
    <2> QED  BY <2>1, <2>2
  <1>8. HeldIsAssigned'
    BY <1>1 DEF SessionInv, HeldIsAssigned, Has
  <1> QED  BY <1>6, <1>7, <1>8 DEF SessionInv

LEMMA TakeAckInv == ASSUME SessionInv, NEW m \in Mac, TakeAck(m) PROVE SessionInv'
  <1>1. PICK r \in Heard(m) :
          /\ r.answer.message = "ack"
          /\ \E addr \in {host[m].addr, r.answer.yiaddr} :
               Goes(m, [host[m] EXCEPT !.state = "bound", !.addr = addr,
                                       !.granted = r.version, !.file = r.answer.bootFile])
    BY DEF TakeAck
  <1>2. host[m] \in Host /\ host[m].state \in Asking \ {"selecting"}
    BY DEF TakeAck, SessionInv, SessionTypeOK
  <1>3. /\ r \in replies[m] /\ r.answer \in Reply
        /\ r.version \in Version /\ m \in DOMAIN Table[r.version]
        /\ r.answer = reply(PacketOf(m, host[m]), Table[r.version][m], ThisServer)
    BY DEF Heard, SessionInv, SessionTypeOK, RepliesFit
  <1>4. /\ host[m].addr = Table[r.version][m].ip
        /\ r.answer.yiaddr = Table[r.version][m].ip
    BY <1>1, <1>2, <1>3, PacketAsks, AckConfirms
  <1> DEFINE addr == Table[r.version][m].ip
             h == [host[m] EXCEPT !.state = "bound", !.addr = addr,
                                  !.granted = r.version, !.file = r.answer.bootFile]
  <1>5. r.answer.bootFile \in File \cup {None} /\ addr \in Address \cup {None}
    BY <1>2, <1>3, <1>4 DEF Reply, Host
  <1>6. /\ h \in Host /\ h.granted = r.version
        /\ h.addr = addr
    <2> HIDE DEF addr
    <2> QED  BY <1>2, <1>3, <1>5 DEF Host
  <1>7. Goes(m, h)
    BY <1>1, <1>4
  <1> HIDE DEF h
  <1> QED  BY <1>3, <1>6, <1>7, HostGoes

LEMMA SessionInvStep == SessionInv /\ [SessionNext]_sessionVars => SessionInv'
  <1> SUFFICES ASSUME SessionInv, [SessionNext]_sessionVars PROVE SessionInv'
    OBVIOUS
  <1>1. \A m \in Mac : host[m] \in Host /\ Off(host[m].stage) \in Host
    BY OffIsHost DEF SessionInv, SessionTypeOK, Host
  <1>2. CASE UNCHANGED sessionVars
    BY <1>2 DEF sessionVars, SessionInv, SessionTypeOK, RepliesFit, HeldIsAssigned, Has
  <1>3. CASE Publish
    <2>1. host' = host /\ replies' = replies /\ snapshot' \in Version \cup {None}
      BY <1>3 DEF Publish
    <2> QED  BY <2>1 DEF SessionInv, SessionTypeOK, RepliesFit, HeldIsAssigned, Has
  <1>4. ASSUME NEW m \in Mac, Handle(m) PROVE SessionInv'
    BY <1>4, HandleInv
  <1>5. ASSUME NEW m \in Mac, TakeAck(m) PROVE SessionInv'
    BY <1>5, TakeAckInv
  <1>6. ASSUME NEW m \in Mac, Discover(m) \/ Renew(m) \/ Rebind(m) PROVE SessionInv'
    <2>1. PICK s \in {"selecting", "renewing", "rebinding"} :
            /\ Goes(m, [host[m] EXCEPT !.state = s])
            /\ s # "selecting" => Has(m)
      BY <1>6 DEF Discover, Renew, Rebind, Has
    <2> DEFINE h == [host[m] EXCEPT !.state = s]
    <2>2. /\ h \in Host /\ h.state = s
          /\ h.granted = host[m].granted /\ h.addr = host[m].addr
      BY <1>1 DEF Host, Asking
    <2>3. Goes(m, h)
      BY <2>1
    <2> HIDE DEF h
    <2> QED  BY <2>1, <2>2, <2>3, HostGoes DEF SessionInv, HeldIsAssigned
  <1>7. ASSUME NEW m \in Mac, TakeOffer(m) PROVE SessionInv'
    <2>1. PICK r \in Heard(m) :
            Goes(m, [host[m] EXCEPT !.state = "requesting", !.addr = r.answer.yiaddr])
      BY <1>7 DEF TakeOffer
    <2> DEFINE h == [host[m] EXCEPT !.state = "requesting", !.addr = r.answer.yiaddr]
    <2>2. r.answer.yiaddr \in Address \cup {None}
      BY DEF Heard, Reply, SessionInv, SessionTypeOK
    <2>3. h \in Host /\ h.state = "requesting"
      BY <1>1, <2>2 DEF Host, Asking
    <2>4. Goes(m, h)
      BY <2>1
    <2> HIDE DEF h
    <2> QED  BY <2>3, <2>4, HostGoes
  <1>8. ASSUME NEW m \in Mac, TakeNak(m) \/ GiveUp(m) \/ NextStage(m) \/ Reboot(m)
        PROVE  SessionInv'
    <2>1. CASE \E at \in {"firmware", "ipxe", "os"} : Goes(m, Off(at))
      <3>1. PICK at \in {"firmware", "ipxe", "os"} : Goes(m, Off(at))
        BY <2>1
      <3>2. Off(at) \in Host /\ Off(at).state = "init"
        BY OffIsHost DEF Off
      <3> QED  BY <3>1, <3>2, HostGoes
    <2>2. CASE Goes(m, [host[m] EXCEPT !.state = "rebooting", !.granted = None])
      <3> DEFINE h == [host[m] EXCEPT !.state = "rebooting", !.granted = None]
      <3>1. h \in Host /\ h.state = "rebooting"
        BY <1>1 DEF Host, Asking
      <3>2. Goes(m, h)
        BY <2>2
      <3> HIDE DEF h
      <3> QED  BY <3>1, <3>2, HostGoes
    <2> QED
      BY <1>1, <1>8, <2>1, <2>2 DEF TakeNak, GiveUp, NextStage, Reboot, FirstStage, Host
  <1> QED
    BY <1>2, <1>3, <1>4, <1>5, <1>6, <1>7, <1>8 DEF SessionNext, HostStep

THEOREM SessionInvariant == SessionSpec => []SessionInv
  BY SessionInvInit, SessionInvStep, PTL DEF SessionSpec

\* The host table and the answers under way keep their types.
THEOREM SessionTypeCorrect == SessionSpec => []SessionTypeOK
  BY SessionInvariant, PTL DEF SessionInv

\* No two hosts use one address by one version of the CSV (serve and reply).
THEOREM AddressesExclusive == SessionSpec => []Exclusive
  <1>1. SessionInv => Exclusive
    BY DhcpSessionAssumption DEF SessionInv, HeldIsAssigned, Exclusive
  <1> QED  BY <1>1, SessionInvariant, PTL
=============================================================================
