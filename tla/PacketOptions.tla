--------------------------- MODULE PacketOptions ---------------------------
(***************************************************************************)
(* What becomes of the octets of a received packet: Packet::parse with     *)
(* read_options, and dhcp_packet_dump, which serve calls for the log, also *)
(* with a packet that parse refuses.  The input is whatever somebody sent. *)
(*                                                                         *)
(* Abstractions.  The header is one of a few kinds.  Octets, and with them *)
(* codes and lengths, are small numbers.  Of the checks of single options  *)
(* there are those of the message type, of one octet, and of Pair, an      *)
(* option of two octets as 57 is.                                          *)
(***************************************************************************)
EXTENDS SequencesExt, Naturals

CONSTANTS
  Top,          \* the greatest octet, which as a code is END
  Message, Overload, Pair,
  Messages,     \* the message types of clients
  NotRead,      \* an area that nobody has looked at
  OptionAreas, FileAreas, NameAreas   \* what may be in each area

Pad == 0
End == Top
Octet == 0..Top

ASSUME PacketOptionsAssumption ==
  /\ Top \in Nat
  /\ {Message, Overload, Pair} \subseteq 1 .. Top - 1
  /\ Message # Overload /\ Pair \notin {Message, Overload}
  /\ OptionAreas \subseteq Seq(Octet) /\ <<>> \in OptionAreas
  /\ FileAreas \subseteq Seq(Octet) /\ NameAreas \subseteq Seq(Octet)
  /\ NotRead \notin Seq(Octet)

VARIABLES
  header,
  areas,     \* the octets after the cookie, and of file and sname once they are read
  area,      \* the one read_options is in
  pos,       \* where it stands, from 1
  options,   \* Packet.options: the value of each code
  overload,  \* parse's copy of option Overload, <<>> without one
  verdict,   \* what parse has come to
  at,        \* where dhcp_packet_dump stands
  lines,     \* the options it has written
  dump       \* what it has come to

vars == <<header, areas, area, pos, options, overload, verdict, at, lines, dump>>

\* Shorter than the fixed part; without room for a cookie; of another hardware or
\* direction; without the cookie; as it should be.
Header == {"short", "noCookieRoom", "notEthernet", "noCookie", "good"}

Area == {"options", "file", "sname"}

PacketTypeOK ==
  /\ header \in Header
  /\ areas \in [Area -> Seq(Octet) \cup {NotRead}]
  /\ area \in Area /\ areas[area] # NotRead
  /\ pos \in Nat \ {0}
  /\ DOMAIN options \subseteq Octet /\ options \in [DOMAIN options -> Seq(Octet)]
  /\ overload \in Seq(Octet)
  /\ verdict \in {"reading", "checking", "parsed", "error", "panic"}
  /\ at \in Nat \ {0}
  /\ lines \in Seq(Octet \X Seq(Octet))
  /\ dump \in {"open", "complete", "malformed", "panic"}

Init ==
  /\ header \in Header
  /\ \E o \in IF header \in {"short", "noCookieRoom"} THEN {<<>>} ELSE OptionAreas :
       areas = [a \in Area |-> IF a = "options" THEN o ELSE NotRead]
  /\ area = "options" /\ pos = 1
  /\ options = [c \in {} |-> <<>>] /\ overload = <<>>
  /\ verdict = "reading"
  /\ at = 1 /\ lines = <<>> /\ dump = "open"

dumpVars == <<at, lines, dump>>

-----------------------------------------------------------------------------
\* Packet::parse refuses what cannot be the packet of a client.
RefuseHeader ==
  /\ verdict = "reading" /\ header # "good"
  /\ verdict' = "error"
  /\ UNCHANGED <<header, areas, area, pos, options, overload, dumpVars>>

Reading == verdict = "reading" /\ header = "good"
Bytes == areas[area]

\* Octets first to last of s, or a panic.
InBounds(s, first, last) == first >= 1 /\ last <= Len(s)

SkipPad ==
  /\ Reading /\ pos <= Len(Bytes) /\ Bytes[pos] = Pad
  /\ pos' = pos + 1
  /\ UNCHANGED <<header, areas, area, options, overload, verdict, dumpVars>>

\* What a code has so far is continued.
Extended(code, more) ==
  [c \in DOMAIN options \cup {code} |->
     IF c # code THEN options[c]
     ELSE IF c \in DOMAIN options THEN options[c] \o more ELSE more]

HasLength == pos + 1 <= Len(Bytes)
CountsCode == pos + Bytes[pos + 1] <= Len(Bytes)
HasValue == pos + 1 + Bytes[pos + 1] <= Len(Bytes)

\* Any other option: refused for want of its length or value, else taken.
ReadOption ==
  /\ Reading /\ pos <= Len(Bytes) /\ Bytes[pos] \notin {Pad, End}
  /\ IF ~HasLength THEN verdict' = "error" /\ UNCHANGED <<pos, options>>
     ELSE IF ~InBounds(Bytes, pos + 1, pos + 1)
       THEN verdict' = "panic" /\ UNCHANGED <<pos, options>>
     ELSE IF ~HasValue THEN verdict' = "error" /\ UNCHANGED <<pos, options>>
     ELSE LET last == pos + 1 + Bytes[pos + 1]
          IN IF ~InBounds(Bytes, pos + 2, last)
               THEN verdict' = "panic" /\ UNCHANGED <<pos, options>>
             ELSE /\ options' = Extended(Bytes[pos], SubSeq(Bytes, pos + 2, last))
                  /\ pos' = last + 1
                  /\ UNCHANGED verdict
  /\ UNCHANGED <<header, areas, area, overload, dumpVars>>

AtEnd == pos <= Len(Bytes) => Bytes[pos] = End

Enter(a, Contents) ==
  /\ area' = a /\ pos' = 1
  /\ \E s \in Contents : areas' = [areas EXCEPT ![a] = s]
  /\ UNCHANGED verdict
EnterFile == Enter("file", FileAreas)
EnterName == Enter("sname", NameAreas)
LeaveAreas == verdict' = "checking" /\ UNCHANGED <<areas, area, pos>>

\* Option Overload says which of the fixed fields hold options: 1, 2, or both.
OptionsEnd ==
  /\ Reading /\ area = "options" /\ AtEnd
  /\ IF Overload \notin DOMAIN options THEN LeaveAreas /\ UNCHANGED overload
     ELSE /\ overload' = options[Overload]
          /\ \/ overload' \in {<<1>>, <<3>>} /\ EnterFile
             \/ overload' = <<2>> /\ EnterName
             \/ /\ overload' \notin {<<1>>, <<2>>, <<3>>}
                /\ verdict' = "error" /\ UNCHANGED <<areas, area, pos>>
  /\ UNCHANGED <<header, options, dumpVars>>

FileEndRereads ==
  /\ Reading /\ area = "file" /\ AtEnd
  /\ IF options[Overload] = <<3>> THEN EnterName ELSE LeaveAreas
  /\ UNCHANGED <<header, options, overload, dumpVars>>

FileEnd ==
  /\ Reading /\ area = "file" /\ AtEnd
  /\ IF overload = <<3>> THEN EnterName ELSE LeaveAreas
  /\ UNCHANGED <<header, options, overload, dumpVars>>

NameEnd ==
  /\ Reading /\ area = "sname" /\ AtEnd
  /\ LeaveAreas
  /\ UNCHANGED <<header, options, overload, dumpVars>>

\* The lengths of single options, and a message type that clients send.
Check ==
  /\ verdict = "checking"
  /\ verdict' = IF /\ Pair \in DOMAIN options => Len(options[Pair]) = 2
                   /\ Message \in DOMAIN options /\ Len(options[Message]) = 1
                   /\ options[Message][1] \in Messages
                THEN "parsed" ELSE "error"
  /\ UNCHANGED <<header, areas, area, pos, options, overload, dumpVars>>

Parse ==
  \/ RefuseHeader \/ SkipPad \/ ReadOption
  \/ OptionsEnd \/ FileEnd \/ NameEnd \/ Check

-----------------------------------------------------------------------------
\* dhcp_packet_dump, after parse: it looks at the cookie, but not at the overload.
parseVars == <<header, areas, area, pos, options, overload, verdict>>

Dumping == verdict \in {"parsed", "error"} /\ dump = "open"
Text == areas["options"]
HasOptions == header \in {"good", "notEthernet"}

DumpHeaderOnly ==
  /\ Dumping /\ ~HasOptions
  /\ dump' = IF header = "short" THEN "malformed" ELSE "complete"
  /\ UNCHANGED <<parseVars, at, lines>>

DumpPad ==
  /\ Dumping /\ HasOptions /\ at <= Len(Text) /\ Text[at] = Pad
  /\ at' = at + 1
  /\ UNCHANGED <<parseVars, lines, dump>>

ShowsLength == at + 1 <= Len(Text)
ShowsValue == at + 1 + Text[at + 1] <= Len(Text)

DumpOption ==
  /\ Dumping /\ HasOptions /\ at <= Len(Text) /\ Text[at] \notin {Pad, End}
  /\ IF ~ShowsLength THEN dump' = "malformed" /\ UNCHANGED <<at, lines>>
     ELSE IF ~InBounds(Text, at + 1, at + 1) THEN dump' = "panic" /\ UNCHANGED <<at, lines>>
     ELSE IF ~ShowsValue THEN dump' = "malformed" /\ UNCHANGED <<at, lines>>
     ELSE LET last == at + 1 + Text[at + 1]
          IN IF ~InBounds(Text, at + 2, last) THEN dump' = "panic" /\ UNCHANGED <<at, lines>>
             ELSE /\ lines' = Append(lines, <<Text[at], SubSeq(Text, at + 2, last)>>)
                  /\ at' = last + 1
                  /\ UNCHANGED dump
  /\ UNCHANGED parseVars

StopAtPad ==
  /\ Dumping /\ HasOptions
  /\ at <= Len(Text) => Text[at] \in {Pad, End}
  /\ dump' = "complete"
  /\ UNCHANGED <<parseVars, at, lines>>

DumpEnd ==
  /\ Dumping /\ HasOptions
  /\ at <= Len(Text) => Text[at] = End
  /\ dump' = "complete"
  /\ UNCHANGED <<parseVars, at, lines>>

Dump == DumpHeaderOnly \/ DumpPad \/ DumpOption \/ DumpEnd

Next == Parse \/ Dump

Spec == Init /\ [][Next]_vars

-----------------------------------------------------------------------------
\* No packet, however short or torn, makes the server read behind the end of its
\* octets: a panic there would end serve, and the process (read_options and the loop
\* of dhcp_packet_dump, which keep their own positions and checks).
NoPanic == verdict # "panic" /\ dump # "panic"

(***************************************************************************)
(* The reference, from the end of the area to its beginning: the options   *)
(* from position i on, and whether they end as options should.             *)
(***************************************************************************)
Options(s) ==
  LET from[k \in 0 .. Len(s)] ==   \* k octets are left
        LET i == Len(s) + 1 - k
        IN IF k = 0 \/ s[i] = End THEN [whole |-> TRUE, list |-> <<>>]
           ELSE IF s[i] = Pad THEN from[k - 1]
           ELSE IF k = 1 \/ s[i + 1] > k - 2 THEN [whole |-> FALSE, list |-> <<>>]
           ELSE LET rest == from[k - 2 - s[i + 1]]
                IN [rest EXCEPT !.list =
                      <<<<s[i], SubSeq(s, i + 2, i + 1 + s[i + 1])>>>> \o @]
  IN from[Len(s)]

\* All parts of a code, one behind the other (RFC 3396).
Joined(list) ==
  LET Parts(c) == [i \in DOMAIN list |-> IF list[i][1] = c THEN list[i][2] ELSE <<>>]
  IN [c \in {list[i][1] : i \in DOMAIN list} |-> FlattenSeq(Parts(c))]

\* The areas that are in use, in the order of RFC 2131, section 4.1.
InUse ==
  LET first == Joined(Options(areas["options"]).list)
  IN IF Overload \notin DOMAIN first THEN <<"options">>
     ELSE CASE first[Overload] = <<1>> -> <<"options", "file">>
            [] first[Overload] = <<2>> -> <<"options", "sname">>
            [] first[Overload] = <<3>> -> <<"options", "file", "sname">>
            [] OTHER -> <<>>

Sound(o) ==
  /\ Message \in DOMAIN o /\ o[Message] \in {<<m>> : m \in Messages}
  /\ Pair \in DOMAIN o => Len(o[Pair]) = 2

\* What each of them holds, and all of it together.
Sent == [i \in DOMAIN InUse |-> Options(areas[InUse[i]])]
AllSent == Joined(FlattenSeq([i \in DOMAIN InUse |-> Sent[i].list]))
Untorn == InUse # <<>> /\ \A i \in DOMAIN InUse : areas[InUse[i]] # NotRead /\ Sent[i].whole

\* parse accepts a packet if and only if no area in use is torn and the options that
\* it then has, put together in the order of the standard, are sound; and these are
\* the options of the packet (an overload inside an overloaded field has no effect).
OptionsAsSent ==
  /\ verdict = "parsed" => header = "good" /\ Untorn /\ Sound(AllSent) /\ options = AllSent
  /\ verdict = "error" /\ header = "good" => ~(Untorn /\ Sound(AllSent))

\* The log of a packet shows what parse read: it ends in a complaint only if parse
\* refused the packet, and its options are those of parse, which adds to them only
\* from overloaded fields.
DumpAgrees ==
  LET shown == Joined(lines)
  IN /\ dump = "malformed" => verdict = "error"
     /\ verdict = "parsed" /\ dump = "complete" =>
          /\ DOMAIN shown \subseteq DOMAIN options
          /\ \A c \in DOMAIN shown : IsPrefix(shown[c], options[c])
          /\ overload = <<>> => shown = options
=============================================================================
