----------------------------- MODULE ReplySize -----------------------------
(***************************************************************************)
(* The numbers of reply in dhcp.rs: how long the answer gets, whether the  *)
(* relay option still fits, and the times of a lease.  Lengths are octets; *)
(* what is in them is of no interest here.                                 *)
(*                                                                         *)
(* The numbers of the protocol are constants, so that TLC can go through   *)
(* all lengths of a small one: in the code MaxChunk is 255, MinMaximum     *)
(* 576, MinReply 300 and Word 2^32.                                        *)
(***************************************************************************)
EXTENDS Integers, FiniteSets

CONSTANTS
  MaxChunk,    \* the longest value one option code can carry
  MinMaximum,  \* what every client accepts
  MinReply,    \* answers are padded up to this
  Word,        \* one more than the greatest u32
  MaxLength    \* bound on the lengths that come in, for TLC

ASSUME ReplySizeAssumption ==
  /\ MaxChunk \in Nat \ {0}
  /\ MinMaximum \in Nat /\ MinReply \in Nat /\ MinReply <= MinMaximum
  /\ Word \in Nat
  /\ MaxLength \in Nat

Absent == -1

VARIABLES
  lease,      \* config.dhcp.lease_seconds
  announced,  \* the value of option 57, or Absent
  relay,      \* the length of option 82 of a relayed packet, or Absent
  at,         \* where reply stands
  times,      \* the values of options 51, 58 and 59
  len,        \* bytes.len()
  rest,       \* what the loop of option has still to write of the relay option
  omitted,    \* relay_option_omitted
  fixed       \* bytes.len() before the relay option (only remembered)

input == <<lease, announced, relay>>
sizeVars == <<input, at, times, len, rest, omitted, fixed>>

SizeInit ==
  /\ lease \in 0 .. Word - 1
  /\ announced \in {Absent} \cup 0 .. MaxLength
  /\ relay \in {Absent} \cup 0 .. MaxLength
  /\ at = "options" /\ times = <<>>
  /\ len = 0 /\ rest = 0 /\ omitted = FALSE /\ fixed = 0

MultiplyAsU32(l) == ((l * 7) % Word) \div 8

rebinding(l) == ((l * 7) \div 8) % Word

\* Everything before the relay option, of any length.
Options ==
  /\ at = "options"
  /\ at' = "relay"
  /\ times' = IF lease >= 8 THEN <<lease, lease \div 2, rebinding(lease)>> ELSE <<lease>>
  /\ len' \in 0 .. MaxLength
  /\ fixed' = len'
  /\ UNCHANGED <<input, rest, omitted>>

CountOneHeader(n) == n + 2

encoded_size(n) == n + ((n + MaxChunk - 1) \div MaxChunk) * 2

maximum == IF announced < MinMaximum THEN MinMaximum ELSE announced

RelayOption ==
  /\ at = "relay"
  /\ IF relay = Absent
       THEN at' = "end" /\ UNCHANGED <<rest, omitted>>
     ELSE IF len + encoded_size(relay) < maximum
       THEN at' = "chunks" /\ rest' = relay /\ UNCHANGED omitted
       ELSE at' = "end" /\ omitted' = TRUE /\ UNCHANGED rest
  /\ UNCHANGED <<input, times, len, fixed>>

\* option: one chunk after the other, each behind its code and its length.
Chunk ==
  /\ at = "chunks"
  /\ IF rest = 0 THEN at' = "end" /\ UNCHANGED <<len, rest>>
     ELSE LET n == IF rest > MaxChunk THEN MaxChunk ELSE rest
          IN  len' = len + 2 + n /\ rest' = rest - n /\ UNCHANGED at
  /\ UNCHANGED <<input, times, omitted, fixed>>

\* The END octet; then the answer is refused if too long, padded if too short.
End ==
  /\ at = "end"
  /\ IF len + 1 > maximum
       THEN at' = "error" /\ len' = len + 1
       ELSE at' = "sent" /\ len' = IF len + 1 < MinReply THEN MinReply ELSE len + 1
  /\ UNCHANGED <<input, times, rest, omitted, fixed>>

SizeNext == Options \/ RelayOption \/ Chunk \/ End

SizeSpec == SizeInit /\ [][SizeNext]_sizeVars

-----------------------------------------------------------------------------
SizeTypeOK ==
  /\ lease \in 0 .. Word - 1
  /\ announced \in {Absent} \cup 0 .. MaxLength
  /\ relay \in {Absent} \cup 0 .. MaxLength
  /\ at \in {"options", "relay", "chunks", "end", "sent", "error"}
  /\ len \in Nat /\ rest \in Nat /\ fixed \in Nat
  /\ omitted \in BOOLEAN

SentFits == at = "sent" => len \in MinReply .. maximum

\* The octets of an option: those of its value, and a code and a length in front of
\* every MaxChunk of them.
Headers(n) == Cardinality({i \in 0 .. n - 1 : i % MaxChunk = 0})
OptionOctets(n) == n + 2 * Headers(n)

\* No answer is longer than its client accepts, whatever maximum it announced, nor
\* shorter than old relays and clients need; and the relay option is there whole,
\* with a header for every chunk, if and only if it fits with the END octet: the
\* forecast of reply is what option writes, neither more, which would leave out an
\* option that fits, nor less, which would make an error of an answer that fits
\* without it (encoded_size, the chunks of option, and the last lines of reply).
RelayWhenItFits ==
  /\ SentFits
  /\ at \in {"end", "sent", "error"} =>
       (omitted <=> relay # Absent /\ fixed + OptionOctets(relay) + 1 > maximum)
  /\ at = "end" => len = fixed + (IF relay = Absent \/ omitted THEN 0 ELSE OptionOctets(relay))
  /\ at = "error" => fixed + 1 > maximum

\* A client renews before it rebinds and rebinds before the lease ends, for
\* every lease a u32 holds; a lease too short to divide comes without the two
\* times (options 51, 58, 59; lease_seconds * 7 is computed in 64 bits).
TimesInOrder ==
  times # <<>> =>
    \/ times = <<lease>> /\ lease < 8
    \/ /\ times = <<lease, times[2], times[3]>>
       /\ 0 < times[2] /\ times[2] < times[3] /\ times[3] < lease
=============================================================================
