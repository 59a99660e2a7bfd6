--------------------------------- MODULE Ip ---------------------------------
(***************************************************************************)
(* What ip_out puts on the wire and what ip_in accepts: byte order and the  *)
(* checksums of the IP header and of an ICMP message.  A header is a        *)
(* sequence of 16-bit words in host order, the checksum word left out.      *)
(* Headers are built one word at a time, so that TLC visits them all.       *)
(***************************************************************************)
EXTENDS Integers, Sequences, SequencesExt

CONSTANTS Words,    \* values of a header word
          MaxWords  \* bound: words in a header

ASSUME IpAssumption == Words \subseteq 0..65535 /\ MaxWords \in Nat

VARIABLE hdr        \* the header that is built

ipVars == <<hdr>>

IpInit == hdr = <<>>
Fill(w) == Len(hdr) < MaxWords /\ hdr' = Append(hdr, w)
IpNext == \E w \in Words : Fill(w)

-----------------------------------------------------------------------------
\* htons on the little-endian machine; ntohs is the same function.
swap16(w) == (w % 256) * 256 + (w \div 256)
Swapped(h) == [i \in DOMAIN h |-> swap16(h[i])]

Sum(h) == FoldSeq(LAMBDA w, acc : swap16(w) + acc, 0, h)

\* The carry is added in once, and the result complemented and cut to 16 bits.
\* Seeded bug: the carry is not added in.
FoldNone(s) == 65535 - (s % 65536)
Fold(s) == 65535 - ((s + (s \div 65536)) % 65536)

\* ipcksum: the header is in network order; all-ones is written as zero.
ipcksum(h) == LET c == Fold(Sum(h)) IN IF c = 65535 THEN 0 ELSE c
\* icmp_cksum: the same sum over the message, without that rule.
icmp_cksum(h) == Fold(Sum(h))

\* ip_out: convert the fields, then store the checksum in network order.
ip_out(h) == Append(Swapped(h), swap16(ipcksum(Append(Swapped(h), 0))))

\* ip_in: what arrives is dropped unless the sum of its words is zero, then converted back.
ip_inAccepts(wire) == ipcksum(wire) = 0
icmp_inAccepts(wire) == icmp_cksum(wire) = 0
ip_inFields(wire) == [i \in 1..Len(wire) - 1 |-> swap16(wire[i])]

-----------------------------------------------------------------------------
\* The Internet checksum of RFC 791: the word that makes the sum of all words a multiple
\* of 65535, in which every carry is added in.
RefCksum(h) == (65535 - (Sum(Swapped(h)) % 65535)) % 65535
Stamped(h, c) == Append(Swapped(h), swap16(c))

\* A header that any host stamps with the Internet checksum is accepted by ip_in, with the
\* fields that were sent, whatever the number of carries in its sum; so is an ICMP message, in which a
\* checksum of zero is sent as all ones.
StampedAccepted ==
    /\ ip_inAccepts(Stamped(hdr, RefCksum(hdr)))
    /\ ip_inFields(Stamped(hdr, RefCksum(hdr))) = hdr
    /\ icmp_inAccepts(Stamped(hdr, IF RefCksum(hdr) = 0 THEN 65535 ELSE RefCksum(hdr)))

=============================================================================
