------------------------------- MODULE Match -------------------------------
(***************************************************************************)
(* The correlation predicates of src/src/match.c, byte by byte.  A frame   *)
(* is the sequence of its bytes from the Ethernet header on, as pcap hands *)
(* it to mt_receive and as the packet helpers build a probe.  A pointer    *)
(* into a frame is a 0-based offset, and a header field is the run of      *)
(* bytes the struct member covers: the predicates compare fields as they   *)
(* lie in memory, in network order.                                        *)
(***************************************************************************)
EXTENDS Integers, Sequences, Packet

ETH_H_SIZE == 14
ETH_TYPE_IPV4 == 2048
ETH_TYPE_IPV6 == 34525
IPV4_H_SIZE == 20
\* pdu_ipv6.h is not in the repository: the fixed IPv6 header is 40 bytes.
IPV6_H_SIZE == 40
ICMPV4_H_SIZE == 8
ICMPV6_H_SIZE == 8
ICMPV4_TYPE_ECHOREPLY == 0
ICMPV4_TYPE_UNREACH == 3
ICMPV4_TYPE_EXCEEDED == 11
ICMPV6_TYPE_UNREACH == 1
ICMPV6_TYPE_EXCEEDED == 3
ICMPV6_TYPE_ECHOREPLY == 129

\* The n bytes of a field at offset off.
Field(b, off, n) == SubSeq(b, off + 1, off + n)

\* The struct members the predicates read: the ICMP type and body, the UDP
\* ports and checksum, the TCP ports and sequence number.
IcmpType(b, off) == b[off + 1]
IcmpBody(b, off) == Field(b, off + 4, 4)
SrcPort16(b, off) == Field(b, off, 2)
DstPort16(b, off) == Field(b, off + 2, 2)
UdpChecksum(b, off) == Field(b, off + 6, 2)
TcpSeq(b, off) == Field(b, off + 4, 4)

\* get_proto4 / get_proto6: the IP protocol (next header) of an IPv4
\* (IPv6) frame, or -1 when the Ethernet type is another.
get_proto4(b) ==
    IF Ntohs(b, 13) # ETH_TYPE_IPV4 THEN -1 ELSE b[ETH_H_SIZE + 10]
get_proto6(b) ==
    IF Ntohs(b, 13) # ETH_TYPE_IPV6 THEN -1 ELSE b[ETH_H_SIZE + 7]

\* get_transport4/6 of the IP header at the Ethernet header's end: the
\* transport header, with no IPv4 options and no IPv6 extension header.
Layer4v4 == ETH_H_SIZE + IPV4_H_SIZE
Layer4v6 == ETH_H_SIZE + IPV6_H_SIZE

\* get_inner4/6: the transport header quoted by an ICMP error, after the
\* ICMP header and the quoted IP header.
get_inner4(off) == off + ICMPV4_H_SIZE + IPV4_H_SIZE
get_inner6(off) == off + ICMPV6_H_SIZE + IPV6_H_SIZE

Errors4 == {ICMPV4_TYPE_EXCEEDED, ICMPV4_TYPE_UNREACH}
Errors6 == {ICMPV6_TYPE_EXCEEDED, ICMPV6_TYPE_UNREACH}

\* match_icmp4: an ICMP error quoting the probe's echo body, or an echo
\* reply with the same body.
match_icmp4(p, r) ==
    /\ get_proto4(r) = PROTO_ICMPV4
    /\ \/ /\ IcmpType(r, Layer4v4) \in Errors4
          /\ IcmpBody(p, Layer4v4) = IcmpBody(r, get_inner4(Layer4v4))
       \/ /\ IcmpType(r, Layer4v4) = ICMPV4_TYPE_ECHOREPLY
          /\ IcmpBody(p, Layer4v4) = IcmpBody(r, Layer4v4)

\* match_icmp6: the same over ICMPv6.
match_icmp6(p, r) ==
    /\ get_proto6(r) = PROTO_ICMPV6
    /\ \/ /\ IcmpType(r, Layer4v6) \in Errors6
          /\ IcmpBody(p, Layer4v6) = IcmpBody(r, get_inner6(Layer4v6))
       \/ /\ IcmpType(r, Layer4v6) = ICMPV6_TYPE_ECHOREPLY
          /\ IcmpBody(p, Layer4v6) = IcmpBody(r, Layer4v6)

\* Mutant: the quoted UDP checksum is not compared.
match_udp4_NoChecksum(p, r) ==
    /\ get_proto4(r) = PROTO_ICMPV4
    /\ IcmpType(r, Layer4v4) \in Errors4
    /\ SrcPort16(p, Layer4v4) = SrcPort16(r, get_inner4(Layer4v4))
    /\ DstPort16(p, Layer4v4) = DstPort16(r, get_inner4(Layer4v4))

\* match_udp4: an ICMP error quoting the probe's ports and UDP checksum.
match_udp4(p, r) ==
    /\ get_proto4(r) = PROTO_ICMPV4
    /\ IcmpType(r, Layer4v4) \in Errors4
    /\ SrcPort16(p, Layer4v4) = SrcPort16(r, get_inner4(Layer4v4))
    /\ DstPort16(p, Layer4v4) = DstPort16(r, get_inner4(Layer4v4))
    /\ UdpChecksum(p, Layer4v4) = UdpChecksum(r, get_inner4(Layer4v4))

\* match_udp6: the same over ICMPv6.
match_udp6(p, r) ==
    /\ get_proto6(r) = PROTO_ICMPV6
    /\ IcmpType(r, Layer4v6) \in Errors6
    /\ SrcPort16(p, Layer4v6) = SrcPort16(r, get_inner6(Layer4v6))
    /\ DstPort16(p, Layer4v6) = DstPort16(r, get_inner6(Layer4v6))
    /\ UdpChecksum(p, Layer4v6) = UdpChecksum(r, get_inner6(Layer4v6))

\* match_tcp4: a TCP frame passes the protocol test and then matches
\* nothing; only an ICMP error quoting the probe's sequence number and
\* ports is accepted.
match_tcp4(p, r) ==
    /\ get_proto4(r) = PROTO_ICMPV4
    /\ IcmpType(r, Layer4v4) \in Errors4
    /\ TcpSeq(p, Layer4v4) = TcpSeq(r, get_inner4(Layer4v4))
    /\ SrcPort16(p, Layer4v4) = SrcPort16(r, get_inner4(Layer4v4))
    /\ DstPort16(p, Layer4v4) = DstPort16(r, get_inner4(Layer4v4))

\* match_tcp6: the same over ICMPv6.
match_tcp6(p, r) ==
    /\ get_proto6(r) = PROTO_ICMPV6
    /\ IcmpType(r, Layer4v6) \in Errors6
    /\ TcpSeq(p, Layer4v6) = TcpSeq(r, get_inner6(Layer4v6))
    /\ SrcPort16(p, Layer4v6) = SrcPort16(r, get_inner6(Layer4v6))
    /\ DstPort16(p, Layer4v6) = DstPort16(r, get_inner6(Layer4v6))

\* probe_match's call p->fn(p->probe, p->probe_len, buf, len), the
\* predicate named by the match_fn a mode passed to mt_send.
ProbeMatch(fn, p, r) ==
    CASE fn = "match_icmp4" -> match_icmp4(p, r)
      [] fn = "match_icmp6" -> match_icmp6(p, r)
      [] fn = "match_udp4"  -> match_udp4(p, r)
      [] fn = "match_udp6"  -> match_udp6(p, r)
      [] fn = "match_tcp4"  -> match_tcp4(p, r)
      [] fn = "match_tcp6"  -> match_tcp6(p, r)
=============================================================================
