------------------------------- MODULE Packet -------------------------------
(***************************************************************************)
(* The IPv4 and ICMPv4 builders of src/src/pdu_ipv4.c, pdu_icmpv4.c and    *)
(* packet_helper.c, byte by byte.  A packet is the sequence of its bytes   *)
(* from the IPv4 header on; the Ethernet header is left out, as it takes   *)
(* part in no checksum and no field that is read back.                     *)
(***************************************************************************)
EXTENDS Integers, Sequences, Checksum

\* The header constants the builders use.
IPV4_IHL == 5
IPV4_IHL_MASK == 15
PROTO_ICMPV4 == 1
PROTO_TCP == 6
PROTO_UDP == 17
ICMPV4_TYPE_ECHO == 8
ICMPV4_NO_CODE == 0
ICMPV6_TYPE_ECHO == 128
ICMPV6_NO_CODE == 0
PROTO_ICMPV6 == 58
TCP_DATA_OFFSET == 5
TCP_FLAGS_MASK == 63
TCP_SYN == 2
\* IPV6_FL_MASK: pdu_ipv6.h is not in the repository; the flow label is the
\* 20-bit field of the IPv6 header.
IPV6_FL_MASK == 1048575

\* htonl followed by a store: the bytes of a uint32 in network order.
Be32(x) == Be16(x \div 65536) \o Be16(x % 65536)

(* Positions count from the IPv4 header (1..20); an ICMP echo header and  *)
(* its 2 data bytes follow (21..30).                                       *)

\* pdu_ipv4: the header as appended, in memory order.
PduIpv4(ihl, tos, length, id, flagsOff, ttl, protocol, checksum, src, dst) ==
    <<4 * 16 + (ihl % (IPV4_IHL_MASK + 1)), tos>> \o Be16(length) \o Be16(id)
        \o Be16(flagsOff) \o <<ttl, protocol>> \o Le16(checksum) \o src \o dst

\* pdu_icmpv4_echo: body = htonl((id << 16) + seq_num).  The shift is done
\* in int and overflows for id >= 32768 (ICMP_ID is 54321); the build
\* wraps it to 32 bits, which puts id in the high and seq_num in the low
\* half.
PduIcmpv4Echo(checksum, id, seqNum) ==
    <<ICMPV4_TYPE_ECHO, ICMPV4_NO_CODE>> \o Le16(checksum)
        \o Be16(id) \o Be16(seqNum)

\* pdu_ipv4_length: the total length from the IPv4 header to the end.
PduIpv4Length(ip, rest) == Store2(ip, 3, Be16(Len(ip) + Len(rest)))

\* pdu_ipv4_checksum: zero the field, then store checksum() over the header.
PduIpv4Checksum(ip) ==
    LET z == Store2(ip, 11, <<0, 0>>) IN Store2(z, 11, Le16(Checksum(z)))

\* pdu_icmpv4_checksum: the same over the ICMP header and the data after it.
PduIcmpv4Checksum(icmp) ==
    LET z == Store2(icmp, 3, <<0, 0>>) IN Store2(z, 3, Le16(Checksum(z)))

\* Mutant: the data bytes are never exchanged with the checksum.
PacketHelperEcho4NoSwap(ipSrc, ipDst, ttl, ipId, icmpId, seqNum, checksum) ==
    LET icmp == PduIcmpv4Echo(0, icmpId, seqNum) \o Be16(checksum)
        ip == PduIpv4(IPV4_IHL, 0, 0, ipId, 0, ttl, PROTO_ICMPV4, 0, ipSrc, ipDst)
    IN PduIpv4Checksum(PduIpv4Length(ip, icmp)) \o PduIcmpv4Checksum(icmp)

\* packet_helper_echo4: the headers, 2 data bytes htons(checksum), the
\* lengths and checksums, then buff_swap of the data with the ICMP checksum
\* field, so that the field carries the chosen value and the packet still
\* verifies.
PacketHelperEcho4(ipSrc, ipDst, ttl, ipId, icmpId, seqNum, checksum) ==
    LET icmp == PduIcmpv4Echo(0, icmpId, seqNum) \o Be16(checksum)
        ip == PduIpv4(IPV4_IHL, 0, 0, ipId, 0, ttl, PROTO_ICMPV4, 0, ipSrc, ipDst)
    IN PduIpv4Checksum(PduIpv4Length(ip, icmp))
           \o BuffSwap(PduIcmpv4Checksum(icmp), 9, 3)

-----------------------------------------------------------------------------
(* The IPv6, ICMPv6, TCP and UDP builders.                                 *)

\* pdu_ipv6: version 6, the traffic class and the masked flow label packed
\* into one htonl'ed word, then length, next header, hop limit and the
\* 16-byte addresses.
PduIpv6(tc, fl, length, nextHeader, hopLimit, src, dst) ==
    Be32(6 * 2^28 + U8(tc) * 2^20 + (fl % (IPV6_FL_MASK + 1)))
        \o Be16(length) \o <<nextHeader, hopLimit>> \o src \o dst

\* pdu_ipv6_length: the payload length, after the 40-byte header.
PduIpv6Length(ip, rest) == Store2(ip, 5, Be16(Len(rest)))

\* pdu_ipv6_next_header: the protocol of the block that follows.
PduIpv6NextHeader(ip, proto) == [ip EXCEPT ![7] = proto]

\* pdu_icmpv6_echo: as pdu_icmpv4_echo, with the ICMPv6 echo type.
PduIcmpv6Echo(checksum, id, seqNum) ==
    <<ICMPV6_TYPE_ECHO, ICMPV6_NO_CODE>> \o Le16(checksum)
        \o Be16(id) \o Be16(seqNum)

\* Mutant: the checksum over the message alone, as for ICMPv4.
PduIcmpv6ChecksumNoPh(icmp, ip) ==
    LET z == Store2(icmp, 3, <<0, 0>>) IN Store2(z, 3, Le16(Checksum(z)))

\* pdu_icmpv6_checksum: checksum() over the 40-byte pseudo-header (source,
\* destination, htonl(length), three zero bytes, PROTO_ICMPV6) followed by
\* the ICMPv6 message with its checksum field zeroed.
PduIcmpv6Checksum(icmp, ip) ==
    LET z == Store2(icmp, 3, <<0, 0>>)
        ph == SubSeq(ip, 9, 40) \o Be32(Len(icmp)) \o <<0, 0, 0, PROTO_ICMPV6>>
    IN Store2(z, 3, Le16(Checksum(ph \o z)))

\* packet_helper_echo6: the checksum trick of packet_helper_echo4 over IPv6.
PacketHelperEcho6(ipSrc, ipDst, tc, fl, hopLimit, icmpId, seqNum, checksum) ==
    LET icmp == PduIcmpv6Echo(0, icmpId, seqNum) \o Be16(checksum)
        ip == PduIpv6NextHeader(
                  PduIpv6Length(PduIpv6(tc, fl, 0, 0, hopLimit, ipSrc, ipDst), icmp),
                  PROTO_ICMPV6)
    IN ip \o BuffSwap(PduIcmpv6Checksum(icmp, ip), 9, 3)

\* pdu_tcp: ports, sequence and acknowledgement numbers in network order,
\* the data offset shifted into the high nibble, the masked flags.
PduTcp(srcPort, dstPort, seqNumb, ackNumb, offset, flags, winSize, checksum, urgPtr) ==
    Be16(srcPort) \o Be16(dstPort) \o Be32(seqNumb) \o Be32(ackNumb)
        \o <<U8(offset * 16), flags % (TCP_FLAGS_MASK + 1)>> \o Be16(winSize)
        \o Le16(checksum) \o Be16(urgPtr)

\* pdu_ipv4_ph: struct ipv4_ph in memory, the source and destination
\* addresses of the IPv4 header, a zero byte, the protocol and the length
\* as passed (already htons'ed by the caller).
PduIpv4Ph(ip, protocol, length) == SubSeq(ip, 13, 20) \o <<0, protocol>> \o length

\* Mutant: the TCP checksum over the segment alone.
PduTcpChecksum4NoPh(tcp, ip) ==
    LET z == Store2(tcp, 17, <<0, 0>>) IN Store2(z, 17, Le16(Checksum(z)))

\* pdu_tcp_checksum behind an IPv4 header: zero the field, then store
\* checksum() over the pseudo-header of pdu_ipv4_ph followed by the segment
\* (tcp_length = p->length - b->position, the TCP header of a SYN probe).
PduTcpChecksum4(tcp, ip) ==
    LET z == Store2(tcp, 17, <<0, 0>>)
    IN Store2(z, 17, Le16(Checksum(PduIpv4Ph(ip, PROTO_TCP, Be16(Len(tcp))) \o z)))

\* pdu_udp (its source is not in the repository; the header of pdu_udp.h
\* with the standard network-order fields).
PduUdp(srcPort, dstPort, length, checksum) ==
    Be16(srcPort) \o Be16(dstPort) \o Be16(length) \o Le16(checksum)
=============================================================================
