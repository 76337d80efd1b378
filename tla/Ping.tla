-------------------------------- MODULE Ping --------------------------------
(***************************************************************************)
(* The ping mode (mt_ping, src/src/mt_ping.c) over IPv4, with the echo     *)
(* probe it builds (packet_helper_echo4, src/src/packet_helper.c) down to  *)
(* the bytes of its IPv4 and ICMP headers (Packet).                                 *)
(*                                                                         *)
(* Each iteration builds one echo request, submits it, waits for it with   *)
(* mt_wait (one step, as in Traceroute) and prints it.  The path: routers  *)
(* at hops 1..DstHop-1 answer a probe whose TTL runs out with a            *)
(* time-exceeded, which match_icmp4 matches through the quoted ICMP body;  *)
(* the destination answers the others with an echo reply.  A router also   *)
(* answers a probe sent with TTL 0.                                        *)
(***************************************************************************)
EXTENDS Integers, Sequences, Packet

CONSTANTS
    Count,       \* n, the ping count (option -n)
    DstHops,     \* the hop counts the destination may be at
    LossModes,   \* subset of BOOLEAN: whether the path may lose packets
    SrcAddr,     \* dst->ip_src->addr: 4 bytes
    DstAddr,     \* dst->ip_dst->addr: 4 bytes
    EdgeBytes,   \* byte values for the checksum reference check
    EdgeLen,     \* the longest buffer of that check
    Exceeded, EchoReply, NoResp

ASSUME /\ Count \in Nat /\ DstHops \subseteq 1..255 /\ LossModes \subseteq BOOLEAN
       /\ SrcAddr \in [1..4 -> 0..255] /\ DstAddr \in [1..4 -> 0..255]

\* mt_ping.c and the headers it uses.
IP_ID == 54321
CHECKSUM == 54321
ICMP_ID == 54321
IPV4_TTL == 64

VARIABLES
    DstHop,   \* the path: hop count of the destination (fixed in a run)
    Lossy,    \* the path loses packets (fixed in a run)
    probeC,   \* probe_c
    pc,       \* "send", "wait", "print" or "done"
    probe,    \* the bytes of the probe's IPv4 header, ICMP header and data
    resp,     \* the probe's response: [type, from], or NoResp
    last      \* the line printed last: [seq, ttl, from], or NoResp

path == <<DstHop, Lossy>>
vars == <<DstHop, Lossy, probeC, pc, probe, resp, last>>

Resp == [type : {Exceeded, EchoReply}, from : 1..255]

TypeOK ==
    /\ DstHop \in DstHops /\ Lossy \in LossModes
    /\ probeC \in 1..Count + 1
    /\ pc \in {"send", "wait", "print", "done"}
    /\ probe \in Seq(0..255)
    /\ resp \in Resp \cup {NoResp}
    /\ last \in [seq : 0..65535, ttl : -128..127, from : 1..255] \cup {NoResp}

\* The probe's TTL byte.
ProbeTtl(b) == b[9]

\* get_ip4_ttl returns it as a char, signed on the build's target, and
\* ping4_print stores that in an int.
PrintedTtl(b) == IF b[9] >= 128 THEN b[9] - 256 ELSE b[9]

\* get_icmp4_seqnum: the low half of ntohl(body).
ProbeSeq(b) == Ntohs(b, 27)

-----------------------------------------------------------------------------
(* mt_ping.                                                                *)

Init ==
    /\ DstHop \in DstHops
    /\ Lossy \in LossModes
    /\ probeC = 1
    /\ pc = "send"
    /\ probe = <<>>
    /\ resp = NoResp
    /\ last = NoResp

\* Mutant: the loop runs one probe too many.
MorePingsOffByOne == probeC <= Count + 1

\* probe_c <= n, the for loop's condition.
MorePings == probeC <= Count

\* The loop body up to mt_send: packet_helper_echo4 is called with
\* IP_ID + probe_c in the ttl parameter and IPV4_TTL in the ip_id one; the
\* parameters are uint8_t and uint16_t.
SendEcho ==
    /\ pc = "send"
    /\ MorePings
    /\ probe' = PacketHelperEcho4(SrcAddr, DstAddr, U8(IP_ID + probeC), U16(IPV4_TTL), U16(ICMP_ID),
                                  U16(probeC), U16(CHECKSUM))
    /\ pc' = "wait"
    /\ UNCHANGED <<path, probeC, resp, last>>

\* The answers match_icmp4 accepts for a probe with TTL t.
Answers(t) ==
    IF t < DstHop THEN {[type |-> Exceeded, from |-> IF t = 0 THEN 1 ELSE t]}
    ELSE {[type |-> EchoReply, from |-> DstHop]}

\* mt_wait returns with the probe answered or given up.
MtWait ==
    /\ pc = "wait"
    /\ resp' \in Answers(ProbeTtl(probe)) \cup (IF Lossy THEN {NoResp} ELSE {})
    /\ pc' = "print"
    /\ UNCHANGED <<path, probeC, probe, last>>

\* list_pop, ping4_print (the responder, icmp_seq and ttl read from the
\* probe, or '*'), then probe_c++.
PrintPing ==
    /\ pc = "print"
    /\ last' = IF resp = NoResp THEN NoResp
               ELSE [seq |-> ProbeSeq(probe), ttl |-> PrintedTtl(probe), from |-> resp.from]
    /\ probeC' = probeC + 1
    /\ pc' = "send"
    /\ UNCHANGED <<path, probe, resp>>

\* The for loop ends: mt_ping returns 0.
PingDone ==
    /\ pc = "send"
    /\ ~MorePings
    /\ pc' = "done"
    /\ UNCHANGED <<path, probeC, probe, resp, last>>

Terminated == pc = "done" /\ UNCHANGED vars

Next == SendEcho \/ MtWait \/ PrintPing \/ PingDone \/ Terminated

Spec == Init /\ [][Next]_vars /\ WF_vars(Next)

-----------------------------------------------------------------------------
(* Properties.                                                             *)

\* The checksum trick of packet_helper_echo4: the probe on the wire carries
\* CHECKSUM in its ICMP checksum field, and both its IPv4 header and its
\* ICMP message still verify in network order.
ChecksumTrickSound ==
    pc = "wait" =>
        /\ Verifies(SubSeq(probe, 1, 20))
        /\ Verifies(SubSeq(probe, 21, Len(probe)))
        /\ Ntohs(probe, 23) = CHECKSUM

\* checksum() over host-order words, stored in host order, writes the bytes
\* RFC 1071 defines, for every buffer of up to EdgeLen bytes drawn from
\* EdgeBytes, odd lengths and carries out of both folds included.  It
\* does not depend on the state and is evaluated before the first probe.
ChecksumMatchesRef ==
    probeC = 1 /\ probe = <<>> =>
    \A n \in 0..EdgeLen : \A b \in [1..n -> EdgeBytes] :
        Le16(Checksum(b)) = RefChecksumBytes(b)

\* Every reply ping prints comes from the destination (ping sends echo
\* requests with the default TTL, IPV4_TTL).
PingRepliesFromDestination ==
    last # NoResp => last.from = DstHop
=============================================================================
