------------------------------ MODULE MCFlowId ------------------------------
(* Addresses and strategy sets for checking FlowId.                        *)
EXTENDS FlowId

MCSrc4 == <<192, 0, 2, 1>>
MCDst4 == <<198, 51, 100, 9>>
MCSrc6 == <<32, 1, 13, 184, 0, 0, 0, 0, 0, 0, 0, 0, 0, 0, 0, 1>>
MCDst6 == <<32, 1, 13, 184, 0, 0, 0, 0, 0, 0, 0, 0, 0, 0, 255, 9>>

\* The strategies mda_send has an IPv4 branch for.
V4Handled == {"udp-dst", "udp-sport", "icmp-dst", "icmp-chk", "tcp-dst", "tcp-sport"}

\* Every strategy over IPv6, and every IPv4 strategy but tcp-sport.
MCStrategies == ({4} \X (V4Handled \ {"tcp-sport"})) \cup ({6} \X FlowTypes)

\* IPv4 with tcp-sport.
MCTcpSport == {<<4, "tcp-sport">>}
=============================================================================
