------------------------------- MODULE MCPing -------------------------------
(* Addresses and bounds for checking Ping with TLC.                        *)
EXTENDS Ping

MCSrcAddr == <<10, 0, 0, 1>>
MCDstAddr == <<192, 0, 2, 7>>

\* 0, 1 and 255 make carries out of both folds and odd trailing bytes.
MCEdgeBytes == {0, 1, 255}
=============================================================================
