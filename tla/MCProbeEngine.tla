--------------------------- MODULE MCProbeEngine ---------------------------
(***************************************************************************)
(* Model-checking instances of ProbeEngine.                                *)
(***************************************************************************)
EXTENDS ProbeEngine

\* The UDP probe of traceroute with TTL t (mt_traceroute.c): source port
\* SPORT, destination port DPORT, checksum forced to t.
UdpKey(t) == [sport |-> 43435, dport |-> 33435, chk |-> t]

\* traceroute -m udp -p 2 -h 3: TTLs 1 and 2 at once, then TTL 3.
TracerouteBatches == <<<<UdpKey(1), UdpKey(2)>>, <<UdpKey(3)>>>>

\* mda: more_flows sends flow f at TTL h and next_hops sends flow f again
\* at TTL h+1 with the same probe id (mt_mda.c); with udp-dst flows the
\* ports are fixed and the checksum is the probe id, so both probes carry
\* the same key.
MdaBatches == <<<<UdpKey(1)>>, <<UdpKey(1)>>>>

\* A single probe (ping -n 1, or the first traceroute round with -p 1).
SingleBatch == <<<<UdpKey(1)>>>>

\* mtraceroute -r -1: parse_int accepts a negative retry count.
NegativeRetries == -1

\* Bounds: a batch needs at most (Retries + 1) * (Timeout + 1) seconds.
MCMaxTime == 14

\* A shorter horizon for a single probe that is retried every second.
MCMaxTimeShort == 6
=============================================================================
