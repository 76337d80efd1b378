# TLA+ models of mtraceroute

This directory holds TLA+ models of the C program under `src/src/`, with the
TLC configurations that check them. mtraceroute sends hand-built IPv4/IPv6
probes (ICMP echo, UDP, TCP SYN) over a raw link socket. It captures answers
with libpcap, correlates each answer with the probe that caused it, and has
three modes on top of that engine: ping, traceroute and MDA (Paris-traceroute
multipath detection).

## The system

| Part | Source | State | Operations |
|------|--------|-------|------------|
| Probe engine | `mt.c`, `probe.c` | per interface: the probe list (`i->probes`); per probe: bytes, `sent_time`, `retries`, response; global: `probes_count`, `last_probe_time`, `retries`, `probe_timeout`, `send_wait` | `mt_send` (submit plus pacing sleep), `mt_retry`, `mt_receive` (offer a frame to every unanswered probe), `mt_unanswered_probes` (timeout and retry sweep), `mt_wait` (sweep, then `pcap_next_ex`, until nothing is pending) |
| Correlation predicates | `match.c`, `probe.c` (`probe_match`) | none | `match_icmp4/6` (id+seq), `match_udp4/6` (ports and checksum), `match_tcp4/6` (ports and sequence, ICMP errors only) |
| Ping | `mt_ping.c` | `probe_c` | one echo probe per iteration, `mt_wait`, pop, print |
| Traceroute | `mt_traceroute.c` | `ttl`, `pn`, `finished` | rounds of `at_once` probes at consecutive TTLs, `mt_wait`, a FIFO pop loop printing up to the first arrival |
| MDA | `mt_mda.c` | `flow_list` of (ttl, flow id, responder, type), next-hop lists, the k table | `more_flows`, `next_hops`, `is_per_packet`, `mda_read_response`, `get_nth_flow_id_available`, the per-TTL per-address loop of `mda` |
| Packet builder | `packet.c`, `buffer.c`, `pdu_*.c`, `packet_helper.c`, `checksum.c` | a block list per packet | append headers, finalize (lengths, checksums, IPv6 pseudo-header), the checksum/flow-id injection trick |
| Lists | `list.c`, `list.h` | doubly linked list: `first`, `last`, `count`, items with `next`, `previous`, `data` | `list_create`, `list_insert` at the tail, `list_pop` from the head, `list_find`, `list_destroy` (`list_remove` and `list_insert_unique` have no caller) |
| Time | `util.c` | none | `timeval_diff`, `timeval_to_str`, `timeval_diff_to_str`, with which the modes print RTTs |
| Bootstrap | `mt.c` (`main`, caches, `mt_create`, `mt_destroy`), `dst.c`, `route.c`, `iface.c`, `link.c`, `mt_nd.c`, `addr.c` | the session `mt`: route, neighbour and interface lists; the `dst` | `check_permissions`, `get_args`, `dst_create_from_str`, `dst_create`, `mt_get_route`/`route_create` (netlink), `mt_get_neighbor`/`mt_nd` (ARP or neighbour solicitation via `mt_send`/`mt_wait`), `mt_get_interface` (ioctl, link socket, pcap open), `dst_destroy`, `mt_destroy` |
| CLI | `args.c`, `args.h` | `struct args` | `get_args` (defaults, option table), `parse_args` (optstring, `getopt_long` loop, dispatch through `get_xoption`, destination), the `parse_*` functions |

How the parts interact. A mode builds probes with the packet builder and
submits them with `mt_send` to the probe list of the egress interface. Then
it calls `mt_wait`, which alternates a sweep (retransmit timed-out probes,
count pending ones) with one `pcap_next_ex`. `mt_wait` feeds every captured
frame to `mt_receive`, which runs each unanswered probe's predicate on it.
When `mt_wait` returns, the mode pops every probe and reads its response.
There is one thread. Concurrency is the many probes in flight at once, the
network losing and reordering their answers, and the kernel capture buffer.
The buffer keeps frames that arrive while nobody polls, so a frame can be
read by a later `mt_wait` than the one that sent its probe.

Hard behaviours the code meets:
- lost, late and reordered answers;
- retries after a timeout measured in whole seconds;
- pacing between submissions;
- correlation keys reused across batches, as in MDA;
- one frame matching several probes;
- the MDA stopping rule and its table index;
- option values that `parse_int` accepts unchecked: negative retries, zero probes per round.

Correctness properties that matter:
- an answer is recorded only for the probe that caused it;
- a match is final;
- `mt_wait` returns, and only when every probe is settled;
- traceroute prints hop by hop and stops at the destination;
- MDA probes enough distinct flows for its confidence before it stops;
- checksums are right in any byte order;
- the flow id written into a probe is the one read back from it.
- the RTT printed is the time from the transmission answered to the answer's capture;
- a packet's block list stays a well-formed FIFO list and its bytes survive buffer growth and failed allocations;
- every documented command line is accepted and sets the options it names;
- setting up the destination either gives the mode the route's interface, its addresses and the gateway's MAC, or ends with a message and exit status 1, and the session frees what it allocated.

## Modules

### ProbeEngine (`ProbeEngine.tla`, instantiated by `MCProbeEngine.tla`)

This module models the engine on one interface, driven by a sequence of
batches (the constant `Batches`). Each batch is a sequence of correlation
keys: the fields `match_udp4` compares, which are source port, destination
port and UDP checksum. The driver is the pattern all modes share: submit a
batch, `mt_wait`, pop every probe.

State and correspondence to the code:
- `probes` is `i->probes`, and each record carries `sent` (`sent_time`), `retries` and `resp` (the frame, or `NoResp` for `response_len == 0`).
- `probesCount` and `lastProbe` are `a->probes_count` and `a->last_probe_time`.
- `now` is the clock in ticks. `TicksPerSec` ticks make one second, the unit `probe_timeout` compares.
- `wire` holds the transmissions the network has not yet answered or lost.
- `pcapBuf` is the kernel capture buffer.

A frame and a transmission carry the probe id and the transmission time as
history. The code cannot see them; properties use them.

Actions:
- `MtSend` is `mt_send`: `link_write` stamps `sent_time`, then the pacing sleep, then `probes_count++` and `last_probe_time`.
- `MtUnansweredProbes` is one whole sweep: retry every timed-out probe with retries left, then go to the poll if some probe is pending, else leave `mt_wait`.
- `Capture` is `pcap_next_ex` returning a frame, followed by `mt_receive`.
- `PollTimeout` is the poll returning nothing (the clock advances).
- `Collect` is the mode popping the list.
- `Reply` and `Lose` are the network.

The retry counter saturates at `RetryCap`. With `Retries >= 0` it never gets
there. With a negative `Retries` the probe still retries for ever, as in the
code.

The RTT a mode prints for a probe is `timeval_diff_to_str(response_time,
sent_time)`. A frame carries its pcap timestamp `ts` (the tick of its
arrival in the capture buffer). `Tv` turns a tick into the `struct timeval`
`gettimeofday` gives. `ResponseTime` is the way the timestamp reaches
`response_time`: `mt_wait` copies the pcap header's timeval into a `struct
timespec` (`tv_nsec = tv_usec * 1000`, `PcapTimespec`), and `probe_match`
takes it through a `const struct timeval *` (`AsTimeval`). The `Timeval`
module holds these conversions and `timeval_diff` and `timeval_to_str`
(with its `uint32_t` total), as operators.

**Refinement.** `ProbeLifecycle` is the lifecycle the engine promises, per
probe: Unsent, Sent, then Matched or TimedOut, then Consumed. A batch is
submitted in order and consumed only when each of its probes is Matched or
TimedOut, and the next batch starts after that. `ProbeStatus` maps the
engine's state onto it: batches before `batch` are Consumed, a probe with a
response is Matched, one without a response that has used its retries and
timed out is TimedOut, and other submitted probes are Sent.
`LifecycleRefinement` (`Lifecycle!Spec`, checked as a PROPERTY of the
`engine` run) shows that `ProbeEngine` implements it. The abstract module
allows TimedOut to become Matched. The code still offers a frame to a timed-out
probe until the mode pops it (`mt_receive` tests only `response_len`). The
specification instead calls a probe past its retry bound abandoned.

### ListSpec, LinkedList and PacketBuffer (instantiated by `MCPacketBuffer.tla`)

`ListSpec` is what `list.h` promises: a FIFO sequence with `Insert` at the
tail and `Pop` at the head. `LinkedList` is `list.c` over a heap of
`list_item` cells (the constant `Cells`):
- `first`, `last`, `count`, `next`, `previous` and `data` are the list and item fields, and `heap` is the set of allocated cells;
- `list_insert` includes the failing `malloc`, as `list_insert_fails`;
- `list_pop` unlinks the head and frees its cell;
- `list_find` returns the first cell from `first` whose data the comparison accepts;
- `Chain` is the walk along `next`.

`AbsList` instantiates `ListSpec` with `seq <- Contents`, the data in list
order. `ListRefinement` is its `Spec`, as a PROPERTY.

`PacketBuffer` is `packet.c` over that list. A packet is:
- `buf[1..alloc]`, of which `length` bytes are used;
- one `packet_block` (a `Values` element) per header, with its type, `uint8_t` tag, length and position;
- `next_tag`.

A byte of `buf` is abstracted to the block that wrote it. The client is one
of the ten builders of `packet_helper.c` and `mt_nd.c` (`Builders`): the
headers it appends, in order, and the lookups its finalisation makes.

Its actions, in the order a builder takes them:
1. `packet_create` / `packet_create_fails`;
2. `packet_block_append` (with the buffer growth, and `list_insert` failing or not) / `packet_block_append_fails` (a failed `malloc` of the block or of the grown buffer) / `AppendToNull` (a `pdu_*` call on the NULL packet);
3. `pdu_ipv6_next_header` (the `packet_block_next` lookup);
4. `buff_swap` (the two `packet_buf_get_by_tag` lookups);
5. `packet_destroy_pop` / `packet_destroy_free`.

The `malloc`s of `packet_create`, `packet_block_append` and `list_insert` may fail, at most `MaxAllocFailures` times in a run; the temporary buffers of the checksum functions, `pdu_ipv4_ph` and `buff_swap` are taken to succeed. A crash
(a NULL dereference) is `pc = "crash"`.

### Cli (`Cli.tla`, instantiated by `MCCli.tla`)

This module models `get_args` and `parse_args`. A command line (the constant
`CommandLines`) is a sequence of tokens: a short option, a long option, or a
word. A word carries its text and what `atoi` makes of it. `opts` is
`get_args`'s option table, in order. `ShortOptsEntry` is the `strchr` of the
optstring `parse_args` builds from it, `LongOptsEntry` is the `long_opts`
lookup, and `get_xoption` is the first entry with a given `val`.

`getopt_long` is glibc's permuting one:
- `getopt_skip`: a word is skipped, to be permuted behind the options;
- `getopt_break`: it returns -1 at the end, or '?' for an unknown option or a missing argument, and the loop breaks;
- `getopt_option`: it returns an option's `val`, with `optarg` when the entry it took `has_arg` from requires one, and `parse_args` dispatches on `get_xoption(val)`.

`parse_dest` is the `optind == argc-1` test and the copy of the destination.
`CommandLineAsDocumented` states the command line of spec.md §6 and of
`show_usage`: such a line is accepted, and each option sets the field it
names.

### Bootstrap (`Bootstrap.tla`, instantiated by `MCBootstrap.tla`)

This module models `main` around its mode: the setup of the destination and the teardown of the session.
- `env` is what the host gives the run, chosen in `Init` and fixed: the setup outcome (`check_permissions`, `get_args`), what `addr_guess_type` makes of the destination, `route_lookup`'s reply (an interface and a gateway, a reply without `RTA_GATEWAY`, or a failure), whether the egress interface has an Ethernet address (`iface_hw_addr`) and which families it has addresses of (`iface_ip_addr`), whether `link_open`'s socket succeeds, what `pcap_open_live` gives, and whether the gateway answers.
- `routes`, `neighbors` and `interfaces` are the session's three lists. `r`, `n` and `d` are `dst_create`'s route, neighbour and dst.
- `heap` is the set of live objects of the session, each named after the field that owns it ("route.gateway", "nbr.hw_addr", "iface.pcap", ...). `Release` frees a set. Freeing an object twice, or giving `addr_destroy` a NULL or `pcap_close` a closed handle, sets `status` to `Crashed`, as does every NULL dereference.
- The actions follow `main` in order:
  1. `main_setup` (`check_permissions`, `get_args`, `mt_create`);
  2. `dst_create_from_str` (with `dst_create`'s `malloc`);
  3. `mt_get_route` (`route_create`, `route_lookup`);
  4. `mt_get_neighbor` (the cache walk, `mt_nd`, `neighbor4`/`neighbor6` up to `mt_send`, which calls `mt_get_interface`);
  5. `mt_wait` for the ND request, as one step as in Traceroute;
  6. `nd_collect` (the pop loop of `neighbor4/6` and the rest of `mt_get_neighbor`);
  7. `dst_create` (`mt_get_interface`, `iface_ip_addr` and the fields);
  8. `run_mode`, the mode as one step;
  9. `dst_destroy`;
  10. `mt_destroy`, which sets the return value.
- `MtGetInterface` is the set of outcomes of `mt_get_interface`: a cache hit, or on a miss the `malloc`, `list_create` and `interface_pcap_open` outcomes. Its result is ignored: a failed open reaches `pcap_close(NULL)`, a capture that is not Ethernet is closed and its handle kept.
- One `main` resolves one destination, so the route and neighbour caches are always empty when walked. Their hit branches are modelled but never taken. The interface cache is hit by every call after `mt_send`'s.
- `MallocMayFail` lets the `malloc`s that the code checks fail: `dst`, route, interface, `list_create` in `mt_get_interface`, neighbour, `addr_create_from_str`.

### Traceroute (`Traceroute.tla`)

This module models the round loop of `traceroute()`:
- `SendProbe` is one iteration of the inner loop, and it increments `ttl`;
- `EndRound` is the inner loop's exit;
- `MtWait` is `mt_wait` as one step, in which every probe ends answered or `*`;
- `PopProbe` is one iteration of the `list_pop` loop, with the `finished` flag;
- `NextRound` is the `break` or the next round.

`mt_wait` is abstracted to its result because the keys traceroute uses are
distinct per TTL, and the `engine` run checks `mt_wait` for distinct keys.
The path is chosen in `Init` from constant sets:
- `DstHop` is the destination distance;
- `Method` is icmp, udp or tcp;
- `Lossy` says whether the path loses packets and routers may answer unreachable.

`Answers` is what the matching predicate accepts for a probe of a TTL. The
destination's TCP segment is never matched, because `match_tcp4` looks only
at ICMP.

### Mda (`Mda.tla`, instantiated by `MCMda.tla`)

This module models `mda()` in `mt_mda.c` with the helpers it calls. Each
probe batch and its `mt_wait` are one step, as in Traceroute, and the step
produces the flow records `mda_read_response` appends.

State and correspondence to the code:
- `flowList` is `mda->flow_list`: records (ttl, flow id, responder) in insertion order, `*` for a lost probe.
- `ttl`, `addrsTtl` (the `get_flows_ttl` snapshot), `addr`, `nhList`, `n` are the locals of `mda()`.
- `mfFound`, `mfTarget` and `mfStop` are the locals of `more_flows`, which spans several steps (one per batch).
- `out` is what `mda_print` prints: TTL, address, next hops and the per-packet flag.
- The network is chosen in `Init`: a path per flow (flow-based balancing), or any path per packet (per-packet balancing), and whether it loses probes. A lossy network loses at most `MaxLost` probes in a run.

Actions:
- `StartTtl`, `FinishMda`, `NextAddr` and `EndTtl` are the TTL loop and the `addrs_ttl` pop loop. `NextAddr` includes the skip of the destination.
- `IterateEnough`, `IterateRootFlows` and `IterateMoreFlows` are one pass of `while (new_next_hop)`, up to `next_hops`. `n` is `k[h+1]`. `IterateRootFlows` is the TTL 0 branch of `more_flows` (`AddRootFlows`, which starts at `get_nth_flow_id_available(0, 0)` as the code does). `IterateMoreFlows` enters the probing branch.
- `MoreFlowsBatch` is one pass of `more_flows`' loop: `max(missing, MDA_FLOWS_AT_ONCE)` new flow ids, `stop` when they run out, and `found` counting answers from `addr`. `MoreFlowsDone` is its return.
- `NextHops` is `next_hops` (the send loop `NhSends`, the read loop `AddNextHops`) together with the `new_next_hop == 1 && count == 1` test.
- `PerPacketProbe` is `is_per_packet` followed by `mda_print`. `PrintBranch` is `mda_print` for at most one next hop.

`get_nth_flow_id_available` is a RECURSIVE operator (`NthFrom`), checked against a reference definition (`NthUnusedRef`, the n-th smallest unused id) in every reachable state.

### Checksum (`Checksum.tla`), Packet (`Packet.tla`) and Ping (`Ping.tla`, instantiated by `MCPing.tla`)

`Checksum` holds operators only. A buffer is its byte sequence in memory
order, and the host is little-endian (x86).
- `WordSum` and `Checksum` are `checksum()`: the sum of the host-order 16-bit words, an odd trailing byte added as is, two folds of the carries, then the complement.
- `Be16` is an `htons` store. `Le16` is the plain host-order assignment `hdr->checksum = checksum(...)`. `Store2` and `BuffSwap` are the byte stores and `buff_swap`.
- The reference is RFC 1071 in network order (`OcAdd`, `OcSum`, `RefChecksumBytes`). `Verifies` is a receiver's check: a one's-complement sum of all ones.

`Packet` holds the header builders, also as operators. Each one appends a header in memory order (`PduIpv4`, `PduIcmpv4Echo`, `PduIpv6`, `PduIcmpv6Echo`, `PduTcp`, `PduUdp`) or finalizes one in place (`PduIpv4Length`, `PduIpv4Checksum`, `PduIcmpv4Checksum`, `PduIpv6Length`, `PduIpv6NextHeader`, `PduIcmpv6Checksum`, which includes the 40-byte pseudo-header). `PacketHelperEcho4` and `PacketHelperEcho6` are the echo helpers, with the checksum swap. `pdu_udp` has no source in the repository and is modelled from the standard header of `pdu_udp.h`.

`Ping` models the IPv4 loop of `mt_ping`.
- `probeC` is `probe_c`.
- `probe` is the probe's bytes as `PacketHelperEcho4` builds them: the IPv4 header, then the ICMP header, then the 2 data bytes. The builder ends with the `buff_swap` of the data and the ICMP checksum field.
- `SendEcho` calls `PacketHelperEcho4` with the arguments `mt_ping` passes, in its order: `IP_ID + probe_c` lands in the `uint8_t ttl` parameter and `IPV4_TTL` in `ip_id`.
- `MtWait` is one `mt_wait`. The path is chosen in `Init`: the destination's distance, and whether the path loses packets. Routers before the destination answer with time-exceeded, which `match_icmp4` matches through the quoted body. A probe with TTL 0 is answered by the first router.
- `PrintPing` is `list_pop` and `ping4_print`. `last` is the line printed: the responder, `icmp_seq` and the probe's TTL. `get_ip4_ttl` returns a `char`, so the TTL is printed signed (`PrintedTtl`).

### FlowId (`FlowId.tla`, instantiated by `MCFlowId.tla`)

This module models how MDA carries a flow identifier in its probes.
- `MdaProbe4` and `MdaProbe6` are `mda_send`: for each strategy of `-f`, the flow id goes into the last byte of the destination address, the source port, the ICMP checksum argument, the IPv6 traffic class or the IPv6 flow label. The probe is built by the Packet operators. Over IPv4, `mda_send` has no branch for the -fl and -tc strategies.
- `ReadTtl` and `ReadFlowId` are `mda_read_response`, which reads the TTL and the flow id back from the probe's own bytes. `add_flow` narrows the flow id to `uint16_t`.
- The state is the family and strategy (fixed in a run), `nextId` (more_flows asks for ids in increasing order and sends each with probe id = flow id), the last `probe`, what it was `sent` with, and the `record` filed for it.
- `MdaSend` builds the probe. Where `mda_send` has no branch, `p` stays NULL and `packet_destroy(NULL)` crashes: the model goes to `pc = "crash"`, where nothing is enabled. `MdaReadResponse` files the record. `FlowIdsExhausted` is `get_nth_flow_id_available` returning -1.
- The TCP checksum over IPv4 is computed (`Tcp4Probe`, with `PduTcpChecksum4` over the pseudo-header `PduIpv4Ph` of `pdu_ipv4_ph`). The UDP checksums and the TCP checksum over IPv6 are not: `pdu_udp_checksum` is not in the repository, and the IPv6 pseudo-header of `pdu_ipv6_ph` is declared in the missing `pdu_ipv6.h`. Both predicates that read them compare the probe's own field with the quoted one, so a constant in its place changes nothing they tell apart.
- `MdaFrame` is the frame `probe_create` keeps: the Ethernet header of `pdu_eth` (`PduEth`; the MACs are zero, since nothing reads them) in front of the probe. `MdaMatchFn` is the `match_fn` `mda_send` passes to `mt_send` for the family and strategy.
- `Answers(frame)` is the environment: the time-exceeded and port- or address-unreachable errors a router or the destination sends, quoting the probe as RFC 792 (IPv4 header plus 8 bytes) and RFC 4443 (the whole packet) say, and for ICMP strategies the echo reply.

### Match (`Match.tla`)

The six predicates of `match.c` as operators over byte frames from the Ethernet header on. A pointer is a 0-based offset and a struct member the run of bytes it covers, so a field compares as it lies in memory.
- `get_proto4`/`get_proto6` read the Ethernet type and the IP protocol (next header). `Layer4v4`/`Layer4v6` are `get_transport4/6` applied at the IP header, and `get_inner4/6` skip the ICMP header and the quoted IP header.
- `match_icmp4/6`: an ICMP error whose quoted echo body (id and sequence) is the probe's, or an echo reply with the probe's body.
- `match_udp4/6`: an ICMP error quoting the probe's ports and UDP checksum. `match_tcp4/6`: an ICMP error quoting the sequence number and ports. A TCP frame passes their protocol test and then matches nothing, as in the code.
- `ProbeMatch(fn, p, r)` is `probe_match`'s call through `p->fn`.

## Runs

| Run | Expect | What it shows |
|-----|--------|---------------|
| `engine` (`ProbeEngine.cfg`) | pass | With traceroute-shaped batches (<<TTL 1, TTL 2>>, <<TTL 3>>), one retry, a lossy network and a capture buffer that outlives each wait: `ResponseAnswersOwnProbe`, `AnsweredProbeIsFinal` and `AllBatchesProbed` all hold, and the engine implements the probe lifecycle (`LifecycleRefinement`). `mt_wait` returns no later than (retries + 1) × timeout seconds after the batch's last send (`WaitBounded`): truncating to whole seconds shortens a try but never lengthens it, and the bound is tight. |
| `engine_key_reuse` | violation | `ResponseAnswersOwnProbe`: with MDA's key reuse (the same key in consecutive batches), a late answer to batch 1 is recorded for the probe of batch 2. |
| `engine_rtt` (`ProbeEngineRttPrinted.cfg`) | violation | `RttPrinted`: a probe sent at 0.0 s and answered at 0.5 s is printed with an RTT of 500000.000 ms. The pcap timestamp reaches `response_time` with nanoseconds in `tv_usec` (`mt.c:115`, `probe.c:74`). With that conversion repaired, TLC still finds the property violated, by the retry below. |
| `traceroute` (`Traceroute.cfg`) | pass | ICMP and UDP, lossy and loss-free paths, the destination 1 to 4 hops away, `max_ttl` 5, two probes per round: `OutputInTtlOrder`, `NothingAfterArrival`, `TraceComplete`, `ReachesDestination` (the specification's end-to-end scenario) and `TracerouteTerminates` all hold. |
| `mda` (`Mda.cfg`) | pass | On a diamond whose branches have different lengths (A then B, or A then C then E), with flow-based balancing, with or without one lost probe: every link printed exists (`NoFalseLink`), `*` never makes a branch per-packet (`PerPacketOnlyIfPerPacketLB`), `more_flows` returns with the flows asked for or with the ids used up (`MoreFlowsReachesTarget`), `get_nth_flow_id_available` agrees with its reference (`NthMatchesRef`), and `mda()` returns (`MdaTerminates`). |
| `mda_root_diamond` | violation | `ConfidenceReached`: with two first hops, `more_flows` at TTL 0 re-adds flow 1, and the root's branch closes after three distinct flows where k[3] = 4. |
| `ping` (`Ping.cfg`) | pass | Over 210 pings, with the destination 1 or 3 hops away and with or without loss: every probe on the wire carries 54321 in its ICMP checksum field, and its IPv4 header and ICMP message both verify (`ChecksumTrickSound`). `checksum()` stored in host order writes the RFC 1071 bytes for every buffer of 0 to 6 bytes drawn from {0, 1, 255} (`ChecksumMatchesRef`). |
| `flowid` (`FlowId.cfg`) | pass | For flow ids 1 to 255, at TTL 1 and 255, and for every strategy over IPv6 and every IPv4 strategy but tcp-sport: the record filed for a probe has the TTL and flow id it was sent with (`FlowIdRoundTrip`, the spec's decode(encode(k)) = k). An icmp-chk probe carries the flow id in its checksum field and still verifies, over the pseudo-header for ICMPv6, and an IPv4 TCP probe verifies over its pseudo-header (`ProbeChecksumsVerify`). For each strategy and family the `match_fn` `mda_send` passes accepts every ICMP answer to the probe and none to another probe of the same batch: the other flows of `more_flows`/`next_hops`, and the other probe ids of one flow of `is_per_packet` (`MatchDistinguishesProbes`). |
| `packet` (`PacketBuffer.cfg`) | pass | For all ten builders, with up to two failed `malloc`s in `packet_create`, `packet_block_append` or `list_insert`: the linked list keeps its links consistent (`ListWellFormed`) and implements `list.h`'s FIFO sequence (`ListRefinement`); blocks lie in append order in the buffer (`BlocksInOrder`); tags identify blocks (`TagsIdentifyBlocks`); growing the buffer keeps every byte written (`AppendKeepsBytes`); and a builder crashes only after a failed `malloc` (`NoCrashUnlessAllocFailed`). |
| `bootstrap` (`Bootstrap.cfg`) | pass | Destinations that parse as IPv4 or IPv6 and do not parse; setup refused; a route through gateway g1 on either of two interfaces, or none; interface without a hardware address or without an address of the family; failed link socket; a gateway that answers, or whose answers are all lost, or that never answers. `main` never crashes (`NoSetupCrash`). Every fatal setup error ends with return value 1 (`ExitAsSpecified`). When `main` returns, every object of the session has been freed (`TornDown`). |
| `bootstrap_onlink` (`BootstrapOnLink.cfg`) | violation | `NoSetupCrash`: the route to a destination on the local link carries no gateway. `dst_create` passes the NULL gateway to `mt_get_neighbor`, and `mt_nd` dereferences it (`mt_nd.c:197`). The trace: `main_setup`, `dst_create_from_str`, `mt_get_route` with the on-link reply, then `mt_get_neighbor` crashes. |
| `cli_max_ttl` (`CliMaxTtl.cfg`) | violation | `CommandLineAsDocumented`: `prog -h 10 host` (and `--max-ttl 10`) is refused. The option table gives `help` and `max-ttl` the same `val` 'h'. The optstring has 'h' first, without ':', and `get_xoption` returns the first entry, so `show_usage` runs and `get_args` returns NULL. `max_ttl` is always 30. |

Every property of a passing run has a mutant in `PROJECT.json`: a plausible
bug in the mapped definition, under which TLC finds the property violated.

## Disagreements found but not given a run

These were found while modelling and checked once. They are kept out of the
run list, which holds the deeper questions. Where a configuration
reproduces one, it is named.
- `mt_ping` passes `IP_ID + probe_c` as the probe's TTL (`mt_ping.c:96`), so the TTL is (54321 + probe_c) mod 256. At probe 207 it wraps to 0, and the first router's time-exceeded is printed as a reply (`from 1, icmp_seq=207, ttl=0`). From probe 79 on, the printed TTL is negative. `PingTtl.cfg` finds `PingRepliesFromDestination` violated. (It was a run until the bootstrap runs took its place.)
- With IPv4 and tcp-sport, `mda_read_response` applies `ntohl` to the 16-bit source port (`mt_mda.c:413`). Flow 1 is filed as flow 12103, as is every other flow. `FlowIdTcpSport.cfg` finds `FlowIdRoundTrip` violated. (It was a run until the bootstrap runs took its place.)
- `mt_get_interface` ignores `interface_pcap_open`'s result (`mt.c:166`). When `pcap_open_live` fails, `pcap_close(NULL)` crashes. When the capture is not Ethernet, the handle is closed and kept, so `mt_wait` reads a freed handle and `mt_destroy` closes it again. `BootstrapPcap.cfg` finds `NoSetupCrash` violated.
- With a failed `malloc` on the setup path, `main` crashes instead of reporting the error. `addr_create_from_str` returning NULL reaches `addr_destroy(NULL)` in `dst_create_from_str` (`dst.c:89`) or `route_lookup`'s `dst->type`. A failed `malloc` or `list_create` in `mt_get_interface` returns NULL, and `mt_send` dereferences it (`mt.c:54`). `BootstrapAlloc.cfg` finds `NoSetupCrash` violated.
- On its failure paths `main` returns 1 without `free(args)`. This is a leak only at exit, and `args` is outside `Bootstrap`'s heap.
- `mt_retry` (`mt.c:74`) overwrites `sent_time`. A late answer to the first transmission is timed from the retry, and if it was captured before the retry the difference is negative and `timeval_to_str` prints about 4294967 ms. `ProbeEngineRtt.cfg` checks `RttOfAnsweredTransmission` and finds it violated.
- `match_tcp4` (`match.c:179`) matches only ICMP errors, so a TCP traceroute never stops at the destination and prints `*` up to `max_ttl`. The specification's end-to-end scenario expects it to stop; its matching section says only the ICMP path is implemented. `TracerouteTcp.cfg` finds `ReachesDestination` violated.
- The k[2] records `is_per_packet` (`mt_mda.c:500`) leaves for one flow at TTL+1 count as distinct flows at the next TTL, and a branch can close on one flow. `MdaPerPacketDups.cfg` finds `ConfidenceReached` violated.
- `args.c` sets `args->h` and `mt.c` reads `args->t`, which is the field `args.h` declares. As given, the repository does not compile. `pdu_udp.c`, `probe.h`, `pdu_ipv6.h` and `packet_helper.h` are missing too. The models follow `args.c` for the parser and `mt.c` for the modes.
- `pdu_icmpv6_neighbor_sol` (`pdu_icmpv6.c:117`) tests its `uint8_t` tag against -1, which is never true, so a failed ICMPv6 append goes on to append the data block. `PacketBuffer`'s `neighbor6_packet` goes on the same way.
- `packet_create` (`packet.c:50`) frees `p` and then reads `p->blocks_list` when the buffer's `malloc` fails. `PacketBuffer` takes the failed create to the NULL packet; a later append to it is a crash, allowed by `NoCrashUnlessAllocFailed`.
- `strcpy` copies the destination into the 128-byte `args->dst` without a length check (`args.c:150`).
- `mt_send` (`mt.c:54`) writes the probe before its pacing sleep. The first probe after a pause and the next one leave back to back. The specification says submission enforces the minimum interval.
- `probe_timeout` (`probe.c:62`) compares whole seconds. A probe sent at x.9 s is retried at (x+1).0 s with `-w 1`. The `engine` run checks the other side, that no try lasts longer than the timeout (`WaitBounded`).
- Traceroute (`mt_traceroute.c:93`) raises the TTL with every probe of a round. The specification says a round sends several probes of one TTL.
- With `-p 0` the traceroute round sends nothing and the outer loop never ends.
- `mda()` (`mt_mda.c:693`) snapshots the addresses of a TTL once. A router that `more_flows` finds at that TTL later is never explored.
- `mda()` also explores `*` as an address and prints a branch for it.
- `parse_int` accepts `-r -1`. The retry limit test `retries == a->retries` then never holds, and `mt_wait` retransmits an unanswered probe for ever. With `Retries = -1` (`ProbeEngineNegRetries.cfg`), TLC finds `AllBatchesProbed` violated.
- With an IPv4 destination and an IPv6-only flow strategy (`-f icmp-fl`, `-tc` and the like), `mda_send` builds no packet and `packet_destroy(NULL)` crashes. With such a strategy, FlowId deadlocks in `pc = "crash"`.
- `pdu_ipv6_ph` (`pdu_ipv6.c:109`) copies 4 bytes of each 16-byte address into the pseudo-header of the TCP checksum over IPv6. Its struct is declared in the missing `pdu_ipv6.h`, so this is not modelled.

## Bounds and why they are enough

ProbeEngine:
- Two batches of two and one probes give two probes in flight at once and a frame that outlives its batch.
- One retry gives retry after loss, a late answer after a retry, and retry exhaustion.
- `Timeout = 1` with `TicksPerSec = 2` puts a send at half a second, which exposes the whole-second truncation.
- `SendWait = 1` tick exercises the pacing sleep.
- `MaxTime = 14` ticks leaves every batch time to finish its retries: a batch needs at most (Retries+1)·(Timeout+1) seconds.

Traceroute:
- Two probes per round with `max_ttl` 5 gives a partial last round.
- Destinations 1 to 4 hops away put the arrival at the first or second probe of a round.

Ping:
- 210 pings take the TTL through 255, then 0, 1 and 2: the wrap and the probes after it. `DstHops` {1, 3} puts the destination at the first router, and behind two routers, which answer the wrapped TTLs.
- Buffers of up to 6 bytes from {0, 1, 255}. These give odd lengths, and sums whose first fold carries again: 0xFFFF + 0xFFFF + 0x0001 = 0x1FFFF folds to 0x10000 and needs the second fold.

FlowId:
- Every flow id of `MDA_MIN_FLOW_ID..MDA_MAX_FLOW_ID`. Ids of 16 and more cross the byte boundary of the traffic class, 128 and more set the top bit of a byte, and 255 is the last value of the address byte.
- TTLs 1 and 255, the extremes of the TTL byte.
- `OtherIds` {1, 2, 255}: the other probes of a batch `MatchDistinguishesProbes` compares with. 1 and 2 differ from each other in the low bit and 255 in every bit of the byte; each flow id meets at least two of them.

Mda:
- Six flow ids and the k row 0, 1, 2, 4, 5, 6. This is the shape of the code's k[h][1] column (0, 1, 6, 11, 16, ...), scaled so that flow ids run out: k[4] = 5 of 6. `MDA_FLOWS_AT_ONCE` is 1, so `more_flows` takes several batches.
- `max_ttl` 3 over paths of two and three routers: a diamond, branches that end at different TTLs, and TTLs past the destination.
- At most one lost probe (`MaxLost`). One `*` is enough to reach every path that involves `*`: as a next hop, as an address, and in `is_per_packet`. Unbounded loss multiplies the flow lists beyond what TLC finishes.
- Per-packet balancing is not in the `mda` run: together with the uneven diamond and loss it multiplies the reachable flow lists beyond what TLC finishes in minutes. `PerPacketModes` is a constant, so a configuration can select it.

PacketBuffer:
- `PACKET_ALLOC_EXTRA` is 128 in `packet.h`. That is more than the largest packet (86 bytes), so with it the buffer never grows. The run uses 16, which makes every builder grow the buffer at its second header.
- 4 list cells and 5 blocks: a builder appends at most 4 headers, plus a block whose `list_insert` failed. Cells and blocks are model values, and symmetry over them is sound because only safety is checked.
- `MaxAllocFailures = 2`: one failure anywhere, and a second after a failed `list_insert` or in the recovery path.

Bootstrap:
- One `main` resolves one destination, so each list holds at most one entry. Two interfaces and one gateway are enough: the route may name either interface, and the dst must carry the one it names.
- Every outcome of each host call is a member of a small set. The product of these (864 environments in the `bootstrap` run) covers every failure branch of `dst_create` and `neighbor4/6`.
- The `bootstrap` run keeps `malloc` and `pcap_open_live` from failing, and gives every route a gateway. Each of these failures alone crashes `main`. The on-link route has its own run; the other two have configurations of their own (`BootstrapPcap.cfg`, `BootstrapAlloc.cfg`).

Cli:
- One command line per path of `parse_args`: documented lines with each kind of value, the last occurrence of an option winning; `-h` and `--max-ttl`; `--help`; an unknown option before and after a word; a non-numeric, a rejected and an unknown value; a missing argument; two destinations and none.

## Fairness

There is one thread, and it blocks only in `pcap_next_ex`, which returns after
`MT_PCAP_MS`. So the prober's actions are weakly fair (`WF_vars(Prober)`),
and the traceroute and MDA loops likewise (`WF_vars(Next)`). The network gets no
fairness: it may lose everything, and liveness must hold anyway.

## What is not modelled, and why

- The netlink messages of `route_lookup`, the ioctl and `getifaddrs` walks of `iface.c`, and the bytes of the ARP request and neighbour solicitation. `Bootstrap` models each of them by its outcome. `iface_ip_addr` takes the first address of the family, which for IPv6 may be a link-local one; the model gives an interface at most one address per family.
- Output formatting.
- Bundled short options (`-hp`), abbreviated long options and `--` in argument parsing: glibc features the option table does not depend on.
- The unused time helpers of `util.c` (`timeval_cmp`, `timeval_divide`, `timeval_from_ms`, `timeval_to_ms`) and the `sockaddr` formatting helpers.
- Link layer (`link.c`, `pdu_arp.c`): raw socket I/O and the ARP header. `PacketBuffer` models the Ethernet and ARP blocks' place and size, and `FlowId` the Ethernet header of an MDA probe.
- The UDP checksum and the TCP checksum over IPv6, whose code (`pdu_udp.c`, `pdu_ipv6.h`) is not in the repository.
- IPv4 headers with options: `get_transport4` (`match.c:57`) adds a fixed 20 bytes and ignores IHL, so an answer whose headers carry options is compared at the wrong offset. The modelled answers carry none.
- Frames shorter than the headers the predicates read: `match.c` never checks `rlen`, and a short frame is an out-of-bounds read, which the byte-level operators cannot express as anything but an error.
- The IPv6 branch of ping (`packet_helper_echo6`, `ping6_print`): the same loop with another builder.
- The `id << 16` of `pdu_icmpv4_echo` overflows `int` for id 54321, which is undefined behaviour. The model takes the wrap-around the build produces, which puts the id in the high half of the body.

## Plan for the remaining work

1. `Bootstrap` composed with the modes, in place of `run_mode`'s one step.
2. A composition of `Cli` with the modes: the values `parse_args` lets through (`-p 0`, `-r -1`, an IPv6-only flow strategy with an IPv4 destination) as the modes' constants.
