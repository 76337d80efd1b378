-------------------------------- MODULE Mda --------------------------------
(***************************************************************************)
(* The Multipath Detection Algorithm of mtraceroute (src/src/mt_mda.c).    *)
(*                                                                         *)
(* mda() walks the TTLs from 0 (the prober, "root") to max_ttl.  For every *)
(* distinct address seen at a TTL it finds the next hops at TTL+1: it      *)
(* makes sure k[h+1] flows are known to reach the address (more_flows),    *)
(* sends each of them one TTL further (next_hops) and repeats while new    *)
(* next hops appear, h being the number of next hops found so far.  With   *)
(* more than one next hop it re-sends one flow k[2] times (is_per_packet). *)
(* Every probe outcome is appended to the flow list, which the queries     *)
(* has_flow_id, get_flows, get_flows_ttl and get_nth_flow_id_available     *)
(* scan.                                                                   *)
(*                                                                         *)
(* A probe batch and its mt_wait are one step: each probe ends with the    *)
(* address that answered it or '*'.  The network is a set of paths; a      *)
(* flow-based load balancer sends every packet of a flow along the path    *)
(* the flow is given in Init, a per-packet one along any path.  The flow   *)
(* id read back from a probe (mda_read_response) is the one mda_send put   *)
(* in it, which holds for the udp-sport and udp-dst strategies this model  *)
(* is about (flow ids below 256: no port or address byte overflows).       *)
(***************************************************************************)
EXTENDS Integers, Sequences, SequencesExt, FiniteSets

CONSTANTS
    MaxTtl,          \* mda->max_ttl
    MaxFlowId,       \* MDA_MAX_FLOW_ID (MDA_MIN_FLOW_ID is 1)
    FlowsAtOnce,     \* MDA_FLOWS_AT_ONCE
    K,               \* the k table column of the confidence level: K[h]
    Paths,           \* the paths through the network, each ending at Dst
    Dst,             \* the destination's address
    Root,            \* mda->root, the responder recorded at TTL 0
    Star,            \* "*": no answer
    PerPacketModes,  \* subset of BOOLEAN: load balancing per packet
    LossModes,       \* subset of BOOLEAN: the network may lose probes
    MaxLost          \* a lossy network loses at most MaxLost probes in a run

Flows == 1..MaxFlowId
Ttls == 0..MaxTtl + 1
Routers == UNION {Range(p) : p \in Paths}
Addrs == Routers \cup {Root, Star}

ASSUME /\ MaxTtl \in Nat /\ MaxLost \in Nat /\ MaxFlowId \in Nat \ {0} /\ FlowsAtOnce \in Nat \ {0}
       /\ K \in [0..Cardinality(Addrs) + 1 -> Nat]
       /\ \A p \in Paths : p # <<>> /\ Last(p) = Dst

VARIABLES
    flowPath,     \* the path each flow takes (fixed in a run)
    perPacketLB,  \* the load balancers balance per packet (fixed in a run)
    lossy,        \* the network loses probes (fixed in a run)
    flowList,     \* mda->flow_list: <<[ttl, flow, resp]>>, in insertion order
    ttl,          \* the outer loop's TTL
    addrsTtl,     \* addrs_ttl: the addresses still to explore at ttl
    addr,         \* the address being explored
    nhList,       \* nh_list: the next hops found for addr, in order
    n,            \* n: the flow count the k table asks for
    mfFound,      \* more_flows: found
    mfTarget,     \* more_flows: its argument n (flows still missing)
    mfStop,       \* more_flows: stop
    pc,           \* "ttl", "addr", "iter", "more", "nexthops", "print", "done"
    out           \* printed branches: <<[ttl, addr, nh, perPacket]>>

network == <<flowPath, perPacketLB, lossy>>
vars == <<flowPath, perPacketLB, lossy, flowList, ttl, addrsTtl, addr, nhList,
          n, mfFound, mfTarget, mfStop, pc, out>>

FlowRecord == [ttl : Ttls, flow : Flows, resp : Addrs]
Branch == [ttl : Ttls, addr : Addrs, nh : Seq(Addrs), perPacket : BOOLEAN]

\* nh_list holds each address once (list_find before list_insert).
TypeOK ==
    /\ flowPath \in [Flows -> Paths]
    /\ perPacketLB \in BOOLEAN /\ lossy \in BOOLEAN
    /\ flowList \in Seq(FlowRecord)
    /\ ttl \in Ttls
    /\ addrsTtl \in Seq(Addrs) /\ addr \in Addrs
    /\ nhList \in Seq(Addrs) /\ IsInjective(nhList)
    /\ n \in Nat /\ mfFound \in Nat /\ mfTarget \in Nat /\ mfStop \in BOOLEAN
    /\ pc \in {"ttl", "addr", "iter", "more", "nexthops", "print", "done"}
    /\ out \in Seq(Branch)

-----------------------------------------------------------------------------
(* The network.                                                            *)

\* The address that answers a packet of flow f sent with TTL t along path p.
Hop(p, t) == IF t <= Len(p) THEN p[t] ELSE Dst

\* What a probe of flow f with TTL t can end with when mt_wait returns.
Outcomes(f, t) ==
    (IF perPacketLB THEN {Hop(p, t) : p \in Paths} ELSE {Hop(flowPath[f], t)})
    \cup (IF lossy THEN {Star} ELSE {})

\* A batch of probes (a sequence of flow ids, all sent with TTL t) and its
\* mt_wait: the flow records mda_read_response appends, in list_pop order.
\* keys[i] is the probe id of probe i: two probes with one key (one flow
\* and one probe id) are both given the first answer mt_receive sees.
\* fl is the flow list before the batch; it counts the probes lost so far.
BatchRecords(fl, batch, keys, t) ==
    { [i \in 1..Len(batch) |-> [ttl |-> t, flow |-> batch[i], resp |-> r[i]]] :
        r \in { r \in [1..Len(batch) -> UNION {Outcomes(f, t) : f \in Range(batch)}] :
                  /\ \A i \in 1..Len(batch) : r[i] \in Outcomes(batch[i], t)
                  /\ Len(SelectSeq(fl, LAMBDA x : x.resp = Star))
                       + Cardinality({i \in 1..Len(batch) : r[i] = Star}) <= MaxLost
                  /\ \A i, j \in 1..Len(batch) :
                        keys[i] = keys[j] /\ batch[i] = batch[j] => r[i] = r[j] } }

-----------------------------------------------------------------------------
(* The flow list queries.                                                  *)

\* has_flow_id
HasFlowId(fl, t, f) == \E i \in 1..Len(fl) : fl[i].ttl = t /\ fl[i].flow = f

\* Mutant: get_flows ignores the responder.
GetFlowsAnyResp(fl, t, a) == SelectSeq(fl, LAMBDA r : r.ttl = t)

\* get_flows: the records of TTL t answered by a, in list order.
GetFlows(fl, t, a) == SelectSeq(fl, LAMBDA r : r.ttl = t /\ r.resp = a)

\* get_flows_ttl: the first record of every distinct responder at TTL t.
GetFlowsTtl(fl, t) ==
    LET first == SelectSeq([i \in 1..Len(fl) |-> i],
                   LAMBDA i : /\ fl[i].ttl = t
                              /\ \A j \in 1..i - 1 : ~(fl[j].ttl = t /\ fl[j].resp = fl[i].resp))
    IN [j \in 1..Len(first) |-> fl[first[j]]]

\* Mutant: nth == n is tested before the flow id is counted.
RECURSIVE NthFromLate(_, _, _, _, _)
NthFromLate(fl, nth0, t, f, nth) ==
    IF f > MaxFlowId THEN -1
    ELSE IF nth = nth0 THEN f
    ELSE NthFromLate(fl, nth0, t, f + 1,
                     IF HasFlowId(fl, t, f) THEN nth ELSE nth + 1)

\* The loop of get_nth_flow_id_available from flow id f on, nth unused
\* ids counted so far.
RECURSIVE NthFrom(_, _, _, _, _)
NthFrom(fl, nth0, t, f, nth) ==
    IF f > MaxFlowId THEN -1
    ELSE LET c == IF HasFlowId(fl, t, f) THEN nth ELSE nth + 1
         IN IF c = nth0 THEN f ELSE NthFrom(fl, nth0, t, f + 1, c)

\* get_nth_flow_id_available(n, ttl): the n-th flow id unused at TTL t,
\* or -1.  For n = 0 it returns flow id 1 when 1 is already used.
GetNthFlowIdAvailable(fl, nth, t) == NthFrom(fl, nth, t, 1, 0)

\* The reference: the n-th smallest flow id with no record at TTL t.
NthUnusedRef(fl, nth, t) ==
    LET free == {f \in Flows : ~HasFlowId(fl, t, f)}
    IN IF nth \in 1..Cardinality(free)
       THEN CHOOSE f \in free : Cardinality({g \in free : g <= f}) = nth
       ELSE -1

-----------------------------------------------------------------------------
(* mda() and its helpers.                                                  *)

\* mda(): n = k[2]; add_flow(0, 1 + i, root) for i < n; ttl = 0.
Init ==
    /\ perPacketLB \in PerPacketModes
    \* a per-packet balancer ignores the flow: one flowPath stands for all
    /\ flowPath \in IF perPacketLB THEN {[f \in Flows |-> CHOOSE p \in Paths : TRUE]}
                                   ELSE [Flows -> Paths]
    /\ lossy \in LossModes
    /\ flowList = [i \in 1..K[2] |-> [ttl |-> 0, flow |-> i, resp |-> Root]]
    /\ ttl = 0
    /\ addrsTtl = <<>>
    /\ addr = Root
    /\ nhList = <<>>
    /\ n = K[2]
    /\ mfFound = 0 /\ mfTarget = 0 /\ mfStop = FALSE
    /\ pc = "ttl"
    /\ out = <<>>

\* The top of the ttl loop: addrs_ttl = get_flows_ttl(ttl).
StartTtl ==
    /\ pc = "ttl"
    /\ ttl <= MaxTtl
    /\ addrsTtl' = [j \in 1..Len(GetFlowsTtl(flowList, ttl)) |->
                      GetFlowsTtl(flowList, ttl)[j].resp]
    /\ pc' = "addr"
    /\ UNCHANGED <<network, flowList, ttl, addr, nhList, n, mfFound, mfTarget,
                   mfStop, out>>

\* The ttl loop ends: mda() returns.
FinishMda ==
    /\ pc = "ttl"
    /\ ttl > MaxTtl
    /\ pc' = "done"
    /\ UNCHANGED <<network, flowList, ttl, addrsTtl, addr, nhList, n, mfFound,
                   mfTarget, mfStop, out>>

\* Pop the next address of addrs_ttl.  The destination is skipped, and so
\* is an address whose first record is an ICMP unreachable: in this
\* network only the destination answers with one (port unreachable).
NextAddr ==
    /\ pc = "addr"
    /\ addrsTtl # <<>>
    /\ addrsTtl' = Tail(addrsTtl)
    /\ IF Head(addrsTtl) = Dst
       THEN UNCHANGED <<addr, nhList, pc>>
       ELSE /\ addr' = Head(addrsTtl)
            /\ nhList' = <<>>
            /\ pc' = "iter"
    /\ UNCHANGED <<network, flowList, ttl, n, mfFound, mfTarget, mfStop, out>>

\* addrs_ttl is empty: ttl++.
EndTtl ==
    /\ pc = "addr"
    /\ addrsTtl = <<>>
    /\ ttl' = ttl + 1
    /\ pc' = "ttl"
    /\ UNCHANGED <<network, flowList, addrsTtl, addr, nhList, n, mfFound,
                   mfTarget, mfStop, out>>

\* n = k[total_next_hops + 1], total_next_hops at least 1.
KNeed == K[(IF nhList = <<>> THEN 1 ELSE Len(nhList)) + 1]

\* more_flows at TTL 0: add root flows without probing, from
\* get_nth_flow_id_available(i, 0) with i counting from 0.
RECURSIVE AddRootFlows(_, _, _, _)
AddRootFlows(fl, a, i, rem) ==
    IF rem = 0 THEN fl
    ELSE LET f == GetNthFlowIdAvailable(fl, i, 0)
         IN IF f = -1 THEN fl
            ELSE AddRootFlows(Append(fl, [ttl |-> 0, flow |-> f, resp |-> a]),
                              a, i + 1, rem - 1)

\* An iteration of the while (new_next_hop) loop with enough flows.
IterateEnough ==
    /\ pc = "iter"
    /\ Len(GetFlows(flowList, ttl, addr)) >= KNeed
    /\ n' = KNeed
    /\ pc' = "nexthops"
    /\ UNCHANGED <<network, flowList, ttl, addrsTtl, addr, nhList, mfFound,
                   mfTarget, mfStop, out>>

\* An iteration at TTL 0 short of flows: more_flows adds root flows.
IterateRootFlows ==
    /\ pc = "iter"
    /\ Len(GetFlows(flowList, ttl, addr)) < KNeed
    /\ ttl = 0
    /\ n' = KNeed
    /\ flowList' = AddRootFlows(flowList, addr, 0,
                                KNeed - Len(GetFlows(flowList, ttl, addr)))
    /\ pc' = "nexthops"
    /\ UNCHANGED <<network, ttl, addrsTtl, addr, nhList, mfFound, mfTarget,
                   mfStop, out>>

\* An iteration past TTL 0 short of flows: more_flows starts probing.
IterateMoreFlows ==
    /\ pc = "iter"
    /\ Len(GetFlows(flowList, ttl, addr)) < KNeed
    /\ ttl > 0
    /\ n' = KNeed
    /\ mfFound' = 0
    /\ mfTarget' = KNeed - Len(GetFlows(flowList, ttl, addr))
    /\ mfStop' = FALSE
    /\ pc' = "more"
    /\ UNCHANGED <<network, flowList, ttl, addrsTtl, addr, nhList, out>>

\* more_flows, one pass of its while loop: the flow ids
\* get_nth_flow_id_available(i, ttl) for i = 1..send, up to the first -1.
MoreFlowsIds(fl, t, send) ==
    SelectSeq([i \in 1..send |-> GetNthFlowIdAvailable(fl, i, t)],
              LAMBDA f : f # -1)

\* Mutant: the flow_id == -1 test never sets stop.
MoreFlowsStopNever(batch, send) == FALSE

\* stop = 1: get_nth_flow_id_available ran out before send ids.
MoreFlowsStop(batch, send) == Len(batch) < send

\* Mutant: found counts every response, not only those from addr.
FoundAny(recs, a) == Len(recs)

\* found++ for every response whose source is addr.
FoundAt(recs, a) == Cardinality({i \in 1..Len(recs) : recs[i].resp = a})

\* One pass of more_flows' while loop past TTL 0: send = max(missing,
\* MDA_FLOWS_AT_ONCE) new flows at ttl (probe id = flow id), mt_wait,
\* mda_read_response for each.
MoreFlowsBatch ==
    /\ pc = "more"
    /\ mfFound < mfTarget /\ ~mfStop
    /\ LET send == IF mfTarget - mfFound > FlowsAtOnce
                   THEN mfTarget - mfFound ELSE FlowsAtOnce
           batch == MoreFlowsIds(flowList, ttl, send)
       IN /\ mfStop' = MoreFlowsStop(batch, send)
          /\ \E recs \in BatchRecords(flowList, batch, batch, ttl) :
                /\ flowList' = flowList \o recs
                /\ mfFound' = mfFound + FoundAt(recs, addr)
    /\ UNCHANGED <<network, ttl, addrsTtl, addr, nhList, n, mfTarget, pc, out>>

\* more_flows returns; mda() fetches get_flows again for next_hops.
MoreFlowsDone ==
    /\ pc = "more"
    /\ ~(mfFound < mfTarget /\ ~mfStop)
    /\ pc' = "nexthops"
    /\ UNCHANGED <<network, flowList, ttl, addrsTtl, addr, nhList, n, mfFound,
                   mfTarget, mfStop, out>>

\* next_hops' send loop over the popped flows: a flow already probed at
\* TTL t + 1 counts as sent; otherwise it is sent while sent < n.
RECURSIVE NhSends(_, _, _, _, _)
NhSends(fl, flows, t, nMax, sent) ==
    IF flows = <<>> THEN <<>>
    ELSE LET f == Head(flows).flow
         IN IF HasFlowId(fl, t + 1, f)
            THEN NhSends(fl, Tail(flows), t, nMax, sent + 1)
            ELSE IF sent < nMax
                 THEN <<f>> \o NhSends(fl, Tail(flows), t, nMax, sent + 1)
                 ELSE NhSends(fl, Tail(flows), t, nMax, sent)

\* Mutant: nh_list keeps a next hop per response, duplicates included.
AddNextHopsAll(nh, recs) == nh \o [i \in 1..Len(recs) |-> recs[i].resp]

\* next_hops' read loop: a response whose address is not yet in nh_list
\* (next_hop_cmp compares addresses; "*" is one) is inserted.
RECURSIVE AddNextHops(_, _)
AddNextHops(nh, recs) ==
    IF recs = <<>> THEN nh
    ELSE AddNextHops(IF \E i \in 1..Len(nh) : nh[i] = Head(recs).resp
                     THEN nh ELSE Append(nh, Head(recs).resp),
                     Tail(recs))

\* next_hops and the test after it: new_next_hop is the number of new
\* next hops, set to 0 when it is the first and only one.
NextHops ==
    /\ pc = "nexthops"
    /\ LET batch == NhSends(flowList, GetFlows(flowList, ttl, addr), ttl, n, 0)
       IN \E recs \in BatchRecords(flowList, batch, batch, ttl + 1) :
            LET nh == AddNextHops(nhList, recs)
                found == Len(nh) - Len(nhList)
                new == IF found = 1 /\ Len(nh) = 1 THEN 0 ELSE found
            IN /\ flowList' = flowList \o recs
               /\ nhList' = nh
               /\ pc' = IF new # 0 THEN "iter" ELSE "print"
    /\ UNCHANGED <<network, ttl, addrsTtl, addr, n, mfFound, mfTarget, mfStop,
                   out>>

\* Mutant: is_per_packet counts "*" as a next hop.
DistinctRespondersWithStar(recs) == {recs[i].resp : i \in 1..Len(recs)}

\* is_per_packet's found: the distinct addresses other than "*".
DistinctResponders(recs) == {recs[i].resp : i \in 1..Len(recs)} \ {Star}

\* More than one next hop: is_per_packet sends the first flow of
\* get_flows k[2] times at ttl + 1 (probe ids 1..n), then mda_print.
PerPacketProbe ==
    /\ pc = "print"
    /\ Len(nhList) > 1
    /\ LET f == Head(GetFlows(flowList, ttl, addr)).flow
           batch == [i \in 1..K[2] |-> f]
       IN \E recs \in BatchRecords(flowList, batch, [i \in 1..K[2] |-> i], ttl + 1) :
            /\ flowList' = flowList \o recs
            /\ out' = Append(out, [ttl |-> ttl, addr |-> addr, nh |-> nhList,
                                   perPacket |-> Cardinality(DistinctResponders(recs)) > 1])
    /\ n' = K[2]
    /\ pc' = "addr"
    /\ UNCHANGED <<network, ttl, addrsTtl, addr, nhList, mfFound, mfTarget,
                   mfStop>>

\* At most one next hop: mda_print without the per-packet test.
PrintBranch ==
    /\ pc = "print"
    /\ Len(nhList) <= 1
    /\ out' = Append(out, [ttl |-> ttl, addr |-> addr, nh |-> nhList,
                           perPacket |-> FALSE])
    /\ pc' = "addr"
    /\ UNCHANGED <<network, flowList, ttl, addrsTtl, addr, nhList, n, mfFound,
                   mfTarget, mfStop>>

Terminated == pc = "done" /\ UNCHANGED vars

Next ==
    \/ StartTtl \/ FinishMda \/ NextAddr \/ EndTtl
    \/ IterateEnough \/ IterateRootFlows \/ IterateMoreFlows
    \/ MoreFlowsBatch \/ MoreFlowsDone \/ NextHops
    \/ PerPacketProbe \/ PrintBranch \/ Terminated

\* One thread; mt_wait returns (ProbeEngine), so every step is taken.
Spec == Init /\ [][Next]_vars /\ WF_vars(Next)

-----------------------------------------------------------------------------
(* Properties.                                                             *)

\* get_nth_flow_id_available(i, t) returns the i-th smallest flow id with no
\* record at TTL t, or -1 when there are fewer than i, for every i >= 1 and
\* TTL, whatever the flow list holds.
NthMatchesRef ==
    \A t \in Ttls, i \in 1..MaxFlowId + 1 :
        GetNthFlowIdAvailable(flowList, i, t) = NthUnusedRef(flowList, i, t)

\* When more_flows returns, get_flows(ttl, addr) holds the n flows mda()
\* asked for, unless every flow id is already used at ttl.
MoreFlowsReachesTarget ==
    [][pc = "more" /\ pc' = "nexthops" =>
         \/ Len(GetFlows(flowList', ttl, addr)) >= n
         \/ \A f \in Flows : HasFlowId(flowList', ttl, f)]_vars

\* is_per_packet reports per-packet load balancing only when the network
\* balances per packet: a lost probe ("*") is not a second next hop.
PerPacketOnlyIfPerPacketLB ==
    \A i \in 1..Len(out) : out[i].perPacket => perPacketLB

\* With flow-based load balancing every printed link exists: each next
\* hop b printed for address a at TTL t is the hop after a on some path.
\* (mda() also explores "*" as an address; its next hops are not links.)
Link(t, a, b) ==
    \E p \in Paths : (IF t = 0 THEN a = Root ELSE Hop(p, t) = a) /\ Hop(p, t + 1) = b

NoFalseLink ==
    ~perPacketLB =>
        \A i \in 1..Len(out) : out[i].addr # Star => \A j \in 1..Len(out[i].nh) :
            out[i].nh[j] # Star => Link(out[i].ttl, out[i].addr, out[i].nh[j])

\* mda() returns: the while (new_next_hop) loop and more_flows end.
MdaTerminates == <>(pc = "done")

\* The MDA stopping rule: when the branch of address a at TTL t is printed
\* with h next hops, at least k[h+1] distinct flows known to reach a were
\* probed at TTL t+1, unless no flow id was left unused at TTL t.
ProbedThrough(t, a) ==
    {f \in Flows : /\ \E i \in 1..Len(flowList) :
                         flowList[i] = [ttl |-> t, flow |-> f, resp |-> a]
                   /\ HasFlowId(flowList, t + 1, f)}

ConfidenceReached ==
    \A i \in 1..Len(out) :
        \/ Cardinality(ProbedThrough(out[i].ttl, out[i].addr))
              >= K[Len(out[i].nh) + 1]
        \/ \A f \in Flows : HasFlowId(flowList, out[i].ttl, f)

=============================================================================
