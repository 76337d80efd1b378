------------------------------ MODULE Bootstrap ------------------------------
(***************************************************************************)
(* main (src/src/mt.c) around the mode it runs: check_permissions and      *)
(* get_args, mt_create, the resolution of the destination                 *)
(* (dst_create_from_str and dst_create, src/src/dst.c) through the route,  *)
(* neighbour and interface caches of the session (mt_get_route,           *)
(* mt_get_neighbor, mt_get_interface), the route lookup (route.c) and     *)
(* neighbour discovery (mt_nd.c), then dst_destroy and mt_destroy.        *)
(*                                                                         *)
(* What the host gives the run (the route the kernel answers, the egress  *)
(* interface's addresses, its sockets and capture, whether the next hop   *)
(* answers ND) is the record env, chosen in Init and fixed afterwards.    *)
(* The heap is the set of live objects of the session, each named by the  *)
(* field that owns it; freeing a dead object or dereferencing NULL sets    *)
(* status to Crashed.  The exchange of the ND probe (mt_send, mt_wait) is  *)
(* one step, as in Traceroute: ProbeEngine checks that mt_wait returns     *)
(* with the probe answered or given up.                                   *)
(***************************************************************************)
EXTENDS Naturals, Sequences, FiniteSets

CONSTANTS
    Ifaces,         \* interface indexes a route may name
    Gateways,       \* next-hop addresses a route may carry
    NoGateway,      \* r->gateway left NULL: the reply had no RTA_GATEWAY
    NULL,
    Setups,         \* "ok", "not_root" (check_permissions), "no_args" (get_args)
    AddrKinds,      \* what addr_guess_type makes of args->dst
    RouteReplies,   \* route_lookup's outcomes: [if_index, gateway] or RouteFail
    RouteFail,      \* route_lookup returns -1
    LinkModes,      \* whether link_open's socket call succeeds
    PcapModes,      \* interface_pcap_open: "ok", "open_fail" or "not_ether"
    Answering,      \* whether the next hop answers neighbour discovery
    MallocMayFail,  \* whether the checked mallocs of this path may fail
    Running, Crashed  \* status before main returns, and after a crash

Families == {"ipv4", "ipv6"}

Envs == [setup : Setups, kind : AddrKinds, route : RouteReplies,
         hw : BOOLEAN, ips : SUBSET Families, link : LinkModes,
         pcap : PcapModes, answers : Answering]

\* The values the run's addresses take: the hardware address of a
\* gateway or an interface, and the address of a family on an interface.
Mac(x) == <<"mac", x>>
IpOf(f, i) == <<f, i>>
DstAddr == <<"dst", "args->dst">>

VARIABLES
    env,         \* what the host gives this run
    pc,          \* where main is
    routes,      \* a->routes: records [if_index, gateway]
    neighbors,   \* a->neighbors: records [ip_addr, hw_addr, if_index]
    interfaces,  \* a->interfaces: records [if_index, hw_addr, link, pcap, probes]
    ip_dst,      \* the addr dst_create_from_str parsed, or NULL
    r,           \* the route dst_create got, or NULL
    n,           \* the neighbour dst_create got, or NULL
    d,           \* the struct dst main got, or NULL
    heap,        \* the live objects of the session
    status       \* Running, main's return value 0 or 1, or Crashed
vars == <<env, pc, routes, neighbors, interfaces, ip_dst, r, n, d, heap, status>>

\* malloc's outcomes on the paths that check them.
Malloc == IF MallocMayFail THEN BOOLEAN ELSE {TRUE}

Crash == status' = Crashed /\ pc' = "exit"

\* The objects mt_create allocates: the session and its three lists.
MtObjects == {"mt", "mt.interfaces", "mt.neighbors", "mt.routes"}

\* The objects the ND exchange holds until neighbor4/6 returns.
NdTemps == {"nd.if_hw", "nd.if_ip", "nd.packet"}

Init ==
    /\ env \in Envs
    /\ pc = "main"
    /\ routes = <<>> /\ neighbors = <<>> /\ interfaces = <<>>
    /\ ip_dst = NULL /\ r = NULL /\ n = NULL /\ d = NULL
    /\ heap = {}
    /\ status = Running

\* check_permissions and get_args; then mt_create (its mallocs unchecked).
main_setup ==
    /\ pc = "main"
    /\ IF env.setup /= "ok"
         THEN status' = 1 /\ pc' = "exit" /\ UNCHANGED heap
         ELSE heap' = MtObjects /\ pc' = "dst" /\ UNCHANGED status
    /\ UNCHANGED <<env, routes, neighbors, interfaces, ip_dst, r, n, d>>

\* Mutant: the failure path forgets addr_destroy.
DstCreateFailed_KeepsAddr(S) ==
    IF ip_dst = NULL THEN Crash /\ UNCHANGED heap
    ELSE heap' = heap \ S /\ pc' = "wrong_address" /\ UNCHANGED status

\* dst_create returns NULL after freeing S; dst_create_from_str then
\* destroys the address it parsed, and main prints "Wrong address.".
DstCreateFailed(S) ==
    IF ip_dst = NULL THEN Crash /\ UNCHANGED heap
    ELSE heap' = heap \ (S \cup {"ip_dst"}) /\ pc' = "wrong_address"
         /\ UNCHANGED status

\* dst_create_from_str: addr_guess_type, addr_create_from_str, and the
\* malloc of struct dst that dst_create starts with.
dst_create_from_str ==
    /\ pc = "dst"
    /\ IF env.kind = "bad"
         THEN pc' = "wrong_address" /\ UNCHANGED <<ip_dst, d, heap, status>>
         ELSE \E addrOk \in Malloc, dstOk \in Malloc :
                LET a  == IF addrOk THEN "ip_dst" ELSE NULL
                    h1 == IF addrOk THEN heap \cup {"ip_dst"} ELSE heap
                IN  /\ ip_dst' = a
                    /\ IF ~dstOk THEN
                         \* dst_create returns NULL; addr_destroy(addr)
                         IF a = NULL THEN Crash /\ UNCHANGED <<heap, d>>
                         ELSE heap' = heap /\ pc' = "wrong_address"
                              /\ UNCHANGED <<d, status>>
                       ELSE /\ heap' = h1 \cup {"dst"}
                            /\ d' = [ip_dst |-> NULL, ip_src |-> NULL, mac_dst |-> NULL,
                                     mac_src |-> NULL, if_index |-> 0]
                            /\ pc' = "route" /\ UNCHANGED status
    /\ UNCHANGED <<env, routes, neighbors, interfaces, r, n>>

\* route_create: the route route_lookup parses from the kernel's
\* RTM_NEWROUTE reply (RTA_OIF, and RTA_GATEWAY when present).
RouteOf(reply) == [if_index |-> reply.if_index, gateway |-> reply.gateway]

\* mt_get_route: the cached route to the destination, or route_create:
\* malloc, route_lookup (RTA_OIF gives if_index, RTA_GATEWAY the gateway,
\* which stays NULL without one), addr_copy of the destination, and
\* list_insert.  dst_create fails on NULL.  Both the cache walk and
\* route_lookup read dst->type.
mt_get_route ==
    /\ pc = "route"
    /\ IF ip_dst = NULL THEN Crash /\ UNCHANGED <<routes, r, heap>>
       ELSE IF routes /= <<>> THEN r' = routes[1] /\ pc' = "neighbor"
                                    /\ UNCHANGED <<routes, heap, status>>
       ELSE \E ok \in Malloc :
              IF ~ok \/ env.route = RouteFail
                THEN DstCreateFailed({"dst"}) /\ UNCHANGED <<routes, r>>
                ELSE LET new == RouteOf(env.route)
                     IN  /\ routes' = Append(routes, new)
                         /\ r' = new
                         /\ heap' = heap \cup {"route", "route.dst"}
                                   \cup (IF new.gateway = NoGateway THEN {}
                                         ELSE {"route.gateway"})
                         /\ pc' = "neighbor" /\ UNCHANGED status
    /\ UNCHANGED <<env, neighbors, interfaces, ip_dst, n, d>>

\* mt_get_interface(if_index): the outcomes of the cache walk and, on a
\* miss, of malloc, iface_hw_addr, link_open, list_create (whose failure
\* returns NULL and leaks what was made) and interface_pcap_open, whose
\* result is ignored: a failed pcap_open_live reaches pcap_close(NULL), a
\* capture that is not Ethernet is closed and its handle kept.
MissOutcomes(idx) ==
    LET made(listOk) ==
          {"iface"} \cup (IF env.hw THEN {"iface.hw_addr"} ELSE {})
                    \cup (IF env.link THEN {"iface.link"} ELSE {})
                    \cup (IF listOk THEN {"iface.probes"} ELSE {})
        new == [if_index |-> idx, hw_addr |-> IF env.hw THEN Mac(idx) ELSE NULL,
                link |-> env.link,
                pcap |-> IF env.pcap = "ok" THEN "open" ELSE "closed",
                probes |-> <<>>]
    IN  (IF MallocMayFail
           THEN {[i |-> NULL, list |-> interfaces, made |-> {}, crash |-> FALSE],
                 [i |-> NULL, list |-> interfaces, made |-> made(FALSE),
                  crash |-> FALSE]}
           ELSE {})
        \cup {[i |-> Len(interfaces) + 1, list |-> Append(interfaces, new),
               made |-> made(TRUE) \cup (IF env.pcap = "ok" THEN {"iface.pcap"} ELSE {}),
               crash |-> env.pcap = "open_fail"]}

\* Mutant: the cache walk never finds the interface.
MtGetInterface_NoHit(idx) == MissOutcomes(idx)

MtGetInterface(idx) ==
    LET hit == {k \in DOMAIN interfaces : interfaces[k].if_index = idx}
    IN  IF hit /= {}
          THEN {[i |-> CHOOSE k \in hit : TRUE, list |-> interfaces, made |-> {},
                 crash |-> FALSE]}
          ELSE MissOutcomes(idx)

\* neighbor4 and neighbor6 go on to send a request only with the
\* interface's hardware address and an address of the family.
NdReady == env.hw /\ env.kind \in env.ips

\* mt_get_neighbor: the cache walk reads dst->type, and so does mt_nd on a
\* miss; neighbor4 and neighbor6 return NULL without a hardware address
\* or an address of the family on the interface, else build the request
\* and mt_send it: mt_get_interface, probe_create, link_write, list_insert.
mt_get_neighbor ==
    /\ pc = "neighbor"
    /\ LET gw == r.gateway IN
       IF gw = NoGateway THEN Crash /\ UNCHANGED <<interfaces, n, heap>>
       ELSE IF \E k \in DOMAIN neighbors : neighbors[k].ip_addr = gw
         THEN /\ n' = neighbors[CHOOSE k \in DOMAIN neighbors : neighbors[k].ip_addr = gw]
              /\ pc' = "iface" /\ UNCHANGED <<interfaces, heap, status>>
       ELSE IF ~NdReady
         THEN DstCreateFailed({"dst"}) /\ UNCHANGED <<interfaces, n>>
       ELSE \E o \in MtGetInterface(r.if_index) :
              IF o.crash \/ o.i = NULL
                THEN Crash /\ UNCHANGED <<interfaces, n, heap>>
                ELSE /\ interfaces' = [o.list EXCEPT ![o.i].probes =
                                         Append(@, [answered |-> FALSE])]
                     /\ heap' = heap \cup NdTemps \cup o.made \cup {"nd.probe"}
                     /\ pc' = "nd_wait" /\ UNCHANGED <<n, status>>
    /\ UNCHANGED <<env, routes, neighbors, ip_dst, r, d>>
\* The interface dst_create's route leaves through, once cached.
Egress == CHOOSE k \in DOMAIN interfaces : interfaces[k].if_index = r.if_index

\* The request is answered only if it left (link_write on a link) and the
\* gateway answers: neighbor4_match takes an ARP frame whose sender and
\* target addresses are the request's swapped, neighbor6_match an
\* advertisement for the solicited target; only the gateway sends those.
NdAnswerable(i) == env.answers /\ i.link

\* mt_wait(a, if_index): it returns once the ND probe is answered or has
\* used its retries.  A request link_write could not send (no link) is
\* never stamped, and mt_receive skips it.  A handle interface_pcap_open
\* closed is read by pcap_next_ex after the free: the build may crash, or
\* the reads fail until the probe times out.
mt_wait ==
    /\ pc = "nd_wait"
    /\ LET k == Egress IN
       \E crashed \in IF interfaces[k].pcap = "closed" THEN BOOLEAN ELSE {FALSE},
         answered \in IF NdAnswerable(interfaces[k]) THEN BOOLEAN ELSE {FALSE} :
          IF crashed THEN Crash /\ UNCHANGED interfaces
          ELSE /\ interfaces' = [interfaces EXCEPT ![k].probes =
                                   [j \in DOMAIN @ |-> [answered |-> answered]]]
               /\ pc' = "nd_collect" /\ UNCHANGED status
    /\ UNCHANGED <<env, routes, neighbors, ip_dst, r, n, d, heap>>

\* probe->response_len > 0 for one of the probes popped.
\* Mutant: any probe popped counts as answered.
AnsweredAny(probes) == probes /= <<>>
Answered(probes) == \E j \in DOMAIN probes : probes[j].answered

\* The rest of neighbor4/6: list_pop every probe of the interface, take
\* the sender's hardware address from an answered one, probe_destroy,
\* and free the request; then mt_get_neighbor: NULL fails dst_create,
\* else malloc the neighbour (destroying the address if that fails),
\* addr_copy its IP and list_insert it.
nd_collect ==
    /\ pc = "nd_collect"
    /\ LET k    == Egress
           gw   == r.gateway
           resp == Answered(interfaces[k].probes)
           done == NdTemps \cup {"nd.probe"}
       IN  /\ interfaces' = [interfaces EXCEPT ![k].probes = <<>>]
           /\ IF ~resp THEN DstCreateFailed({"dst"} \cup done) /\ UNCHANGED <<neighbors, n>>
              ELSE \E ok \in Malloc :
                     IF ~ok THEN DstCreateFailed({"dst"} \cup done) /\ UNCHANGED <<neighbors, n>>
                     ELSE LET new == [ip_addr |-> gw, hw_addr |-> Mac(gw),
                                      if_index |-> r.if_index]
                          IN  /\ neighbors' = Append(neighbors, new)
                              /\ n' = new
                              /\ heap' = (heap \ done) \cup {"nbr", "nbr.ip_addr", "nbr.hw_addr"}
                              /\ pc' = "iface" /\ UNCHANGED status
    /\ UNCHANGED <<env, routes, ip_dst, r, d>>

\* The fields dst_create sets.
NewDst(if_ip, i) ==
    [ip_dst |-> IF ip_dst = NULL THEN NULL ELSE DstAddr, ip_src |-> if_ip,
     mac_dst |-> n.hw_addr, mac_src |-> i.hw_addr, if_index |-> r.if_index]

\* The end of dst_create: mt_get_interface, iface_ip_addr of the
\* destination's family, and the fields of struct dst.
dst_create ==
    /\ pc = "iface"
    /\ \E o \in MtGetInterface(r.if_index) :
         IF o.crash THEN Crash /\ UNCHANGED <<interfaces, d, heap>>
         ELSE IF o.i = NULL
           THEN /\ interfaces' = o.list
                /\ DstCreateFailed({"dst"}) /\ UNCHANGED d
         ELSE LET if_ip == IF env.kind \in env.ips THEN IpOf(env.kind, r.if_index)
                           ELSE NULL
              IN  /\ interfaces' = o.list
                  /\ heap' = heap \cup o.made \cup (IF if_ip = NULL THEN {} ELSE {"ip_src"})
                  /\ d' = NewDst(if_ip, o.list[o.i])
                  /\ pc' = "mode" /\ UNCHANGED status
    /\ UNCHANGED <<env, routes, neighbors, ip_dst, r, n>>

\* mt_ping, mt_mda or mt_traceroute (their own modules): every probe they
\* build copies the source addresses of the dst.
run_mode ==
    /\ pc = "mode"
    /\ IF d.ip_src = NULL \/ d.mac_src = NULL THEN Crash
       ELSE pc' = "dst_destroy" /\ UNCHANGED status
    /\ UNCHANGED <<env, routes, neighbors, interfaces, ip_dst, r, n, d, heap>>

\* Free the objects S and go on to the step at label to; nulls says an
\* addr_destroy or pcap_close was given NULL or a closed handle.  Both
\* that and an object already freed crash.
Release(S, nulls, to) ==
    IF nulls \/ ~(S \subseteq heap) THEN Crash /\ UNCHANGED heap
    ELSE heap' = heap \ S /\ pc' = to /\ UNCHANGED status

\* What dst_destroy frees: both addresses and the dst.  Mutant: the
\* neighbour's hardware address too, which the dst only borrows.
DstObjectsWithMac == {"ip_dst", "ip_src", "dst", "nbr.hw_addr"}
DstObjects == {"ip_dst", "ip_src", "dst"}

\* dst_destroy: addr_destroy of both addresses, free(d).
dst_destroy ==
    /\ pc = "dst_destroy"
    /\ Release(DstObjects, d.ip_dst = NULL \/ d.ip_src = NULL,
               "mt_destroy")
    /\ UNCHANGED <<env, routes, neighbors, interfaces, ip_dst, r, n, d>>
\* mt_destroy: mt_interface_destroy for every interface (its probes, its
\* list, link_close, pcap_close and addr_destroy of its hardware address),
\* route_destroy (addr_destroy of the gateway and the destination) and
\* neighbor_destroy for every entry, then the three lists and the
\* session.  main returns 1 after "Wrong address.", 0 after the mode.
IfaceObjects(i) ==
    {"iface", "iface.probes", "iface.hw_addr"} \cup (IF i.link THEN {"iface.link"} ELSE {})
      \cup (IF i.pcap = "open" THEN {"iface.pcap"} ELSE {})
      \cup (IF i.probes = <<>> THEN {} ELSE {"nd.probe"})
RouteObjects  == {"route", "route.gateway", "route.dst"}
NbrObjects    == {"nbr", "nbr.ip_addr", "nbr.hw_addr"}
mt_destroy ==
    /\ pc \in {"mt_destroy", "wrong_address"}
    /\ LET freed == MtObjects \cup UNION {IfaceObjects(interfaces[k]) : k \in DOMAIN interfaces}
                      \cup (IF routes = <<>> THEN {} ELSE RouteObjects)
                      \cup (IF neighbors = <<>> THEN {} ELSE NbrObjects)
           nulls == \/ \E k \in DOMAIN interfaces :
                          interfaces[k].pcap = "closed" \/ interfaces[k].hw_addr = NULL
                    \/ \E k \in DOMAIN routes : routes[k].gateway = NoGateway
       IN  IF nulls \/ ~(freed \subseteq heap) THEN Crash /\ UNCHANGED heap
           ELSE /\ heap' = heap \ freed
                /\ status' = IF pc = "wrong_address" THEN 1 ELSE 0
                /\ pc' = "exit"
    /\ UNCHANGED <<env, routes, neighbors, interfaces, ip_dst, r, n, d>>

Terminated == pc = "exit" /\ UNCHANGED vars

Next ==
    \/ main_setup \/ dst_create_from_str \/ mt_get_route \/ mt_get_neighbor
    \/ mt_wait \/ nd_collect \/ dst_create \/ run_mode \/ dst_destroy
    \/ mt_destroy \/ Terminated

\* main is one thread of calls that each return: every step it can take,
\* it takes.
Spec == Init /\ [][Next]_vars /\ WF_vars(Next)
-----------------------------------------------------------------------------
(* Properties.                                                             *)

Addr == {NULL, DstAddr} \cup {IpOf(f, i) : f \in Families, i \in Ifaces}
          \cup {Mac(x) : x \in Ifaces \cup Gateways}

TypeOK ==
    /\ env \in Envs
    /\ pc \in {"main", "dst", "route", "neighbor", "nd_wait", "nd_collect", "iface",
               "mode", "dst_destroy", "mt_destroy", "wrong_address", "exit"}
    /\ ip_dst \in {NULL, "ip_dst"}
    /\ d = NULL \/ d \in [ip_dst : Addr, ip_src : Addr, mac_dst : Addr,
                          mac_src : Addr, if_index : Ifaces \cup {0}]
    /\ Len(routes) <= 1 /\ Len(neighbors) <= 1 /\ Len(interfaces) <= 1
    /\ status \in {Running, 0, 1, Crashed}

\* The setup errors spec.md calls fatal: no privilege, no arguments, an
\* address that does not parse, no route, no neighbour resolved on the
\* egress interface (no hardware address, no address of the family, no
\* link, no answer).
Fatal(e) ==
    \/ e.setup /= "ok" \/ e.kind = "bad" \/ e.route = RouteFail
    \/ ~e.hw \/ e.kind \notin e.ips \/ ~e.link \/ ~e.answers

\* main never crashes setting up or tearing down the session: every
\* setup error is reported and main returns (spec.md: fatal setup errors
\* abort the run with a message and a nonzero exit).
NoSetupCrash == status /= Crashed

\* main returns 0 only when no setup error occurred and the gateway
\* answered: after every fatal setup error it returns 1.
ExitAsSpecified == status \in {0, 1} /\ Fatal(env) => status = 1

\* When main returns, every object of the session (the lists and what
\* they own, the dst and its addresses, the ND request and probe) has been
\* freed.
TornDown == status \in {0, 1} => heap = {}
=============================================================================
