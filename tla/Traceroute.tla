----------------------------- MODULE Traceroute -----------------------------
(***************************************************************************)
(* The traceroute mode (traceroute, src/src/mt_traceroute.c).              *)
(*                                                                         *)
(* Each round submits up to at_once probes, the TTL growing by one per     *)
(* probe, waits for the round with mt_wait, then pops the probes in list   *)
(* order (list_pop, src/src/list.c) and prints each one until a response   *)
(* shows arrival: an ICMP unreachable, or a responder that is the          *)
(* destination.  A round that showed arrival ends the trace.               *)
(*                                                                         *)
(* mt_wait is taken as one step: each probe of the round ends answered or  *)
(* '*'.  ProbeEngine checks that this is what mt_wait does for the        *)
(* distinct correlation keys traceroute uses (checksum, sequence number    *)
(* or TCP sequence = TTL).                                                 *)
(*                                                                         *)
(* The path: the router at hop t < DstHop answers a probe of TTL t with    *)
(* time-exceeded; the destination, DstHop hops away, answers a probe of    *)
(* any TTL >= DstHop.  What it answers depends on the probe method: an     *)
(* echo reply (icmp), a port unreachable (udp), a TCP segment (tcp), which *)
(* match_tcp4 never matches.  A lossy path also loses packets and lets a   *)
(* router answer destination-unreachable.                                  *)
(***************************************************************************)
EXTENDS Integers, Sequences, SequencesExt

CONSTANTS
    MaxTtl,      \* max_ttl
    AtOnce,      \* at_once (option -p)
    DstHops,     \* the hop counts the destination may be at
    Methods,     \* the probe_types checked: subset of {"icmp", "udp", "tcp"}
    LossModes,   \* subset of BOOLEAN: whether the path may lose packets
    Exceeded, Unreach, EchoReply,  \* ICMP types of a response
    NoResp       \* response_len == 0, printed '*'

ASSUME /\ MaxTtl \in Nat /\ AtOnce \in Nat /\ DstHops \subseteq 1..MaxTtl
       /\ Methods \subseteq {"icmp", "udp", "tcp"} /\ LossModes \subseteq BOOLEAN

VARIABLES
    DstHop,    \* the path: hop count of the destination (fixed in a run)
    Method,    \* probe_type (fixed in a run)
    Lossy,     \* the path loses packets and routers may answer unreachable
    ttl,       \* the next TTL to probe
    pn,        \* probes submitted in this round
    pc,        \* "send", "wait", "pop" or "done"
    probes,    \* i->probes: the round's probes, in submission order
    finished,  \* a popped probe of this round showed arrival
    out        \* the lines printed so far: the probes printed, in order

path == <<DstHop, Method, Lossy>>
vars == <<DstHop, Method, Lossy, ttl, pn, pc, probes, finished, out>>

Resp == [src : 1..MaxTtl, type : {Exceeded, Unreach, EchoReply}]
Probe == [ttl : 1..MaxTtl, resp : Resp \cup {NoResp}]

TypeOK ==
    /\ DstHop \in DstHops /\ Method \in Methods /\ Lossy \in LossModes
    /\ ttl \in 1..MaxTtl + 1
    /\ pn \in 0..AtOnce
    /\ pc \in {"send", "wait", "pop", "done"}
    /\ probes \in Seq(Probe) /\ Len(probes) <= AtOnce
    /\ finished \in BOOLEAN
    /\ out \in Seq(Probe) /\ Len(out) <= MaxTtl

Init ==
    /\ DstHop \in DstHops
    /\ Method \in Methods
    /\ Lossy \in LossModes
    /\ ttl = 1
    /\ pn = 0
    /\ pc = "send"
    /\ probes = <<>>
    /\ finished = FALSE
    /\ out = <<>>

-----------------------------------------------------------------------------
(* The path and the matching predicates.                                   *)

\* The matched answers a probe of TTL t can get.  The destination's answer
\* to a TCP probe is a TCP segment, and match_tcp4 only looks at ICMP.
Answers(t) ==
    IF t < DstHop
    THEN {[src |-> t, type |-> Exceeded]}
         \cup (IF Lossy THEN {[src |-> t, type |-> Unreach]} ELSE {})
    ELSE CASE Method = "icmp" -> {[src |-> DstHop, type |-> EchoReply]}
           [] Method = "udp"  -> {[src |-> DstHop, type |-> Unreach]}
           [] Method = "tcp"  -> {}

\* What the probe holds when mt_wait returns.
Outcomes(t) ==
    Answers(t) \cup (IF Lossy \/ Answers(t) = {} THEN {NoResp} ELSE {})

-----------------------------------------------------------------------------
(* Actions of traceroute().                                                *)

\* Mutant: the loop bound compared with < instead of <=.
MoreTtlsOffByOne == ttl < MaxTtl

\* Mutant: the loop bound one past max_ttl.
MoreTtlsPastMax == ttl <= MaxTtl + 1

\* ttl <= max_ttl, the condition of both loops.
MoreTtls == ttl <= MaxTtl

\* One iteration of the inner for loop: packet_helper_*, mt_send.
SendProbe ==
    /\ pc = "send"
    /\ pn < AtOnce /\ MoreTtls
    /\ probes' = Append(probes, [ttl |-> ttl, resp |-> NoResp])
    /\ pn' = pn + 1
    /\ ttl' = ttl + 1
    /\ UNCHANGED <<path, pc, finished, out>>

\* The inner loop's condition fails: mt_wait starts.
EndRound ==
    /\ pc = "send"
    /\ ~(pn < AtOnce /\ MoreTtls)
    /\ pc' = "wait"
    /\ UNCHANGED <<path, ttl, pn, probes, finished, out>>

\* mt_wait returns: every probe is answered or given up.
MtWait ==
    /\ pc = "wait"
    /\ \E r \in [1..Len(probes) -> Resp \cup {NoResp}] :
          /\ \A i \in 1..Len(probes) : r[i] \in Outcomes(probes[i].ttl)
          /\ probes' = [i \in 1..Len(probes) |-> [probes[i] EXCEPT !.resp = r[i]]]
    /\ pc' = "pop"
    /\ finished' = FALSE
    /\ UNCHANGED <<path, ttl, pn, out>>

\* Mutant: arrival only when the responder is the destination.
FinishesDstOnly(p) == p.resp # NoResp /\ p.resp.src = DstHop

\* The response is an ICMP unreachable or comes from the destination.
Finishes(p) ==
    /\ p.resp # NoResp
    /\ p.resp.type = Unreach \/ p.resp.src = DstHop

\* Mutant: list_pop takes the last item.
ListPopLast(s) == <<Last(s), Front(s)>>

\* list_pop: the first item and the rest of the list.
ListPop(s) == <<Head(s), Tail(s)>>

\* Mutant: the pop loop prints every probe, finished or not.
PopProbePrintAll ==
    /\ pc = "pop"
    /\ probes # <<>>
    /\ LET p == ListPop(probes)[1]
       IN /\ probes' = ListPop(probes)[2]
          /\ out' = Append(out, p)
          /\ finished' = (finished \/ Finishes(p))
    /\ UNCHANGED <<path, ttl, pn, pc>>

\* One iteration of the pop loop: print the probe unless arrival was seen.
PopProbe ==
    /\ pc = "pop"
    /\ probes # <<>>
    /\ LET p == ListPop(probes)[1]
       IN /\ probes' = ListPop(probes)[2]
          /\ IF finished
             THEN UNCHANGED <<out, finished>>
             ELSE out' = Append(out, p) /\ finished' = Finishes(p)
    /\ UNCHANGED <<path, ttl, pn, pc>>

\* Mutant: pn is declared outside the outer loop and never reset.
NextRoundKeepPn ==
    /\ pc = "pop"
    /\ probes = <<>>
    /\ pc' = IF finished \/ ~MoreTtls THEN "done" ELSE "send"
    /\ UNCHANGED <<path, ttl, pn, probes, finished, out>>

\* The list is empty: break if finished, else the outer loop goes on.
NextRound ==
    /\ pc = "pop"
    /\ probes = <<>>
    /\ pc' = IF finished \/ ~MoreTtls THEN "done" ELSE "send"
    /\ pn' = 0
    /\ UNCHANGED <<path, ttl, probes, finished, out>>

Terminated == pc = "done" /\ UNCHANGED vars

Next == SendProbe \/ EndRound \/ MtWait \/ PopProbe \/ NextRound \/ Terminated

\* A single thread that blocks only inside mt_wait, which returns.
Spec == Init /\ [][Next]_vars /\ WF_vars(Next)

-----------------------------------------------------------------------------
(* Properties.                                                             *)

\* A response from the destination or an unreachable ends the trace.
Arrival(p) == p.resp # NoResp /\ (p.resp.type = Unreach \/ p.resp.src = DstHop)

\* The lines come out hop by hop: the i-th line printed is TTL i (the
\* submission order of mt_send and the FIFO order of list_pop agree).
OutputInTtlOrder == \A i \in 1..Len(out) : out[i].ttl = i

\* Nothing is printed after a line that shows arrival (the finished flag of
\* the pop loop and the break of the outer loop).
NothingAfterArrival ==
    \A i \in 1..Len(out) - 1 : ~Arrival(out[i])

\* When traceroute returns, it has printed every TTL up to max_ttl or
\* stopped at a line that shows arrival.
TraceComplete ==
    pc = "done" =>
        \/ Len(out) = MaxTtl
        \/ out # <<>> /\ Arrival(Last(out))

\* traceroute returns.
TracerouteTerminates == <>(pc = "done")

\* On a path that loses nothing, the trace prints exactly the DstHop hops
\* up to the destination, all answered (the end-to-end scenario of the
\* specification: three hops, three answered lines, then stop).
ReachesDestination ==
    (~Lossy /\ pc = "done") =>
        /\ Len(out) = DstHop
        /\ \A i \in 1..Len(out) : out[i].resp # NoResp

=============================================================================
