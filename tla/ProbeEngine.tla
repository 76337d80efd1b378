---------------------------- MODULE ProbeEngine ----------------------------
(***************************************************************************)
(* The probe lifecycle and matching engine of mtraceroute, one interface.  *)
(*                                                                         *)
(*   mt_send              (src/src/mt.c)     submit a probe, pace sends    *)
(*   mt_unanswered_probes (src/src/mt.c)     timeout / retry sweep         *)
(*   mt_receive           (src/src/mt.c)     feed a captured frame         *)
(*   mt_wait              (src/src/mt.c)     sweep / pcap poll loop        *)
(*   probe_timeout, probe_match (src/src/probe.c)                          *)
(*   match_udp4           (src/src/match.c)  the correlation predicate     *)
(*                                                                         *)
(* The probing mode that drives the engine is the pattern all three modes  *)
(* share: submit a batch of probes back to back, mt_wait, then pop every   *)
(* probe of the interface list.  The batches are the constant Batches, a   *)
(* sequence of sequences of correlation keys (the fields match_udp4        *)
(* compares: source port, destination port and UDP checksum).             *)
(*                                                                         *)
(* The network loses, reorders and delays packets without bound; the       *)
(* kernel capture buffer keeps frames that arrive while nobody polls, so a *)
(* frame can be read by a later mt_wait than the one that sent its probe.  *)
(* Time is a tick counter; TicksPerSec ticks make one second, the unit in  *)
(* which probe_timeout compares timestamps.                                *)
(***************************************************************************)
EXTENDS Integers, Sequences, FiniteSets, Timeval

CONSTANTS
    Batches,      \* <<batch_1, ..., batch_n>>, batch_i a sequence of keys
    Retries,      \* a->retries (option -r)
    Timeout,      \* a->probe_timeout in seconds (option -w)
    SendWait,     \* a->send_wait in ticks (option -z)
    TicksPerSec,  \* clock ticks per second
    MaxTime,      \* bound on the clock: a poll at MaxTime no longer advances it
    RetryCap,     \* bound on a probe's retry counter (saturates there)
    Exceeded,     \* ICMPV4_TYPE_EXCEEDED
    Unreach,      \* ICMPV4_TYPE_UNREACH
    OtherIcmp,    \* any other ICMP type quoting the probe
    NoResp        \* response_len == 0

ASSUME /\ Len(Batches) >= 1
       /\ \A b \in 1..Len(Batches) : Len(Batches[b]) >= 1
       /\ Retries \in Int /\ Timeout \in Nat /\ SendWait \in Nat
       /\ TicksPerSec \in Nat \ {0} /\ MaxTime \in Nat /\ RetryCap \in Nat

VARIABLES
    now,          \* the clock, in ticks
    pc,           \* where the single probing thread is
    batch,        \* index of the batch being probed
    sentIdx,      \* probes of the batch already submitted
    probes,       \* i->probes: the interface's probe list
    probesCount,  \* a->probes_count
    lastProbe,    \* a->last_probe_time
    wire,         \* transmissions the network has not answered or lost yet
    pcapBuf       \* frames captured by the kernel, not yet read

vars == <<now, pc, batch, sentIdx, probes, probesCount, lastProbe,
          wire, pcapBuf>>

ReplyTypes == {Exceeded, Unreach, OtherIcmp}
Keys == UNION {{Batches[b][i] : i \in 1..Len(Batches[b])} : b \in 1..Len(Batches)}
ProbeIds == UNION {{<<b, i>> : i \in 1..Len(Batches[b])} : b \in 1..Len(Batches)}
TotalProbes == Cardinality(ProbeIds)
Time == 0..MaxTime

\* A transmission of a probe: its key, and as history the probe and the
\* time of the link_write.  A captured frame answers one transmission and
\* carries the pcap timestamp ts of its arrival; id and at are history
\* only, the code cannot see them.
Transmission == [key : Keys, id : ProbeIds, at : Time]
Frame == [type : ReplyTypes, key : Keys, id : ProbeIds, at : Time, ts : Time]
Probe == [id : ProbeIds, key : Keys, sent : Time,
          retries : 0..RetryCap, resp : Frame \cup {NoResp}]

TypeOK ==
    /\ now \in Time
    /\ pc \in {"send", "sweep", "poll", "collect", "done"}
    /\ batch \in 1..Len(Batches)
    /\ sentIdx \in 0..Len(Batches[batch])
    /\ probes \in Seq(Probe)
    /\ probesCount \in 0..TotalProbes
    /\ lastProbe \in Time
    /\ wire \subseteq Transmission
    /\ pcapBuf \subseteq Frame

Init ==
    /\ now = 0
    /\ pc = "send"
    /\ batch = 1
    /\ sentIdx = 0
    /\ probes = <<>>
    /\ probesCount = 0
    /\ lastProbe = 0
    /\ wire = {}
    /\ pcapBuf = {}

-----------------------------------------------------------------------------
(* Helpers translated from the code.                                       *)

\* gettimeofday at tick t: whole seconds and microseconds.
UsecPerTick == 1000000 \div TicksPerSec
Tv(t) == [tv_sec |-> t \div TicksPerSec, tv_usec |-> (t % TicksPerSec) * UsecPerTick]

\* p->response_time: the frame's pcap timestamp, passed by mt_wait to
\* mt_receive as a struct timespec and stored by probe_match through its
\* const struct timeval * parameter.
ResponseTime(p) == AsTimeval(PcapTimespec(Tv(p.resp.ts)))

\* Mutant: the timeout compared with > rather than >=.
ProbeTimeoutStrict(p) == (now \div TicksPerSec) - (p.sent \div TicksPerSec) > Timeout

\* probe_timeout: whole seconds of the send time and of now are compared.
ProbeTimeout(p) == (now \div TicksPerSec) - (p.sent \div TicksPerSec) >= Timeout

\* Mutant: match_udp4 without the checksum comparison.
MatchUdpNoChecksum(k, f) ==
    /\ f.type \in {Exceeded, Unreach}
    /\ k.sport = f.key.sport /\ k.dport = f.key.dport

\* match_udp4: an ICMP time-exceeded or unreachable quoting the same UDP
\* source port, destination port and checksum.
MatchUdp(k, f) ==
    /\ f.type \in {Exceeded, Unreach}
    /\ k.sport = f.key.sport /\ k.dport = f.key.dport /\ k.chk = f.key.chk

\* mt_receive: probe_match against every unanswered probe of the list.
MtReceive(f) ==
    [i \in 1..Len(probes) |->
        IF probes[i].resp = NoResp /\ MatchUdp(probes[i].key, f)
        THEN [probes[i] EXCEPT !.resp = f]
        ELSE probes[i]]

\* Mutant: the sweep counts every unanswered probe as pending.
PendingForever(p) == p.resp = NoResp

\* The probe is counted by mt_unanswered_probes.
Pending(p) ==
    /\ p.resp = NoResp
    /\ ~ProbeTimeout(p) \/ p.retries # Retries

\* Mutant: the sweep does not skip answered probes.
ToRetryAnswered(p) == ProbeTimeout(p) /\ p.retries # Retries

\* Mutant: the sweep retransmits a timed-out probe whatever its retries.
ToRetryNoLimit(p) == p.resp = NoResp /\ ProbeTimeout(p)

\* The probe is retransmitted by mt_unanswered_probes (mt_retry).
ToRetry(p) ==
    /\ p.resp = NoResp
    /\ ProbeTimeout(p)
    /\ p.retries # Retries

-----------------------------------------------------------------------------
(* Actions of the probing thread.                                          *)

\* Woken time after the pacing sleep of mt_send.
PacedTime == IF probesCount > 0 /\ now - lastProbe < SendWait
             THEN lastProbe + SendWait ELSE now

\* mt_send: probe_create, link_write (stamps sent_time), list_insert, then
\* the pacing sleep, probes_count++ and last_probe_time.
MtSend ==
    /\ pc = "send"
    /\ PacedTime <= MaxTime
    /\ LET b  == Batches[batch]
           id == <<batch, sentIdx + 1>>
           k  == b[sentIdx + 1]
       IN /\ probes' = Append(probes, [id |-> id, key |-> k, sent |-> now,
                                       retries |-> 0, resp |-> NoResp])
          /\ wire' = wire \cup {[key |-> k, id |-> id, at |-> now]}
          /\ sentIdx' = sentIdx + 1
          /\ pc' = IF sentIdx + 1 = Len(b) THEN "sweep" ELSE "send"
    /\ now' = PacedTime
    /\ lastProbe' = PacedTime
    /\ probesCount' = probesCount + 1
    /\ UNCHANGED <<batch, pcapBuf>>

\* p->retries++ of mt_retry.  The counter saturates at RetryCap: with
\* Retries >= 0 and RetryCap >= Retries it never gets there (a probe stops
\* at Retries); with a negative Retries the probe retries for ever, and
\* counts above RetryCap are not told apart.
CappedIncr(r) == IF r < RetryCap THEN r + 1 ELSE RetryCap

\* Mutant: the sweep retransmits through mt_send, which also counts the
\* retransmission in probes_count.
MtUnansweredProbesResubmit ==
    /\ pc = "sweep"
    /\ LET again == {i \in 1..Len(probes) : ToRetry(probes[i])}
       IN /\ probes' = [i \in 1..Len(probes) |->
                          IF i \in again
                          THEN [probes[i] EXCEPT !.sent = now,
                                                 !.retries = CappedIncr(@)]
                          ELSE probes[i]]
          /\ wire' = wire \cup {[key |-> probes[i].key, id |-> probes[i].id,
                                  at |-> now] : i \in again}
          /\ probesCount' = probesCount + Cardinality(again)
    /\ pc' = IF \E i \in 1..Len(probes) : Pending(probes[i]) THEN "poll" ELSE "collect"
    /\ UNCHANGED <<now, batch, sentIdx, lastProbe, pcapBuf>>

\* mt_unanswered_probes, the test of mt_wait's loop: retransmit every
\* timed-out probe with retries left; leave mt_wait when none is pending.
MtUnansweredProbes ==
    /\ pc = "sweep"
    /\ LET again == {i \in 1..Len(probes) : ToRetry(probes[i])}
       IN /\ probes' = [i \in 1..Len(probes) |->
                          IF i \in again
                          THEN [probes[i] EXCEPT !.sent = now,
                                                 !.retries = CappedIncr(@)]
                          ELSE probes[i]]
          /\ wire' = wire \cup {[key |-> probes[i].key, id |-> probes[i].id,
                                  at |-> now] : i \in again}
    /\ pc' = IF \E i \in 1..Len(probes) : Pending(probes[i]) THEN "poll" ELSE "collect"
    /\ UNCHANGED <<now, batch, sentIdx, probesCount, lastProbe, pcapBuf>>

\* pcap_next_ex returns a frame: mt_receive.
Capture ==
    /\ pc = "poll"
    /\ \E f \in pcapBuf :
          /\ probes' = MtReceive(f)
          /\ pcapBuf' = pcapBuf \ {f}
    /\ pc' = "sweep"
    /\ UNCHANGED <<now, batch, sentIdx, probesCount, lastProbe, wire>>

\* pcap_next_ex times out (MT_PCAP_MS) with nothing captured.
PollTimeout ==
    /\ pc = "poll"
    /\ pcapBuf = {}
    /\ now' = IF now < MaxTime THEN now + 1 ELSE now
    /\ pc' = "sweep"
    /\ UNCHANGED <<batch, sentIdx, probes, probesCount, lastProbe,
                   wire, pcapBuf>>

\* The mode pops and destroys every probe of the list after mt_wait.
Collect ==
    /\ pc = "collect"
    /\ probes' = <<>>
    /\ IF batch = Len(Batches)
       THEN pc' = "done" /\ UNCHANGED <<batch, sentIdx>>
       ELSE pc' = "send" /\ batch' = batch + 1 /\ sentIdx' = 0
    /\ UNCHANGED <<now, probesCount, lastProbe, wire, pcapBuf>>

-----------------------------------------------------------------------------
(* The network: a router answers a transmission with an ICMP message, or   *)
(* the transmission or its answer is lost.                                 *)

Reply ==
    \E t \in wire, ty \in ReplyTypes :
        /\ wire' = wire \ {t}
        /\ pcapBuf' = pcapBuf \cup {[type |-> ty, key |-> t.key, id |-> t.id,
                                    at |-> t.at, ts |-> now]}
        /\ UNCHANGED <<now, pc, batch, sentIdx, probes, probesCount, lastProbe>>

Lose ==
    \E t \in wire :
        /\ wire' = wire \ {t}
        /\ UNCHANGED <<now, pc, batch, sentIdx, probes, probesCount, lastProbe,
                       pcapBuf>>

\* The program has exited and the network is quiet.
Terminated == pc = "done" /\ wire = {} /\ UNCHANGED vars

Prober == MtSend \/ MtUnansweredProbes \/ Capture \/ PollTimeout \/ Collect

Next == Prober \/ Reply \/ Lose \/ Terminated

\* The probing thread never stops while it can run (it only blocks in a
\* pcap poll bounded by MT_PCAP_MS); the network owes nothing.
Spec == Init /\ [][Next]_vars /\ WF_vars(Prober)

-----------------------------------------------------------------------------
(* Properties.                                                             *)

\* Correlation (match_udp4 via mt_receive): a response recorded for a probe
\* answers a transmission of that very probe, never of another probe.
ResponseAnswersOwnProbe ==
    \A i \in 1..Len(probes) :
        probes[i].resp # NoResp => probes[i].resp.id = probes[i].id

\* Matched is terminal (mt_receive, mt_unanswered_probes): once a probe has
\* a response, neither the response nor its send time and retry count
\* change while the probe stays in the list.
AnsweredProbeIsFinal ==
    [][\A i \in 1..Len(probes) :
          (probes[i].resp # NoResp /\ i <= Len(probes'))
              => probes'[i] = probes[i]]_vars

\* mt_wait gives up on a batch at most (-r + 1) * (-w) seconds after the
\* batch's last mt_send: probe_timeout, evaluated by the sweep after every
\* poll, retransmits or abandons a probe no later than -w seconds after its
\* last transmission.  Comparing whole seconds makes a try shorter, never
\* longer (probe.c:62).
WaitBounded ==
    pc \in {"sweep", "poll"} =>
        now <= lastProbe + (Retries + 1) * Timeout * TicksPerSec

\* Every mt_wait returns, so the mode gets through all its batches.
AllBatchesProbed == <>(pc = "done")

\* The RTT printed (response_time - sent_time) is that of the transmission
\* the response answers: the probe's sent_time is the time of that
\* transmission.
RttOfAnsweredTransmission ==
    \A i \in 1..Len(probes) :
        probes[i].resp # NoResp => probes[i].resp.at = probes[i].sent

\* The RTT ping and traceroute print for an answered probe,
\* timeval_diff_to_str(response_time, sent_time), is the time from the
\* transmission the response answers to the response's capture, in
\* milliseconds with three decimals.
RttPrinted ==
    \A i \in 1..Len(probes) :
        LET p == probes[i]
            d == (p.resp.ts - p.resp.at) * UsecPerTick
        IN  p.resp # NoResp =>
                timeval_diff_to_str(ResponseTime(p), Tv(p.sent))
                    = <<d \div 1000, d % 1000>>

-----------------------------------------------------------------------------
(* Refinement of the probe lifecycle.                                     *)

\* Where probe <<b, i>> is in its lifecycle: batches before the current one
\* (all of them once the mode is done) have been popped; the i-th entry of
\* the probe list is probe <<batch, i>>; a probe without a response that
\* has used its retries and timed out is TimedOut.
ProbeStatus(id) ==
    IF id[1] < batch \/ pc = "done" THEN "Consumed"
    ELSE IF id[1] > batch \/ id[2] > Len(probes) THEN "Unsent"
    ELSE LET p == probes[id[2]]
         IN  IF p.resp # NoResp THEN "Matched"
             ELSE IF p.retries = Retries /\ ProbeTimeout(p) THEN "TimedOut"
             ELSE "Sent"

Lifecycle == INSTANCE ProbeLifecycle
    WITH Sizes <- [b \in 1..Len(Batches) |-> Len(Batches[b])],
         status <- [id \in ProbeIds |-> ProbeStatus(id)]

\* mt_send, mt_wait (sweeps, captures and poll timeouts) and the mode's pop
\* loop together implement the probe lifecycle: probes are sent in order, a
\* batch is popped only when all its probes are matched or timed out, and
\* no probe goes back from Matched or from TimedOut to Sent.
LifecycleRefinement == Lifecycle!Spec

=============================================================================
