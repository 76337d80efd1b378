--------------------------- MODULE ProbeLifecycle ---------------------------
(***************************************************************************)
(* The probe lifecycle the engine promises, per probe:                     *)
(*                                                                         *)
(*   Unsent -> Sent -> Matched | TimedOut -> Consumed                      *)
(*                                                                         *)
(* A mode submits the probes of a batch in order, waits, and consumes the  *)
(* whole batch only once every probe of it is Matched or TimedOut (out of *)
(* retries and timed out); the next batch starts after that.  Matched is   *)
(* terminal until the probe is consumed.  A TimedOut probe stays in the    *)
(* interface's list until it is consumed and may still be Matched by a     *)
(* late answer: mt_receive offers a frame to every probe without a         *)
(* response.  Retransmissions are internal to Sent.                        *)
(*                                                                         *)
(* A probe is <<b, i>>, the i-th probe of batch b; Sizes[b] is the number  *)
(* of probes of batch b.                                                   *)
(***************************************************************************)
EXTENDS Naturals, Sequences

CONSTANT Sizes

VARIABLE status

Ids == UNION {{<<b, i>> : i \in 1..Sizes[b]} : b \in 1..Len(Sizes)}
InBatch(b) == {id \in Ids : id[1] = b}

Init == status = [id \in Ids |-> "Unsent"]

\* What may happen to a probe while others are sent or waited on: nothing,
\* or it is matched or times out.
Settles(s, t) ==
    \/ s = t
    \/ s = "Sent" /\ t \in {"Matched", "TimedOut"}
    \/ s = "TimedOut" /\ t = "Matched"

SettleOthers(ids) == \A id \in Ids \ ids : Settles(status[id], status'[id])

\* The next probe of the batch is sent; the first of a batch only once the
\* previous batch has been consumed.
Submit(id) ==
    /\ status[id] = "Unsent"
    /\ IF id[2] = 1
       THEN id[1] = 1 \/ \A p \in InBatch(id[1] - 1) : status[p] = "Consumed"
       ELSE status[<<id[1], id[2] - 1>>] /= "Unsent"
    /\ status'[id] = "Sent"
    /\ SettleOthers({id})

\* Probes are matched or time out.
Settle == SettleOthers({})

\* The mode consumes a batch whose probes are all settled.
Consume(b) ==
    /\ \A p \in InBatch(b) : status[p] \in {"Matched", "TimedOut"}
    /\ \A p \in InBatch(b) : status'[p] = "Consumed"
    /\ SettleOthers(InBatch(b))

Next ==
    \/ \E id \in Ids : Submit(id)
    \/ Settle
    \/ \E b \in 1..Len(Sizes) : Consume(b)

Spec == Init /\ [][Next]_status
=============================================================================
