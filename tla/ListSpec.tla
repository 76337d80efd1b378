------------------------------ MODULE ListSpec ------------------------------
(***************************************************************************)
(* What list.h promises its callers: a list is a FIFO sequence of data     *)
(* pointers.  list_insert appends at the end (or, when malloc fails,       *)
(* leaves the list as it was) and list_pop takes the first element.        *)
(* LinkedList implements this with first/last/next/previous pointers.      *)
(***************************************************************************)
EXTENDS Naturals, Sequences

CONSTANT Values

VARIABLE seq

Init == seq = <<>>

Insert(d) == seq' = Append(seq, d)

Pop == seq /= <<>> /\ seq' = Tail(seq)

Next == (\E d \in Values : Insert(d)) \/ Pop

Spec == Init /\ [][Next]_seq

=============================================================================
