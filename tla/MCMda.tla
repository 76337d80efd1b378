------------------------------- MODULE MCMda -------------------------------
(* Small networks and a reduced k table for checking Mda with TLC.         *)
EXTENDS Mda

CONSTANTS A, B, C, E, D

\* The k table rises like mt_mda.c's k[h][1] (0, 1, 6, 11, 16, ...) but
\* scaled to six flow ids, so that the flow ids can run out.
KRow == <<0, 1, 2, 4, 5, 6, 7, 8, 9, 10>>
MCK == [h \in 0..Cardinality(Addrs) + 1 |-> KRow[h + 1]]

\* The same shape for four flow ids, for lossy and per-packet networks.
KRowSmall == <<0, 1, 2, 3, 4, 4, 4, 4, 4, 4>>
MCKSmall == [h \in 0..Cardinality(Addrs) + 1 |-> KRowSmall[h + 1]]

\* A diamond after A whose branches have different lengths.
UnevenDiamond == {<<A, B, D>>, <<A, C, E, D>>}

\* Two first hops: the diamond is at the root.
RootDiamond == {<<A, D>>, <<B, D>>}

\* A diamond after A, both branches of one length.
EvenDiamond == {<<A, B, D>>, <<A, C, D>>}
=============================================================================
