--------------------------- MODULE MCPacketBuffer ---------------------------
(***************************************************************************)
(* PacketBuffer for TLC.  A builder appends at most 4 blocks, so 4         *)
(* list_item cells and 5 packet_block structs (one more for a block whose  *)
(* list_insert failed) are never exhausted.  packet.h's                    *)
(* PACKET_ALLOC_EXTRA is 128, more than the largest packet (86 bytes), so  *)
(* with it the buffer never grows; 16 makes every builder grow it at its   *)
(* second header.  The cells and blocks are model values, interchangeable *)
(* by symmetry.                                                            *)
(***************************************************************************)
EXTENDS PacketBuffer, TLC

CONSTANTS c1, c2, c3, c4, b1, b2, b3, b4, b5

MCCells == {c1, c2, c3, c4}
MCValues == {b1, b2, b3, b4, b5}

\* Which address malloc returns does not matter: cells and blocks are
\* interchangeable.
MCSymmetry == Permutations(MCCells) \cup Permutations(MCValues)
=============================================================================
