------------------------------ MODULE Checksum ------------------------------
(***************************************************************************)
(* The Internet checksum of src/src/checksum.c and the byte-level stores   *)
(* the packet builders use around it.                                      *)
(*                                                                         *)
(* A buffer is a sequence of bytes in memory order.  checksum() reads it   *)
(* as host-order uint16 words; the host is little-endian (x86), so a word  *)
(* is b[2i-1] + 256 * b[2i].  The sum is kept in a uint32 and folded       *)
(* twice.  The result is stored with a plain host-order assignment         *)
(* (hdr->checksum = checksum(...)).  A receiver verifies in network order. *)
(***************************************************************************)
EXTENDS Integers, Sequences

U8(x) == x % 256
U16(x) == x % 65536

\* htons followed by a store: the bytes of x in network order.
Be16(x) == <<U16(x) \div 256, U16(x) % 256>>

\* A uint16 assigned in host order: its bytes in little-endian order.
Le16(x) == <<U16(x) % 256, U16(x) \div 256>>

\* Write the two bytes w at positions i and i + 1 of the buffer b.
Store2(b, i, w) == [b EXCEPT ![i] = w[1], ![i + 1] = w[2]]

\* Read positions i and i + 1 as a network-order uint16 (ntohs).
Ntohs(b, i) == b[i] * 256 + b[i + 1]

\* buff_swap(a, b, 2): exchange the byte pairs at positions i and j.
BuffSwap(b, i, j) ==
    [b EXCEPT ![i] = b[j], ![i + 1] = b[j + 1], ![j] = b[i], ![j + 1] = b[i + 1]]

\* The while (len > 1) loop and the odd trailing byte: the uint32 sum of
\* the host-order words of b from position i on.  It cannot wrap: a
\* packet has far fewer than 65537 words.
RECURSIVE WordSum(_, _, _)
WordSum(b, i, sum) ==
    IF Len(b) - i + 1 > 1
    THEN WordSum(b, i + 2, sum + b[i] + 256 * b[i + 1])
    ELSE IF Len(b) - i + 1 = 1 THEN sum + b[i] ELSE sum

\* Mutant: only the first fold of the carries.
ChecksumOneFold(b) ==
    LET s == WordSum(b, 1, 0)
    IN 65535 - U16((s \div 65536) + (s % 65536))

\* checksum(buf, len): fold the carries twice, then take the complement
\* (uint16_t)~sum.
Checksum(b) ==
    LET s0 == WordSum(b, 1, 0)
        s1 == (s0 \div 65536) + (s0 % 65536)
        s2 == s1 + (s1 \div 65536)
    IN 65535 - U16(s2)

-----------------------------------------------------------------------------
(* The reference: RFC 1071 in network order.                               *)

\* One's complement addition of two 16-bit values (end-around carry).
OcAdd(a, b) == ((a + b) % 65536) + ((a + b) \div 65536)

\* The one's complement sum of the network-order words of b, an odd final
\* byte padded with a zero byte.
RECURSIVE OcSum(_, _)
OcSum(b, i) ==
    IF i > Len(b) THEN 0
    ELSE LET w == IF i + 1 <= Len(b) THEN b[i] * 256 + b[i + 1] ELSE b[i] * 256
         IN OcAdd(w, OcSum(b, i + 2))

\* The checksum field's bytes as RFC 1071 defines them.
RefChecksumBytes(b) == Be16(65535 - OcSum(b, 1))

\* A buffer whose checksum field is filled in verifies: its one's
\* complement sum is all ones.
Verifies(b) == OcSum(b, 1) = 65535
=============================================================================
