---------------------------- MODULE PacketBuffer ----------------------------
(***************************************************************************)
(* packet.c: a packet is a byte buffer buf[0..alloc) of which the first    *)
(* length bytes are used, and a list.c list of packet_block structs, one   *)
(* per header appended, each with its type, uint8_t tag, length and        *)
(* position in buf.  The client is one of the packet builders of           *)
(* packet_helper.c and mt_nd.c: it creates a packet, appends its headers   *)
(* through the pdu_* functions, finalises it (pdu_ipv6_next_header and the *)
(* checksum swap look blocks up by tag), and the caller destroys it.       *)
(*                                                                         *)
(* The list is LinkedList itself: the list_item heap is its Cells, and the *)
(* data pointers it holds are the packet_block structs, Values here.  A    *)
(* byte of buf is abstracted to the block that wrote it (0 for the zeroes  *)
(* of memset); the header fields are Packet.tla's.  The mallocs of        *)
(* packet_create, packet_block_append and list_insert may fail, at most    *)
(* MaxAllocFailures times in a run; the temporary buffers of the checksum  *)
(* functions, pdu_ipv4_ph and buff_swap are taken to succeed.              *)
(***************************************************************************)
EXTENDS LinkedList, Checksum

CONSTANTS PACKET_ALLOC_EXTRA,  \* bytes allocated beyond what is used
          MaxAllocFailures     \* bound on failed mallocs in one run

\* packet.h's block types and the pdu_*.h header sizes.
PACKET_BLOCK_DATA == 1
PACKET_BLOCK_ETHERNET == 2
PACKET_BLOCK_IPV4 == 3
PACKET_BLOCK_IPV6 == 4
PACKET_BLOCK_ARP == 5
PACKET_BLOCK_ICMPV4 == 6
PACKET_BLOCK_ICMPV6 == 7
PACKET_BLOCK_TCP == 8
PACKET_BLOCK_UDP == 9

Hdr(type, len) == [type |-> type, len |-> len]
Eth == Hdr(PACKET_BLOCK_ETHERNET, 14)
Ipv4 == Hdr(PACKET_BLOCK_IPV4, 20)
Ipv6 == Hdr(PACKET_BLOCK_IPV6, 40)
Arp == Hdr(PACKET_BLOCK_ARP, 28)
Icmpv4 == Hdr(PACKET_BLOCK_ICMPV4, 8)
Icmpv6 == Hdr(PACKET_BLOCK_ICMPV6, 8)
Tcp == Hdr(PACKET_BLOCK_TCP, 20)
Udp == Hdr(PACKET_BLOCK_UDP, 8)
Data(n) == Hdr(PACKET_BLOCK_DATA, n)

(***************************************************************************)
(* A builder: the headers it appends, in order; the index of the header    *)
(* whose tag it passes to pdu_ipv6_next_header (0: none); and the indices  *)
(* <<data, header>> of the blocks whose 2 bytes it swaps with buff_swap    *)
(* after the checksums (<<>>: no swap).                                    *)
(***************************************************************************)
Builder(hdrs, nh, sw) == [hdrs |-> hdrs, nextHeader |-> nh, swap |-> sw]

packet_helper_echo4 == Builder(<<Eth, Ipv4, Icmpv4, Data(2)>>, 0, <<4, 3>>)
packet_helper_echo6 == Builder(<<Eth, Ipv6, Icmpv6, Data(2)>>, 2, <<4, 3>>)
\* The UDP builders append the data block and swap only when checksum != 0.
packet_helper_udp4(chk) ==
    IF chk THEN Builder(<<Eth, Ipv4, Udp, Data(2)>>, 0, <<4, 3>>)
    ELSE Builder(<<Eth, Ipv4, Udp>>, 0, <<>>)
packet_helper_udp6(chk) ==
    IF chk THEN Builder(<<Eth, Ipv6, Udp, Data(2)>>, 2, <<4, 3>>)
    ELSE Builder(<<Eth, Ipv6, Udp>>, 2, <<>>)
packet_helper_tcp4 == Builder(<<Eth, Ipv4, Tcp>>, 0, <<>>)
packet_helper_tcp6 == Builder(<<Eth, Ipv6, Tcp>>, 2, <<>>)
\* mt_nd.c: neighbor6's solicitation (pdu_icmpv6_neighbor_sol appends the
\* ICMPv6 header and 24 bytes of data) and neighbor4's ARP request.
neighbor6_packet == Builder(<<Eth, Ipv6, Icmpv6, Data(24)>>, 2, <<>>)
neighbor4_packet == Builder(<<Eth, Arp>>, 0, <<>>)

Builders ==
    {packet_helper_echo4, packet_helper_echo6, packet_helper_udp4(TRUE),
     packet_helper_udp4(FALSE), packet_helper_udp6(TRUE),
     packet_helper_udp6(FALSE), packet_helper_tcp4, packet_helper_tcp6,
     neighbor6_packet, neighbor4_packet}

\* Offset of the checksum field in the header the data bytes are swapped with.
ChecksumOffset(type) == IF type = PACKET_BLOCK_UDP THEN 6 ELSE 2

Zeros(n) == [k \in 1..n |-> 0]

NoBlock == [type |-> 0, tag |-> 0, length |-> 0, position |-> 0]

VARIABLES helper,  \* the builder running
          pc,      \* where it is
          step,    \* index of the next header it appends
          tags,    \* the uint8_t tags the pdu_* calls returned to it
          pkt,     \* "none" before packet_create, "null" if it failed,
                   \* "live", then "freed"
          nextTag, length, alloc, buf,  \* struct packet's fields
          block,   \* the packet_block structs (Values -> record)
          bheap,   \* the packet_block structs allocated
          fails    \* mallocs that failed so far

vars == <<helper, pc, step, tags, pkt, nextTag, length, alloc, buf, block,
          bheap, fails, listVars>>

TypeOK ==
    /\ ListTypeOK
    /\ helper \in Builders
    /\ pc \in {"create", "append", "next_header", "swap", "destroy", "done",
               "crash"}
    /\ step \in 1..5
    /\ tags \in Seq(0..255)
    /\ pkt \in {"none", "null", "live", "freed"}
    /\ nextTag \in 0..255 /\ length \in Nat /\ alloc \in Nat
    /\ buf \in Seq(Values \cup {0})
    /\ block \in [Values -> [type : 0..9, tag : 0..255, length : Nat,
                             position : Nat]]
    /\ bheap \subseteq Values
    /\ fails \in 0..MaxAllocFailures

Init ==
    /\ helper \in Builders
    /\ pc = "create" /\ step = 1 /\ tags = <<>>
    /\ pkt = "none" /\ nextTag = 0 /\ length = 0 /\ alloc = 0 /\ buf = <<>>
    /\ block = [b \in Values |-> NoBlock] /\ bheap = {}
    /\ fails = 0
    /\ ListHeapInit

\* packet_create: the packet, its list and a zeroed buffer of
\* PACKET_ALLOC_EXTRA bytes.
packet_create ==
    /\ pc = "create"
    /\ list_create
    /\ pkt' = "live" /\ nextTag' = 1 /\ length' = 0
    /\ alloc' = PACKET_ALLOC_EXTRA /\ buf' = Zeros(PACKET_ALLOC_EXTRA)
    /\ pc' = "append"
    /\ UNCHANGED <<helper, step, tags, block, bheap, fails>>

(***************************************************************************)
(* packet_create when one of its three mallocs fails: it returns NULL.     *)
(* When the buffer's malloc fails it frees p and then calls                *)
(* list_destroy(p->blocks_list), a read of freed memory that may crash    *)
(* the process at once.  Otherwise it goes on: no builder checks for NULL, *)
(* and the first pdu_* call dereferences it (AppendToNull).  Both ways end *)
(* in the same crash, which AppendToNull stands for.                       *)
(***************************************************************************)
packet_create_fails ==
    /\ pc = "create" /\ fails < MaxAllocFailures
    /\ fails' = fails + 1
    /\ pkt' = "null"
    /\ pc' = "append"
    /\ UNCHANGED <<helper, step, tags, nextTag, length, alloc, buf, block,
                   bheap, listVars>>

\* The fields of the packet_block packet_block_append fills in.
NewBlockAfterLength(type, len) ==
    [type |-> type, tag |-> nextTag, length |-> len, position |-> length + len]
NewBlockOffByOne(type, len) ==
    [type |-> type, tag |-> nextTag, length |-> len, position |-> length - 1]
NewBlock(type, len) ==
    [type |-> type, tag |-> nextTag, length |-> len, position |-> length]

\* p->next_tag++ on a uint8_t.
NextTagStuck == nextTag
NextTag == U8(nextTag + 1)

\* The grown buffer: malloc(length + len + PACKET_ALLOC_EXTRA), memset to 0,
\* and memcpy of the length bytes in use.
GrownNoCopy(len) == Zeros(length + len + PACKET_ALLOC_EXTRA)
Grown(len) == SubSeq(buf, 1, length) \o Zeros(len + PACKET_ALLOC_EXTRA)

\* The pdu_* function returns packet_block_append's int result, and the
\* builder stores it in a uint8_t: -1 becomes 255.
Appended(tag) ==
    /\ tags' = Append(tags, U8(tag))
    /\ step' = step + 1
    /\ pc' = IF step = Len(helper.hdrs) THEN "next_header" ELSE "append"

\* The header the builder appends next.
Hd == helper.hdrs[step]

\* packet_block_append: a new block at position length, the buffer grown
\* when fewer than len bytes are free, the header copied in, the block
\* inserted in the list (list_insert's -1 is ignored), next_tag and length
\* advanced, and the block's tag returned.
packet_block_append ==
    /\ pc = "append" /\ pkt = "live"
    /\ LET grow == alloc - length < Hd.len
           buf0 == IF grow THEN Grown(Hd.len) ELSE buf
       IN  \E b \in Values \ bheap :
             /\ bheap' = bheap \cup {b}
             /\ block' = [block EXCEPT ![b] = NewBlock(Hd.type, Hd.len)]
             /\ alloc' = IF grow THEN length + Hd.len + PACKET_ALLOC_EXTRA
                         ELSE alloc
             /\ buf' = [k \in DOMAIN buf0 |->
                          IF length < k /\ k <= length + Hd.len THEN b
                          ELSE buf0[k]]
             /\ \/ list_insert(b) /\ UNCHANGED fails
                \/ /\ fails < MaxAllocFailures /\ fails' = fails + 1
                   /\ list_insert_fails
             /\ nextTag' = NextTag
             /\ length' = length + Hd.len
             /\ Appended(nextTag)
    /\ UNCHANGED <<helper, pkt>>

\* packet_block_append returning -1: malloc of the block fails, or the
\* buffer must grow and its malloc fails, and the block is freed.
packet_block_append_fails ==
    /\ pc = "append" /\ pkt = "live"
    /\ fails < MaxAllocFailures /\ fails' = fails + 1
    /\ Appended(-1)
    /\ UNCHANGED <<helper, pkt, nextTag, length, alloc, buf, block, bheap,
                   listVars>>

\* A pdu_* call on the NULL packet: p->length is read through NULL.
AppendToNull ==
    /\ pc = "append" /\ pkt = "null"
    /\ pc' = "crash"
    /\ UNCHANGED <<helper, step, tags, pkt, nextTag, length, alloc, buf,
                   block, bheap, fails, listVars>>

\* packet_block_get: the block list_find finds by tag (packet_block_get_cmp
\* compares the int tag with the uint8_t block tag), or NULL.
packet_block_get(tag) ==
    LET i == list_find({b \in Values : block[b].tag = tag})
    IN  IF i = NULL THEN NULL ELSE data[i]

\* packet_block_next: the block after the one with this tag, or NULL.
packet_block_next(tag) ==
    LET i == list_find({b \in Values : block[b].tag = tag})
    IN  IF i = NULL \/ next[i] = NULL THEN NULL ELSE data[next[i]]

\* packet_buf_get_by_tag: the block's offset in buf, or NULL.
packet_buf_get_by_tag(tag) ==
    LET b == packet_block_get(tag)
    IN  IF b = NULL THEN NULL ELSE block[b].position
\* pdu_ipv6_next_header(p, ip_tag): when the tag names an IPv6 block it
\* switches on packet_block_next(p, tag)->type without a NULL check.  Its
\* write of next_header is a header field, left to Packet.tla.
pdu_ipv6_next_header ==
    /\ pc = "next_header"
    /\ LET k == helper.nextHeader
           b == IF k = 0 THEN NULL ELSE packet_block_get(tags[k])
       IN  pc' = IF /\ b /= NULL
                    /\ block[b].type = PACKET_BLOCK_IPV6
                    /\ packet_block_next(tags[k]) = NULL
                 THEN "crash" ELSE "swap"
    /\ UNCHANGED <<helper, step, tags, pkt, nextTag, length, alloc, buf,
                   block, bheap, fails, listVars>>

\* The builder's last step: buff_swap of the 2 data bytes with the header's
\* checksum field, both found with packet_buf_get_by_tag and used unchecked.
\* The pdu_*_length and pdu_*_checksum calls before it return -1 on a
\* missing block and write header fields only.
buff_swap ==
    /\ pc = "swap"
    /\ IF helper.swap = <<>>
       THEN pc' = "destroy" /\ UNCHANGED buf
       ELSE LET d == packet_buf_get_by_tag(tags[helper.swap[1]])
                h == packet_buf_get_by_tag(tags[helper.swap[2]])
                off == ChecksumOffset(helper.hdrs[helper.swap[2]].type)
            IN  IF d = NULL \/ h = NULL
                THEN pc' = "crash" /\ UNCHANGED buf
                ELSE /\ buf' = BuffSwap(buf, d + 1, h + off + 1)
                     /\ pc' = "destroy"
    /\ UNCHANGED <<helper, step, tags, pkt, nextTag, length, alloc, block,
                   bheap, fails, listVars>>

\* packet_destroy's loop: list_pop and free the block it returns.
packet_destroy_pop ==
    /\ pc = "destroy"
    /\ list_pop
    /\ bheap' = bheap \ {data[first]}
    /\ UNCHANGED <<helper, pc, step, tags, pkt, nextTag, length, alloc, buf,
                   block, fails>>

\* packet_destroy once the list is empty: list_destroy, free(buf), free(p).
packet_destroy_free ==
    /\ pc = "destroy" /\ count = 0
    /\ pkt' = "freed" /\ pc' = "done"
    /\ UNCHANGED <<helper, step, tags, nextTag, length, alloc, buf, block,
                   bheap, fails, listVars>>

\* The builder has returned and its packet is destroyed, or it crashed.
Terminated == pc \in {"done", "crash"} /\ UNCHANGED vars

Next ==
    \/ packet_create \/ packet_create_fails
    \/ packet_block_append \/ packet_block_append_fails
    \/ AppendToNull
    \/ pdu_ipv6_next_header \/ buff_swap
    \/ packet_destroy_pop \/ packet_destroy_free
    \/ Terminated

Spec == Init /\ [][Next]_vars

-----------------------------------------------------------------------------
(* Properties *)

\* The block list, as list.c links it, behaves as the FIFO sequence of
\* list.h: list_insert appends the new block, list_pop (packet_destroy)
\* takes the first, and nothing else changes the blocks it holds.
ListRefinement == AbsList!Spec

\* Along the list the blocks lie in buf in the order they were appended,
\* without overlap, inside the used bytes, which fit the allocation: what
\* packet_block_append's position, growth and length updates keep, failed
\* mallocs included.
BlocksInOrder ==
    /\ length <= alloc /\ Len(buf) = alloc
    /\ \A k \in 1..Len(Chain) :
          block[data[Chain[k]]].position + block[data[Chain[k]]].length
              <= length
    /\ \A k \in 2..Len(Chain) :
          block[data[Chain[k-1]]].position + block[data[Chain[k-1]]].length
              <= block[data[Chain[k]]].position

\* packet_block_get finds every block in the list by its own tag: no two
\* blocks of a packet share a tag.
TagsIdentifyBlocks ==
    \A k \in 1..Len(Chain) :
        packet_block_get(block[data[Chain[k]]].tag) = data[Chain[k]]

\* packet_block_append keeps the bytes already in use, across a growth of
\* the buffer too, and fills the new block's bytes with its header.
AppendKeepsBytes ==
    [][length' > length =>
         /\ SubSeq(buf', 1, length) = SubSeq(buf, 1, length)
         /\ \E b \in bheap' \ bheap :
               \A k \in length + 1..length' : buf'[k] = b]_vars

\* The builders only crash (a NULL packet, block or next block dereferenced)
\* after some malloc failed: without failures every lookup by tag and
\* pdu_ipv6_next_header's packet_block_next find their block.
NoCrashUnlessAllocFailed == pc = "crash" => fails > 0
====
