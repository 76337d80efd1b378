----------------------------- MODULE LinkedList -----------------------------
(***************************************************************************)
(* list.c: a doubly linked list of data pointers.  The list_item structs   *)
(* live in a heap of Cells; a cell is allocated by list_insert's malloc    *)
(* and freed by list_pop.  next, previous and data are the fields of every *)
(* cell (a freed cell keeps whatever it held), first, last and count the   *)
(* fields of struct list.  The operators below are the list functions;     *)
(* a client module conjoins them with its own state change.                *)
(*                                                                         *)
(* list_remove and list_insert_unique have no caller in the program and    *)
(* are not modelled.                                                       *)
(***************************************************************************)
EXTENDS Naturals, Sequences, FiniteSets

CONSTANTS Cells,    \* addresses a list_item may be allocated at
          NULL,     \* the null pointer
          Values    \* the data pointers stored in the list

VARIABLES first, last, count, next, previous, data, heap

listVars == <<first, last, count, next, previous, data, heap>>

Ptr == Cells \cup {NULL}

ListTypeOK ==
    /\ first \in Ptr /\ last \in Ptr
    /\ count \in 0..Cardinality(Cells)
    /\ next \in [Cells -> Ptr] /\ previous \in [Cells -> Ptr]
    /\ data \in [Cells -> Values \cup {NULL}]
    /\ heap \subseteq Cells

\* Every cell starts out as unallocated memory.
ListHeapInit ==
    /\ next = [c \in Cells |-> NULL] /\ previous = [c \in Cells |-> NULL]
    /\ data = [c \in Cells |-> NULL] /\ heap = {}
    /\ first = NULL /\ last = NULL /\ count = 0

\* list_create (after its malloc succeeded).
list_create ==
    /\ first' = NULL /\ last' = NULL /\ count' = 0
    /\ UNCHANGED <<next, previous, data, heap>>

list_insert_FirstAlways(d) ==
    \E i \in Cells \ heap :
        /\ heap' = heap \cup {i}
        /\ data' = [data EXCEPT ![i] = d]
        /\ IF count = 0
           THEN /\ next' = [next EXCEPT ![i] = NULL]
                /\ previous' = [previous EXCEPT ![i] = NULL]
           ELSE /\ next' = [next EXCEPT ![i] = NULL, ![last] = i]
                /\ previous' = [previous EXCEPT ![i] = last]
        /\ first' = i
        /\ last' = i
        /\ count' = count + 1

\* list_insert: a new cell i, linked after last (or as first when empty).
list_insert(d) ==
    \E i \in Cells \ heap :
        /\ heap' = heap \cup {i}
        /\ data' = [data EXCEPT ![i] = d]
        /\ IF count = 0
           THEN /\ first' = i
                /\ next' = [next EXCEPT ![i] = NULL]
                /\ previous' = [previous EXCEPT ![i] = NULL]
           ELSE /\ first' = first
                /\ next' = [next EXCEPT ![i] = NULL, ![last] = i]
                /\ previous' = [previous EXCEPT ![i] = last]
        /\ last' = i
        /\ count' = count + 1

\* list_insert when malloc returns NULL: -1 and the list is unchanged.
list_insert_fails == UNCHANGED listVars

list_pop_KeepPrevious ==
    /\ count > 0
    /\ IF next[first] = NULL
       THEN first' = NULL /\ last' = NULL
       ELSE first' = next[first] /\ last' = last
    /\ previous' = previous
    /\ count' = count - 1
    /\ heap' = heap \ {first}
    /\ UNCHANGED <<next, data>>

\* list_pop on a non-empty list: unlink and free the first cell.  Its data
\* pointer, data[first], is what the call returns.
list_pop ==
    /\ count > 0
    /\ IF next[first] = NULL
       THEN /\ first' = NULL /\ last' = NULL
            /\ previous' = previous
       ELSE /\ previous' = [previous EXCEPT ![next[first]] = NULL]
            /\ first' = next[first] /\ last' = last
    /\ count' = count - 1
    /\ heap' = heap \ {first}
    /\ UNCHANGED <<next, data>>

\* The cells reached from first along next, at most |Cells| of them.
RECURSIVE ChainFrom(_, _)
ChainFrom(i, fuel) ==
    IF i = NULL \/ fuel = 0 THEN <<>> ELSE <<i>> \o ChainFrom(next[i], fuel - 1)

Chain == ChainFrom(first, Cardinality(Cells))

list_find_SkipLast(Accepted) ==
    LET hits == {k \in 1..Len(Chain) - 1 : data[Chain[k]] \in Accepted}
    IN  IF hits = {} THEN NULL
        ELSE Chain[CHOOSE k \in hits : \A j \in hits : k <= j]

\* list_find: the first cell, walking from first along next, whose data the
\* comparison function accepts (Accepted is the set of those data); NULL
\* when there is none.
list_find(Accepted) ==
    LET hits == {k \in 1..Len(Chain) : data[Chain[k]] \in Accepted}
    IN  IF hits = {} THEN NULL
        ELSE Chain[CHOOSE k \in hits : \A j \in hits : k <= j]

\* The refinement mapping: the data pointers in list order.
Contents == [k \in 1..Len(Chain) |-> data[Chain[k]]]

\* The shape list.c's functions keep: walking next from first visits count
\* distinct cells, which are exactly the allocated ones, ends at last, and
\* every previous pointer points back one step.
ListWellFormed ==
    /\ Len(Chain) = count
    /\ Cardinality(heap) = count
    /\ {Chain[k] : k \in 1..Len(Chain)} = heap
    /\ count = 0 => first = NULL /\ last = NULL
    /\ count > 0 => /\ last = Chain[count] /\ next[last] = NULL
                    /\ previous[first] = NULL
    /\ \A k \in 2..count : previous[Chain[k]] = Chain[k-1]

AbsList == INSTANCE ListSpec WITH seq <- Contents
=============================================================================
