------------------------------- MODULE KHeap -------------------------------
(***************************************************************************)
(* The kernel heap (kernel/src/mem/heap.rs): first fit on a list of free   *)
(* nodes sorted by address, with a header of one cell (16 bytes) before    *)
(* what is handed out.  Both operations run under HEAP_LOCK.               *)
(***************************************************************************)
EXTENDS Naturals, Sequences, FiniteSets

CONSTANTS
    HeapCells, \* HEAP_SIZE in cells
    HeapSizes  \* payload sizes asked for, in cells

ASSUME KHeapAssumption == HeapCells \in Nat \ {0} /\ HeapSizes \subseteq Nat \ {0}

VARIABLES
    freeList,  \* nodes [at, size] from FREE_HEAD on
    blocks     \* handed out: [at, size, asked]; at is the header's cell

heapVars == <<freeList, blocks>>

\* init(): one node.
HeapInit == freeList = <<[at |-> 0, size |-> HeapCells]>> /\ blocks = {}

Without(s, i) == SubSeq(s, 1, i - 1) \o SubSeq(s, i + 1, Len(s))

\* Mutant: the header is not counted.
Need_Bare(n) == n

\* The payload and its header.
Need(n) == n + 1

\* Mutant: the rest keeps the size of the whole.
Rest_Whole(node, n) == [at |-> node.at + Need(n), size |-> node.size]

\* What is left of a node that is split.
Rest(node, n) == [at |-> node.at + Need(n), size |-> node.size - Need(n)]

\* alloc(): the first node that is large enough; what is left over stays in the
\* list if a header fits into it.
HeapAlloc(n) ==
    LET fits == {i \in DOMAIN freeList : freeList[i].size >= Need(n)} IN
    /\ fits # {}
    /\ LET i == CHOOSE k \in fits : \A l \in fits : k <= l
           node == freeList[i]
           split == node.size >= Need(n) + 1 IN
       /\ freeList' = IF split
                      THEN [freeList EXCEPT ![i] = Rest(node, n)]
                      ELSE Without(freeList, i)
       /\ blocks' = blocks \cup {[at |-> node.at, asked |-> n,
                                  size |-> IF split THEN Need(n) ELSE node.size]}

\* Mutant: the node goes to the head of the list.
Inserted_Lifo(node) == <<node>> \o freeList

\* dealloc(): in the order of addresses, merged with the nodes it touches.
Inserted(node) ==
    LET k == Cardinality({i \in DOMAIN freeList : freeList[i].at < node.at})
        prev == IF k > 0 /\ freeList[k].at + freeList[k].size = node.at THEN {k} ELSE {}
        next == IF k < Len(freeList) /\ node.at + node.size = freeList[k + 1].at THEN {k + 1} ELSE {}
        from == IF prev = {} THEN node.at ELSE freeList[k].at
        to == IF next = {} THEN node.at + node.size ELSE freeList[k + 1].at + freeList[k + 1].size IN
    SubSeq(freeList, 1, k - Cardinality(prev))
    \o <<[at |-> from, size |-> to - from]>>
    \o SubSeq(freeList, k + 1 + Cardinality(next), Len(freeList))

HeapDealloc(b) ==
    /\ b \in blocks
    /\ freeList' = Inserted([at |-> b.at, size |-> b.size])
    /\ blocks' = blocks \ {b}

HeapNext ==
    \/ \E n \in HeapSizes : HeapAlloc(n)
    \/ \E b \in blocks : HeapDealloc(b)

HeapSpec == HeapInit /\ [][HeapNext]_heapVars

----------------------------------------------------------------------------

CellsOf(x) == x.at .. x.at + x.size - 1

\* Safety.  Free nodes and blocks tile the heap: no cell is in two of them, and
\* none is lost by splitting or merging.
HeapIsTiled ==
    /\ \A c \in 0 .. HeapCells - 1 :
         Cardinality({i \in DOMAIN freeList : c \in CellsOf(freeList[i])})
         + Cardinality({b \in blocks : c \in CellsOf(b)}) = 1
    /\ \A i \in DOMAIN freeList : CellsOf(freeList[i]) \subseteq 0 .. HeapCells - 1

\* Safety.  Free neighbours are always merged, so that the largest free run is as
\* large as it can be and a request fails only if no run of free cells holds it:
\* the list does not fragment into slivers (heap.rs:72, "v1.6").
NoSlivers ==
    \A i, j \in DOMAIN freeList :
      i < j => freeList[i].at + freeList[i].size < freeList[j].at

\* The heap is an allocator in the sense of Arena: payloads never overlap.
Payload(b) == [at |-> b.at + 1, asked |-> b.asked]
Lender == INSTANCE Arena WITH Cells <- HeapCells, Sizes <- HeapSizes,
                              lent <- {Payload(b) : b \in blocks}
LendsCells == Lender!Spec
============================================================================
