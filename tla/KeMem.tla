------------------------------- MODULE KeMem -------------------------------
(***************************************************************************)
(* The kernel heaps of ke_mem.c: a best-fit allocator with boundary lists. *)
(* Each heap holds a doubly linked list of free blocks in address order;   *)
(* its first node is the block at the base of the heap, which is never     *)
(* given away whole.  A used block carries its size in front of it.        *)
(*                                                                         *)
(* Addresses and sizes are counted in words.  ke_malloc and ke_free touch  *)
(* the lists with interrupts disabled, so each call is one action.  Both   *)
(* walk a list by its next pointers; they are written here over the nodes  *)
(* in address order, which is the same while Linked holds.                 *)
(***************************************************************************)
EXTENDS Integers, Functions, FiniteSetsExt

CONSTANTS
    MaxHeap,    \* heaps are numbered 0 .. MaxHeap - 1 (KE_MEM_BLOCK_MAX)
    Base, End,  \* first word of each heap, and the word behind its last
    FreeHdr,    \* sizeof(struct mblock_free)
    UsedHdr,    \* sizeof(struct mblock_used)
    Null,
    Requests    \* the sizes that are asked for

Heap == 0 .. MaxHeap - 1

ASSUME MemAssumption ==
    /\ MaxHeap \in Nat \ {0}
    /\ Base \in [Heap -> Nat] /\ End \in [Heap -> Nat]
    /\ FreeHdr \in Nat /\ UsedHdr \in Nat /\ UsedHdr < FreeHdr
    /\ \A h \in Heap : Base[h] + FreeHdr <= End[h]
    /\ \A g, h \in Heap : g # h => End[g] <= Base[h] \/ End[h] <= Base[g]
    /\ Null \notin Nat
    /\ Requests \subseteq Nat

VARIABLES
    node,  \* the free blocks: address -> size, next, previous
    used   \* the used blocks: address -> size

vars == <<node, used>>

Within(a, h) == Base[h] <= a /\ a < End[h]

\* The first block is the whole heap (ke_mem_init).
Empty(h) == [size |-> End[h] - Base[h], next |-> Null, prev |-> Null]

AllFree == [a \in Range(Base) |-> Empty(CHOOSE h \in Heap : Base[h] = a)]

Init == node = AllFree /\ used = << >>

Nodes(h) == {a \in DOMAIN node : Within(a, h)}

\* node->previous = p, where there is a node.
SetPrev(f, a, p) == IF a = Null THEN f ELSE [f EXCEPT ![a].prev = p]

-----------------------------------------------------------------------------
(* ke_malloc                                                               *)

\* Mutant: a block may be smaller than the descriptor of a free one.
Total_NoMinimum(n) == n + UsedHdr

\* The size of the block for n words: room for the header, and for the
\* descriptor of a free block when it comes back.
Total(n) == IF n + UsedHdr < FreeHdr THEN FreeHdr ELSE n + UsedHdr

\* The nodes that can serve t words: the first node keeps a descriptor.
Fitting(h, t) ==
    {a \in Nodes(h) : \/ node[a].size >= t + FreeHdr
                      \/ node[a].size >= t /\ node[a].prev # Null}

\* a is the smallest of them, the first one in the list among equals.
BestFit(h, t, a) ==
    /\ a \in Fitting(h, t)
    /\ \A b \in Fitting(h, t) : \/ node[a].size < node[b].size
                                \/ node[a].size = node[b].size /\ a <= b

\* h is the first heap with such a node, counting from the one asked for.
Chosen(h, type, t) ==
    /\ Fitting(h, t) # {}
    /\ \A c \in Heap : LET g == (c + type) % MaxHeap
                       IN  Fitting(g, t) # {} => (h - type) % MaxHeap <= c

\* The node is used up: it leaves the list.
TakeNode(a) ==
    /\ node' = LET n == node[a]
                   f == [node EXCEPT ![n.prev].next = n.next]
               IN  Restrict(SetPrev(f, n.next, n.prev), DOMAIN node \ {a})
    /\ used' = [b \in DOMAIN used \union {a} |->
                   IF b = a THEN node[a].size ELSE used[b]]

\* Mutant: the block is cut off below the node.
CutNode_Below(a, t) ==
    /\ node' = [node EXCEPT ![a].size = @ - t]
    /\ used' = [b \in DOMAIN used \union {a - t} |->
                   IF b = a - t THEN t ELSE used[b]]

\* A block is cut off the end of the node.
CutNode(a, t) ==
    LET new == a + node[a].size - t
    IN  /\ node' = [node EXCEPT ![a].size = @ - t]
        /\ used' = [b \in DOMAIN used \union {new} |->
                       IF b = new THEN t ELSE used[b]]

\* What would be left of a node must be large enough for a node.
Malloc(type, n) ==
    LET t == Total(n)
    IN  \E h \in Heap : \E a \in Nodes(h) :
            /\ Chosen(h, type, t) /\ BestFit(h, t, a)
            /\ IF node[a].size < t + FreeHdr THEN TakeNode(a) ELSE CutNode(a, t)

\* No heap has room: platform_reset restarts nothing, its body is commented out,
\* and ke_malloc returns NULL.
MallocFails(n) ==
    /\ \A h \in Heap : Fitting(h, Total(n)) = {}
    /\ UNCHANGED vars

-----------------------------------------------------------------------------
(* ke_free, by where the walk of the list stops.                           *)

\* ke_mem_is_in_heap, which counts the first word behind the heap in.
InHeap(h, ptr) == Base[h] <= ptr /\ ptr <= End[h]

\* The heap of block b: the first one its user pointer seems to lie in.
HeapOf(b, h) ==
    /\ InHeap(h, b + UsedHdr)
    /\ \A g \in 0 .. h - 1 : ~InHeap(g, b + UsedHdr)

\* The walk stops behind p: the last node in front of b.
StopsAt(h, p, b) == p < b /\ \A c \in Nodes(h) : c < b => c <= p

Touches(p, b) == p + node[p].size = b

Touching(b, n) == n # Null /\ b + used[b] = n

Gone(b) == used' = Restrict(used, DOMAIN used \ {b})

\* The block follows a node and grows it.
FreeAfter(p, b) ==
    /\ Touches(p, b) /\ ~Touching(b, node[p].next)
    /\ node' = [node EXCEPT ![p].size = @ + used[b]]
    /\ Gone(b)

\* Mutant: the gap is closed but the nodes stay apart.
FreeBetween_NoJoin(p, b) ==
    LET n == node[p].next
    IN  /\ Touches(p, b) /\ Touching(b, n)
        /\ node' = [node EXCEPT ![p].size = @ + used[b]]
        /\ Gone(b)

\* The block closes the gap between two nodes: they become one.
FreeBetween(p, b) ==
    LET n == node[p].next
        f == [node EXCEPT ![p] = [size |-> @.size + used[b] + node[n].size,
                                  next |-> node[n].next, prev |-> @.prev]]
    IN  /\ Touches(p, b) /\ Touching(b, n)
        /\ node' = Restrict(SetPrev(f, node[n].next, p), DOMAIN node \ {n})
        /\ Gone(b)

\* The list with a node for b behind p.
NewNode(b, p, rec) ==
    [a \in DOMAIN node \union {b} |->
        IF a = b THEN rec
        ELSE IF a = p THEN [node[p] EXCEPT !.next = b] ELSE node[a]]

\* Mutant: the node behind keeps its pointer to the node that is gone.
FreeBefore_StalePrev(p, b) ==
    LET n == node[p].next
    IN  /\ ~Touches(p, b) /\ Touching(b, n)
        /\ node' = Restrict(NewNode(b, p,
                              [size |-> used[b] + node[n].size,
                               next |-> node[n].next, prev |-> p]),
                            (DOMAIN node \union {b}) \ {n})
        /\ Gone(b)

\* The block precedes a node and takes its place in the list.
FreeBefore(p, b) ==
    LET n == node[p].next
        f == NewNode(b, p, [size |-> used[b] + node[n].size,
                            next |-> node[n].next, prev |-> p])
    IN  /\ ~Touches(p, b) /\ Touching(b, n)
        /\ node' = Restrict(SetPrev(f, node[n].next, b),
                            (DOMAIN node \union {b}) \ {n})
        /\ Gone(b)

\* The block becomes a node of its own, the last one perhaps.
FreeAlone(p, b) ==
    LET n == node[p].next
        f == NewNode(b, p, [size |-> used[b], next |-> n, prev |-> p])
    IN  /\ ~Touches(p, b) /\ ~Touching(b, n)
        /\ node' = SetPrev(f, n, b)
        /\ Gone(b)

Free(b) ==
    \E h \in Heap : \E p \in Nodes(h) :
        /\ HeapOf(b, h) /\ StopsAt(h, p, b)
        /\ \/ FreeAfter(p, b) \/ FreeBetween(p, b)
           \/ FreeBefore(p, b) \/ FreeAlone(p, b)

-----------------------------------------------------------------------------
Next ==
    \/ \E n \in Requests : \/ \E type \in Heap : Malloc(type, n)
                           \/ MallocFails(n)
    \/ \E b \in DOMAIN used : Free(b)

Spec == Init /\ [][Next]_vars

-----------------------------------------------------------------------------
(* Properties.                                                             *)

Node == [size : Nat, next : Nat \union {Null}, prev : Nat \union {Null}]

TypeOK ==
    /\ DOMAIN node \subseteq Nat /\ node \in [DOMAIN node -> Node]
    /\ DOMAIN used \subseteq Nat /\ used \in [DOMAIN used -> Nat]

\* The blocks of a heap, free or used, and their sizes.
Blocks(h) == {a \in DOMAIN node \union DOMAIN used : Within(a, h)}
Size(a) == IF a \in DOMAIN node THEN node[a].size ELSE used[a]

\* No word belongs to two blocks and none is lost: the blocks of a heap follow
\* each other without overlap from its base to its end, and each is large
\* enough to become a node of the free list.
Tiled ==
    /\ DOMAIN node \intersect DOMAIN used = {}
    /\ \A a \in DOMAIN node \union DOMAIN used : \E h \in Heap : Within(a, h)
    /\ \A h \in Heap :
         /\ Base[h] \in DOMAIN node
         /\ \A a \in Blocks(h) :
              /\ Size(a) >= FreeHdr
              /\ a + Size(a) \in Blocks(h) \union {End[h]}
              /\ \A b \in Blocks(h) : a < b => a + Size(a) <= b

\* b is the node next to a in its list.
Follows(h, a, b) ==
    a < b /\ \A c \in Nodes(h) : ~(a < c /\ c < b)

\* The pointers link exactly the free blocks of the heap, in address order in
\* both directions: what the walks of ke_malloc and ke_free rely on.
Linked ==
    \A h \in Heap : \A a \in Nodes(h) :
        /\ IF node[a].next = Null THEN \A c \in Nodes(h) : c <= a
           ELSE node[a].next \in Nodes(h) /\ Follows(h, a, node[a].next)
        /\ IF node[a].prev = Null THEN a = Base[h]
           ELSE node[a].prev \in Nodes(h) /\ Follows(h, node[a].prev, a)

\* No two free blocks lie side by side: every free has joined what it could.
Coalesced ==
    \A h \in Heap : \A a \in Nodes(h) : a + node[a].size \notin Nodes(h)

\* ke_mem_is_empty compares the size of the first node with the size of the
\* heap: it tells that no block is used, whatever was allocated and freed in
\* which order.
EmptyIsSeen ==
    \A h \in Heap :
        node[Base[h]].size = End[h] - Base[h]
            <=> \A b \in DOMAIN used : ~Within(b, h)
=============================================================================
