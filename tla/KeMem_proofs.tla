--------------------------- MODULE KeMem_proofs ---------------------------
(***************************************************************************)
(* The heaps stay tiled, linked and coalesced, for any number of heaps of  *)
(* any sizes and any sequence of calls.  The four properties TypeOK,       *)
(* Tiled, Linked and Coalesced are inductive together: each keeps the      *)
(* others true through ke_malloc and ke_free.                              *)
(***************************************************************************)
EXTENDS KeMem, TLAPS

IInv == TypeOK /\ Tiled /\ Linked /\ Coalesced

-----------------------------------------------------------------------------
\* The ranges of the heaps: each holds its base, no word is in two.
LEMMA HeapRange ==
    /\ \A h \in Heap : Base[h] \in Nat /\ End[h] \in Nat /\ Within(Base[h], h)
    /\ \A g, h \in Heap : \A a \in Int : Within(a, g) /\ Within(a, h) => g = h
    /\ FreeHdr \in Nat /\ UsedHdr \in Nat /\ UsedHdr < FreeHdr
    /\ Null \notin Nat
BY MemAssumption DEF Within

\* What the invariant says of one free node and of one used block.
LEMMA BlockFacts ==
    ASSUME IInv, NEW h \in Heap
    PROVE  /\ \A a \in Nodes(h) :
                /\ a \in Nat /\ a \in DOMAIN node /\ a \in Blocks(h)
                /\ a \notin DOMAIN used /\ Within(a, h)
                /\ node[a].size \in Nat /\ Size(a) = node[a].size
                /\ node[a].next \in Nat \union {Null}
                /\ node[a].prev \in Nat \union {Null}
                /\ node[a] = [size |-> node[a].size, next |-> node[a].next,
                              prev |-> node[a].prev]
           /\ \A b \in DOMAIN used : Within(b, h) =>
                /\ b \in Nat /\ b \notin DOMAIN node /\ b \in Blocks(h)
                /\ used[b] \in Nat /\ Size(b) = used[b]
           /\ \A a \in Blocks(h) :
                /\ a \in Nat /\ Size(a) \in Nat /\ Size(a) >= FreeHdr /\ Size(a) > 0
                /\ a + Size(a) \in Blocks(h) \union {End[h]}
                /\ a + Size(a) <= End[h]
                /\ \A b \in Blocks(h) : a < b => a + Size(a) <= b
<1>1. /\ \A a \in DOMAIN node : /\ a \in Nat /\ node[a].size \in Nat
                                /\ node[a].next \in Nat \union {Null}
                                /\ node[a].prev \in Nat \union {Null}
                                /\ node[a] = [size |-> node[a].size,
                                              next |-> node[a].next,
                                              prev |-> node[a].prev]
      /\ \A b \in DOMAIN used : b \in Nat /\ used[b] \in Nat
  BY DEF IInv, TypeOK, Node
<1>2. \A a \in Nodes(h) :
          /\ a \in DOMAIN node /\ a \in Blocks(h)
          /\ a \notin DOMAIN used /\ Within(a, h) /\ Size(a) = node[a].size
  BY DEF IInv, Tiled, Nodes, Blocks, Size
<1>3. \A b \in DOMAIN used : Within(b, h) =>
          b \notin DOMAIN node /\ b \in Blocks(h) /\ Size(b) = used[b]
  BY DEF IInv, Tiled, Blocks, Size
<1>4. \A a \in Blocks(h) : /\ a \in Nat /\ Size(a) \in Nat /\ Within(a, h)
  BY <1>1 DEF Blocks, Size
<1>5. \A a \in Blocks(h) :
          /\ Size(a) >= FreeHdr /\ a + Size(a) \in Blocks(h) \union {End[h]}
          /\ \A b \in Blocks(h) : a < b => a + Size(a) <= b
  BY DEF IInv, Tiled
<1>6. \A a \in Blocks(h) : Size(a) > 0 /\ a + Size(a) <= End[h]
  BY <1>4, <1>5, HeapRange DEF Within
<1> QED BY <1>1, <1>2, <1>3, <1>4, <1>5, <1>6

\* What is said of a node by Linked.
LEMMA LinkFacts ==
    ASSUME IInv, NEW h \in Heap, NEW a \in Nodes(h)
    PROVE  /\ node[a].next = Null => \A c \in Nodes(h) : c <= a
           /\ node[a].next # Null =>
                node[a].next \in Nodes(h) /\ Follows(h, a, node[a].next)
           /\ node[a].prev = Null => a = Base[h]
           /\ node[a].prev # Null =>
                node[a].prev \in Nodes(h) /\ Follows(h, node[a].prev, a)
BY DEF IInv, Linked

-----------------------------------------------------------------------------
\* Cutting a block off the end of a node keeps the invariant.
LEMMA CutStep ==
    ASSUME IInv, NEW h \in Heap, NEW a \in Nodes(h), NEW t \in Nat,
           t >= FreeHdr, node[a].size >= t + FreeHdr, CutNode(a, t)
    PROVE  IInv'
<1>1. /\ a \in Nat /\ a \in DOMAIN node /\ a \in Blocks(h) /\ Within(a, h)
      /\ a \notin DOMAIN used
      /\ node[a].size \in Nat /\ Size(a) = node[a].size
      /\ a + node[a].size <= End[h]
      /\ a + node[a].size \in Blocks(h) \union {End[h]}
  BY BlockFacts
<1>0. PICK new \in Nat : new = a + node[a].size - t
  BY <1>1, HeapRange
<1>2. new \in Nat /\ new > a /\ new < a + node[a].size /\ Within(new, h)
  BY <1>0, <1>1, HeapRange DEF Within
<1>3. new \notin DOMAIN node \union DOMAIN used
  <2>1. new \notin Blocks(h)
    BY <1>1, <1>2, BlockFacts
  <2> QED BY <1>2, <2>1 DEF Blocks
<1>4. /\ DOMAIN node' = DOMAIN node
      /\ \A x \in DOMAIN node :
            node'[x] = IF x = a THEN [node[a] EXCEPT !.size = @ - t] ELSE node[x]
      /\ DOMAIN used' = DOMAIN used \union {new}
      /\ \A x \in DOMAIN used' : used'[x] = IF x = new THEN t ELSE used[x]
  <2>1. node' = [node EXCEPT ![a].size = @ - t]
    BY DEF CutNode
  <2>2. used' = [b \in DOMAIN used \union {new} |-> IF b = new THEN t ELSE used[b]]
    BY <1>0 DEF CutNode
  <2>3. \A x \in DOMAIN node :
            node'[x] = IF x = a THEN [node[a] EXCEPT !.size = @ - t] ELSE node[x]
    BY <2>1
  <2> QED BY <2>1, <2>2, <2>3
<1>5. \A x \in DOMAIN node : /\ node'[x].size = IF x = a THEN node[a].size - t
                                                ELSE node[x].size
                             /\ node'[x].next = node[x].next
                             /\ node'[x].prev = node[x].prev
                             /\ node'[x] \in Node
  <2>1. ASSUME NEW x \in DOMAIN node, x # a
        PROVE  node'[x] = node[x] /\ node'[x] \in Node
    BY <1>4, <2>1 DEF IInv, TypeOK
  <2>2. /\ node'[a] = [node[a] EXCEPT !.size = node[a].size - t]
        /\ node[a].size - t \in Nat /\ node[a] \in Node
    BY <1>1, <1>4, HeapRange DEF IInv, TypeOK
  <2>3. /\ node'[a].size = node[a].size - t /\ node'[a].next = node[a].next
        /\ node'[a].prev = node[a].prev /\ node'[a] \in Node
    BY <2>2 DEF Node
  <2> QED BY <2>1, <2>3
<1>6. TypeOK'
  <2>1. node' \in [DOMAIN node' -> Node]
    BY <1>4, <1>5 DEF CutNode, IInv, TypeOK
  <2>2. used' \in [DOMAIN used' -> Nat]
    BY <1>4 DEF CutNode, IInv, TypeOK
  <2> QED BY <1>2, <1>4, <2>1, <2>2 DEF IInv, TypeOK
<1>7. \A g \in Heap : /\ Nodes(g)' = Nodes(g)
                      /\ Blocks(g)' = IF g = h THEN Blocks(g) \union {new} ELSE Blocks(g)
  BY <1>2, <1>4, HeapRange DEF Nodes, Blocks, Within
<1>8. /\ Size(new)' = t /\ Size(a)' = node[a].size - t
      /\ \A x \in DOMAIN node \union DOMAIN used : x # a => Size(x)' = Size(x)
  BY <1>1, <1>3, <1>4, <1>5 DEF Size
<1>9. Tiled'
  <2>1. /\ DOMAIN node' \intersect DOMAIN used' = {}
        /\ \A x \in DOMAIN node' \union DOMAIN used' : \E g \in Heap : Within(x, g)
        /\ \A g \in Heap : Base[g] \in DOMAIN node'
    BY <1>2, <1>3, <1>4 DEF IInv, Tiled
  <2>2. ASSUME NEW g \in Heap, g # h, NEW x \in Blocks(g)'
        PROVE  /\ Size(x)' >= FreeHdr
               /\ x + Size(x)' \in Blocks(g)' \union {End[g]}
               /\ \A y \in Blocks(g)' : x < y => x + Size(x)' <= y
    <3>1. x \in Blocks(g) /\ x # a /\ x \in DOMAIN node \union DOMAIN used
      BY <1>1, <1>7, <2>2, HeapRange DEF Blocks
    <3>2. Size(x)' = Size(x) /\ Blocks(g)' = Blocks(g)
      BY <1>7, <1>8, <2>2, <3>1
    <3> QED BY <3>1, <3>2, BlockFacts
  <2>3. ASSUME NEW x \in Blocks(h)'
        PROVE  /\ Size(x)' >= FreeHdr
               /\ x + Size(x)' \in Blocks(h)' \union {End[h]}
               /\ \A y \in Blocks(h)' : x < y => x + Size(x)' <= y
    <3>1. Blocks(h)' = Blocks(h) \union {new}
      BY <1>7
    <3>2. CASE x = new
      <4>1. new + t = a + node[a].size
        BY <1>0, <1>1
      <4>2. \A y \in Blocks(h) : new < y => a + node[a].size <= y
        BY <1>1, <1>2, BlockFacts
      <4> QED BY <1>1, <1>2, <1>8, <3>1, <3>2, <4>1, <4>2
    <3>3. CASE x = a
      <4>1. a + (node[a].size - t) = new
        BY <1>0, <1>1
      <4>2. \A y \in Blocks(h) : a < y => a + node[a].size <= y /\ y \in Nat
        BY <1>1, BlockFacts
      <4>3. Size(x)' >= FreeHdr /\ x + Size(x)' = new
        <5>1. Size(x)' = node[a].size - t
          BY <1>8, <3>3
        <5>2. node[a].size - t >= FreeHdr
          BY <1>1, HeapRange
        <5> QED BY <3>3, <4>1, <5>1, <5>2
      <4>4. \A y \in Blocks(h)' : a < y => new <= y
        <5>1. ASSUME NEW y \in Blocks(h), a < y
              PROVE  new <= y
          <6>1. a + node[a].size <= y /\ y \in Nat
            BY <4>2, <5>1
          <6> QED BY <1>1, <1>2, <6>1
        <5>2. new <= new
          BY <1>2
        <5> QED BY <3>1, <5>1, <5>2
      <4> QED BY <3>1, <3>3, <4>3, <4>4
    <3>4. CASE x # new /\ x # a
      <4>1. x \in Blocks(h) /\ Size(x)' = Size(x) /\ x \in Nat /\ Size(x) \in Nat
        BY <1>8, <3>1, <3>4, BlockFacts DEF Blocks
      <4>2. x < new => x + Size(x) <= new
        <5>1. x < a => x + Size(x) <= a
          BY <1>1, <4>1, BlockFacts
        <5>2. a < x => a + node[a].size <= x
          BY <1>1, <4>1, BlockFacts
        <5> QED BY <1>1, <1>2, <3>4, <4>1, <5>1, <5>2
      <4> QED BY <3>1, <4>1, <4>2, BlockFacts
    <3> QED BY <3>2, <3>3, <3>4
  <2>4. ASSUME NEW g \in Heap, NEW x \in Blocks(g)'
        PROVE  /\ Size(x)' >= FreeHdr
               /\ x + Size(x)' \in Blocks(g)' \union {End[g]}
               /\ \A y \in Blocks(g)' : x < y => x + Size(x)' <= y
    BY <2>2, <2>3
  <2> QED BY <2>1, <2>4 DEF Tiled
<1>10. Linked'
  <2>1. \A g \in Heap : \A x \in Nodes(g) : x \in DOMAIN node
    BY DEF Nodes
  <2> QED BY <1>5, <1>7, <2>1 DEF IInv, Linked, Follows
<1>11. Coalesced'
  <2>1. ASSUME NEW g \in Heap, NEW x \in Nodes(g)
        PROVE  x + node'[x].size \notin Nodes(g)
    <3>1. CASE x = a
      <4>1. x + node'[x].size = new
        BY <1>0, <1>1, <1>5, <3>1
      <4> QED BY <1>3, <4>1 DEF Nodes
    <3>2. CASE x # a
      BY <1>5, <3>2 DEF IInv, Coalesced, Nodes
    <3> QED BY <3>1, <3>2
  <2> QED BY <1>7, <2>1 DEF Coalesced
<1> QED BY <1>6, <1>9, <1>10, <1>11 DEF IInv

-----------------------------------------------------------------------------
\* A step that lets one block of a heap grow over those behind it, and changes
\* no other size, keeps the heaps tiled.
LEMMA TilesKept ==
    ASSUME IInv, NEW h \in Heap, NEW x \in Blocks(h), NEW s \in Nat,
           s >= Size(x), x + s \in Blocks(h) \union {End[h]},
           Blocks(h)' = {y \in Blocks(h) : ~(x < y /\ y < x + s)},
           Size(x)' = s,
           \A y \in Blocks(h)' : y # x => Size(y)' = Size(y),
           \A g \in Heap : g # h => /\ Blocks(g)' = Blocks(g)
                                    /\ \A y \in Blocks(g) : Size(y)' = Size(y),
           DOMAIN node' \intersect DOMAIN used' = {},
           DOMAIN node' \union DOMAIN used' \subseteq DOMAIN node \union DOMAIN used,
           \A g \in Heap : Base[g] \in DOMAIN node'
    PROVE  Tiled'
<1>1. \A a \in DOMAIN node' \union DOMAIN used' : \E g \in Heap : Within(a, g)
  BY DEF IInv, Tiled
<1>2. ASSUME NEW g \in Heap, g # h, NEW a \in Blocks(g)'
      PROVE  /\ Size(a)' >= FreeHdr
             /\ a + Size(a)' \in Blocks(g)' \union {End[g]}
             /\ \A b \in Blocks(g)' : a < b => a + Size(a)' <= b
  <2>1. a \in Blocks(g) /\ Size(a)' = Size(a) /\ Blocks(g)' = Blocks(g)
    BY <1>2
  <2> QED BY <2>1, BlockFacts
<1>3. ASSUME NEW a \in Blocks(h)'
      PROVE  /\ Size(a)' >= FreeHdr
             /\ a + Size(a)' \in Blocks(h)' \union {End[h]}
             /\ \A b \in Blocks(h)' : a < b => a + Size(a)' <= b
  <2>1. /\ x \in Nat /\ Size(x) \in Nat /\ Size(x) >= FreeHdr /\ FreeHdr \in Nat
        /\ a \in Blocks(h) /\ a \in Nat /\ End[h] \in Nat
        /\ \A b \in Blocks(h) : b \in Nat
    BY BlockFacts, HeapRange
  <2>2. CASE a = x
    <3>1. x + s \in Blocks(h)' \union {End[h]}
      BY <2>1
    <3>2. \A b \in Blocks(h)' : x < b => x + s <= b
      BY <2>1
    <3> QED BY <2>1, <2>2, <3>1, <3>2
  <2>3. CASE a # x
    <3>1. /\ Size(a)' = Size(a) /\ Size(a) \in Nat /\ Size(a) >= FreeHdr
          /\ Size(a) > 0 /\ a + Size(a) \in Blocks(h) \union {End[h]}
          /\ \A b \in Blocks(h) : a < b => a + Size(a) <= b
      BY <2>1, <2>3, BlockFacts
    <3>2. ~(x < a + Size(a) /\ a + Size(a) < x + s)
      <4>1. CASE a < x
        BY <2>1, <3>1, <4>1
      <4>2. CASE x < a
        <5>1. x + s <= a
          BY <2>1, <4>2
        <5> QED BY <2>1, <3>1, <5>1
      <4> QED BY <2>1, <2>3, <4>1, <4>2
    <3>3. a + Size(a) \in Blocks(h)' \union {End[h]}
      BY <3>1, <3>2
    <3> QED BY <3>1, <3>3
  <2> QED BY <2>2, <2>3
<1>4. \A g \in Heap : \A a \in Blocks(g)' :
          /\ Size(a)' >= FreeHdr
          /\ a + Size(a)' \in Blocks(g)' \union {End[g]}
          /\ \A b \in Blocks(g)' : a < b => a + Size(a)' <= b
  BY <1>2, <1>3
<1> QED BY <1>1, <1>4 DEF Tiled

\* Two nodes with nothing between them are each other's neighbours.
LEMMA Neighbours ==
    ASSUME IInv, NEW h \in Heap, NEW a \in Nodes(h), NEW c \in Nodes(h),
           Follows(h, a, c)
    PROVE  node[a].next = c /\ node[c].prev = a
<1>1. /\ a \in Nat /\ c \in Nat /\ a < c /\ Null \notin Nat
      /\ \A x \in Nodes(h) : x \in Nat /\ ~(a < x /\ x < c)
      /\ Base[h] <= a /\ Base[h] \in Nat
  BY BlockFacts, HeapRange DEF Follows, Within
<1>2. node[a].next # Null /\ node[c].prev # Null
  BY <1>1, LinkFacts
<1>3. /\ node[a].next \in Nodes(h) /\ a < node[a].next
      /\ ~(a < c /\ c < node[a].next)
      /\ node[c].prev \in Nodes(h) /\ node[c].prev < c
      /\ ~(node[c].prev < a /\ a < c)
  BY <1>2, LinkFacts DEF Follows
<1>4. ASSUME NEW n \in Nodes(h), a < n, ~(a < c /\ c < n)
      PROVE  n = c
  BY <1>1, <1>4
<1>5. ASSUME NEW n \in Nodes(h), n < c, ~(n < a /\ a < c)
      PROVE  n = a
  BY <1>1, <1>5
<1> QED BY <1>3, <1>4, <1>5

\* Taking a node out of a list and linking its neighbours keeps the lists.
LEMMA LinksAfterRemoval ==
    ASSUME IInv, NEW h \in Heap, NEW p \in Nodes(h), NEW a \in Nodes(h),
           Follows(h, p, a), NEW n \in Nat \union {Null}, n = node[a].next,
           DOMAIN node' = DOMAIN node \ {a},
           \A x \in DOMAIN node \ {a} :
               /\ node'[x].next = IF x = p THEN n ELSE node[x].next
               /\ node'[x].prev = IF x = n THEN p ELSE node[x].prev
    PROVE  Linked'
<1>1. /\ p \in Nat /\ a \in Nat /\ p < a /\ Null \notin Nat
      /\ \A x \in Nodes(h) : x \in Nat /\ ~(p < x /\ x < a)
      /\ p # a
  <2>1. \A x \in Nodes(h) : x \in Nat
    BY BlockFacts
  <2>2. p < a /\ \A x \in Nodes(h) : ~(p < x /\ x < a)
    BY DEF Follows
  <2> QED BY <2>1, <2>2, HeapRange
<1>2. /\ \A g \in Heap : Nodes(g)' = Nodes(g) \ {a}
      /\ \A g \in Heap : \A x \in Nodes(g) : x \in DOMAIN node /\ x \in Nat
  BY BlockFacts DEF Nodes
<1>3. /\ n = Null => \A c \in Nodes(h) : c <= a
      /\ n # Null => n \in Nodes(h) /\ a < n /\ \A c \in Nodes(h) : ~(a < c /\ c < n)
  BY LinkFacts DEF Follows
<1>4. \A g \in Heap : g # h => a \notin Nodes(g) /\ p \notin Nodes(g) /\ n \notin Nodes(g)
  <2>1. \A g \in Heap : \A x \in Nat : x \in Nodes(h) /\ x \in Nodes(g) => g = h
    BY HeapRange DEF Nodes
  <2> QED BY <1>1, <1>2, <1>3, <2>1
<1>5. ASSUME NEW g \in Heap, g # h, NEW x \in Nodes(g)
      PROVE  /\ IF node'[x].next = Null THEN \A c \in Nodes(g) : c <= x
                ELSE node'[x].next \in Nodes(g) /\ Follows(g, x, node'[x].next)
             /\ IF node'[x].prev = Null THEN x = Base[g]
                ELSE node'[x].prev \in Nodes(g) /\ Follows(g, node'[x].prev, x)
  <2>1. node'[x].next = node[x].next /\ node'[x].prev = node[x].prev
    BY <1>2, <1>4, <1>5
  <2> QED BY <2>1, LinkFacts
<1>6. ASSUME NEW x \in Nodes(h) \ {a}
      PROVE  /\ IF node'[x].next = Null THEN \A c \in Nodes(h) \ {a} : c <= x
                ELSE /\ node'[x].next \in Nodes(h) \ {a} /\ x < node'[x].next
                     /\ \A c \in Nodes(h) \ {a} : ~(x < c /\ c < node'[x].next)
             /\ IF node'[x].prev = Null THEN x = Base[h]
                ELSE /\ node'[x].prev \in Nodes(h) \ {a} /\ node'[x].prev < x
                     /\ \A c \in Nodes(h) \ {a} : ~(node'[x].prev < c /\ c < x)
  <2>1. /\ x \in Nat /\ x \in DOMAIN node \ {a}
        /\ node[x].next = Null => \A c \in Nodes(h) : c <= x
        /\ node[x].next # Null =>
              /\ node[x].next \in Nodes(h) /\ x < node[x].next
              /\ \A c \in Nodes(h) : ~(x < c /\ c < node[x].next)
        /\ node[x].prev = Null => x = Base[h]
        /\ node[x].prev # Null =>
              /\ node[x].prev \in Nodes(h) /\ node[x].prev < x
              /\ \A c \in Nodes(h) : ~(node[x].prev < c /\ c < x)
    BY <1>2, LinkFacts DEF Follows
  <2>2. CASE x = p
    <3>1. node'[x].next = n
      BY <2>1, <2>2
    <3>2. x # n
      BY <1>1, <1>3, <2>2
    <3>3. node'[x].prev = node[x].prev
      BY <2>1, <3>2
    <3>4. node[x].prev # a
      BY <1>1, <2>1, <2>2
    <3> QED BY <1>1, <1>3, <2>1, <2>2, <3>1, <3>3, <3>4
  <2>3. CASE x # p
    <3>1. node'[x].next = node[x].next
      BY <2>1, <2>3
    <3>2. node[x].next # a
      BY <1>1, <2>1, <2>3
    <3>3. CASE x = n
      <4>1. node'[x].prev = p
        BY <2>1, <3>3
      <4>2. \A c \in Nodes(h) \ {a} : ~(p < c /\ c < x)
        BY <1>1, <1>3, <2>1, <3>3
      <4> QED BY <1>1, <1>3, <2>1, <3>1, <3>2, <3>3, <4>1, <4>2
    <3>4. CASE x # n
      <4>1. node'[x].prev = node[x].prev
        BY <2>1, <3>4
      <4>2. node[x].prev # a
        BY <1>1, <1>3, <2>1, <3>4
      <4> QED BY <2>1, <3>1, <3>2, <4>1, <4>2
    <3> QED BY <3>3, <3>4
  <2> QED BY <2>2, <2>3
<1>7. ASSUME NEW g \in Heap, NEW x \in Nodes(g)'
      PROVE  /\ IF node'[x].next = Null THEN \A c \in Nodes(g)' : c <= x
                ELSE /\ node'[x].next \in Nodes(g)' /\ x < node'[x].next
                     /\ \A c \in Nodes(g)' : ~(x < c /\ c < node'[x].next)
             /\ IF node'[x].prev = Null THEN x = Base[g]
                ELSE /\ node'[x].prev \in Nodes(g)' /\ node'[x].prev < x
                     /\ \A c \in Nodes(g)' : ~(node'[x].prev < c /\ c < x)
  <2>1. CASE g = h
    BY <1>2, <1>6, <2>1
  <2>2. CASE g # h
    <3>1. Nodes(g)' = Nodes(g)
      <4>1. a \notin Nodes(g)
        BY <1>4, <2>2
      <4>2. Nodes(g)' = Nodes(g) \ {a}
        BY <1>2
      <4> QED BY <4>1, <4>2
    <3> QED BY <1>5, <2>2, <3>1 DEF Follows
  <2> QED BY <2>1, <2>2
<1> QED BY <1>7 DEF Linked, Follows

\* Linking a new node between a node and the next one keeps the lists.
LEMMA LinksAfterInsertion ==
    ASSUME IInv, NEW h \in Heap, NEW p \in Nodes(h), NEW b \in Nat, Within(b, h),
           b \notin DOMAIN node, StopsAt(h, p, b),
           NEW n \in Nat \union {Null}, n = node[p].next,
           DOMAIN node' = DOMAIN node \union {b},
           node'[b].next = n, node'[b].prev = p,
           \A x \in DOMAIN node :
               /\ node'[x].next = IF x = p THEN b ELSE node[x].next
               /\ node'[x].prev = IF x = n THEN b ELSE node[x].prev
    PROVE  Linked'
<1>1. /\ p \in Nat /\ p < b /\ p # b /\ Null \notin Nat /\ b \notin Nodes(h)
      /\ \A c \in Nodes(h) : c \in Nat /\ c # b /\ (c < b => c <= p)
  <2>0. \A c \in Nodes(h) : c \in Nat
    BY BlockFacts
  <2>1. \A c \in Nodes(h) : c \in Nat /\ c # b
    BY <2>0 DEF Nodes
  <2>2. p < b /\ \A c \in Nodes(h) : c < b => c <= p
    BY DEF StopsAt
  <2> QED BY <2>1, <2>2, HeapRange
<1>2. /\ Nodes(h)' = Nodes(h) \union {b}
      /\ \A g \in Heap : g # h => Nodes(g)' = Nodes(g)
  BY HeapRange DEF Nodes
<1>3. /\ n = Null => \A c \in Nodes(h) : c <= p
      /\ n # Null => /\ n \in Nodes(h) /\ p < n /\ b < n
                    /\ \A c \in Nodes(h) : ~(p < c /\ c < n)
  <2>1. /\ n = Null => \A c \in Nodes(h) : c <= p
        /\ n # Null => /\ n \in Nodes(h) /\ p < n
                      /\ \A c \in Nodes(h) : ~(p < c /\ c < n)
    BY LinkFacts DEF Follows
  <2> QED BY <1>1, <2>1
<1>4. \A g \in Heap : g # h => \A x \in Nodes(g) : x \notin Nodes(h)
  BY BlockFacts, HeapRange DEF Nodes
<1>5. ASSUME NEW g \in Heap, g # h, NEW x \in Nodes(g)
      PROVE  /\ IF node'[x].next = Null THEN \A c \in Nodes(g) : c <= x
                ELSE node'[x].next \in Nodes(g) /\ Follows(g, x, node'[x].next)
             /\ IF node'[x].prev = Null THEN x = Base[g]
                ELSE node'[x].prev \in Nodes(g) /\ Follows(g, node'[x].prev, x)
  <2>0. x \in Nat
    BY BlockFacts
  <2>1. x \in DOMAIN node /\ x # b /\ x \notin Nodes(h)
    BY <1>4, <1>5 DEF Nodes
  <2>2. node'[x].next = node[x].next /\ node'[x].prev = node[x].prev
    BY <1>1, <1>3, <2>0, <2>1
  <2> QED BY <2>2, LinkFacts
<1>6. ASSUME NEW x \in Nodes(h) \union {b}
      PROVE  /\ IF node'[x].next = Null THEN \A c \in Nodes(h) \union {b} : c <= x
                ELSE /\ node'[x].next \in Nodes(h) \union {b} /\ x < node'[x].next
                     /\ \A c \in Nodes(h) \union {b} : ~(x < c /\ c < node'[x].next)
             /\ IF node'[x].prev = Null THEN x = Base[h]
                ELSE /\ node'[x].prev \in Nodes(h) \union {b} /\ node'[x].prev < x
                     /\ \A c \in Nodes(h) \union {b} : ~(node'[x].prev < c /\ c < x)
  <2>1. CASE x = b
    <3>1. node'[x].next = n /\ node'[x].prev = p
      BY <2>1
    <3>2. n = Null => \A c \in Nodes(h) \union {b} : c <= b
      BY <1>1, <1>3
    <3>3. n # Null => \A c \in Nodes(h) \union {b} : ~(b < c /\ c < n)
      BY <1>1, <1>3
    <3>4. \A c \in Nodes(h) \union {b} : ~(p < c /\ c < b)
      BY <1>1
    <3> QED BY <1>1, <1>3, <2>1, <3>1, <3>2, <3>3, <3>4
  <2>2. CASE x # b
    <3>1. /\ x \in Nat /\ x \in DOMAIN node /\ x # b
          /\ node[x].next = Null => \A c \in Nodes(h) : c <= x
          /\ node[x].next # Null =>
                  /\ node[x].next \in Nodes(h) /\ x < node[x].next
                  /\ \A c \in Nodes(h) : ~(x < c /\ c < node[x].next)
          /\ node[x].prev = Null => x = Base[h]
          /\ node[x].prev # Null =>
                  /\ node[x].prev \in Nodes(h) /\ node[x].prev < x
                  /\ \A c \in Nodes(h) : ~(node[x].prev < c /\ c < x)
      BY <2>2, BlockFacts, LinkFacts DEF Follows
    <3>2. CASE x = p
      <4>1. node'[x].next = b
        BY <3>1, <3>2
      <4>2. node'[x].prev = node[x].prev /\ node[x].prev # b
        BY <1>1, <1>3, <3>1, <3>2
      <4>3. \A c \in Nodes(h) \union {b} : ~(p < c /\ c < b)
        BY <1>1
      <4>4. node[x].prev # Null => ~(node[x].prev < b /\ b < x)
        BY <1>1, <3>2
      <4> QED BY <1>1, <3>1, <3>2, <4>1, <4>2, <4>3, <4>4
    <3>3. CASE x # p /\ x < b
      <4>1. x < p
        BY <1>1, <3>1, <3>3
      <4>2. x # n
        BY <1>1, <1>3, <3>3
      <4>3. node'[x].next = node[x].next /\ node'[x].prev = node[x].prev
        BY <3>1, <3>3, <4>2
      <4>4. node[x].next # Null /\ node[x].next <= p
        <5>1. node[x].next # Null
          BY <1>1, <3>1, <4>1
        <5>2. node[x].next \in Nat /\ ~(x < p /\ p < node[x].next)
          BY <1>1, <3>1, <5>1
        <5> QED BY <1>1, <4>1, <5>1, <5>2
      <4>5. node[x].next # Null /\ node[x].next \in Nat
        BY <1>1, <3>1, <4>4
      <4>6. ~(x < b /\ b < node[x].next)
        BY <1>1, <4>4, <4>5
      <4>7. node[x].prev # Null => ~(node[x].prev < b /\ b < x)
        BY <1>1, <3>1, <3>3
      <4> QED BY <3>1, <4>3, <4>5, <4>6, <4>7
    <3>4. CASE x # p /\ b < x
      <4>1. n # Null /\ n <= x
        BY <1>1, <1>3, <3>1, <3>4
      <4>2. node'[x].next = node[x].next
        BY <3>1, <3>4
      <4>3. node[x].next # Null => ~(x < b /\ b < node[x].next)
        BY <1>1, <3>1, <3>4
      <4>4. node[x].next = Null => b <= x
        BY <1>1, <3>1, <3>4
      <4>5. CASE x = n
        <5>1. node'[x].prev = b
          BY <3>1, <4>5
        <5>2. \A c \in Nodes(h) \union {b} : ~(b < c /\ c < x)
          BY <1>1, <1>3, <4>5
        <5> QED BY <1>1, <3>1, <3>4, <4>2, <4>3, <4>4, <5>1, <5>2
      <4>6. CASE x # n
        <5>1. node'[x].prev = node[x].prev
          BY <3>1, <4>6
        <5>2. node[x].prev # Null /\ n <= node[x].prev
          <6>1. n \in Nat /\ n < x /\ Base[h] <= p /\ Base[h] \in Nat
            BY <1>1, <1>3, <3>1, <4>1, <4>6, HeapRange DEF Nodes, Within
          <6>2. node[x].prev # Null
            BY <1>1, <1>3, <3>1, <4>1, <6>1
          <6>3. node[x].prev \in Nat /\ ~(node[x].prev < n /\ n < x)
            BY <1>1, <1>3, <3>1, <4>1, <6>2
          <6> QED BY <6>1, <6>2, <6>3
        <5>3. ~(node[x].prev < b /\ b < x)
          <6>1. n \in Nat /\ b < n
            BY <1>1, <1>3, <4>1
          <6>2. node[x].prev \in Nat
            BY <1>1, <3>1, <5>2
          <6> QED BY <5>2, <6>1, <6>2
        <5> QED BY <3>1, <4>2, <4>3, <4>4, <5>1, <5>2, <5>3
      <4> QED BY <4>5, <4>6
    <3>5. x < b \/ b < x
      BY <2>2, <3>1
    <3> QED BY <3>2, <3>3, <3>4, <3>5
  <2> QED BY <2>1, <2>2
<1>7. ASSUME NEW g \in Heap, NEW x \in Nodes(g)'
      PROVE  /\ IF node'[x].next = Null THEN \A c \in Nodes(g)' : c <= x
                ELSE /\ node'[x].next \in Nodes(g)' /\ x < node'[x].next
                     /\ \A c \in Nodes(g)' : ~(x < c /\ c < node'[x].next)
             /\ IF node'[x].prev = Null THEN x = Base[g]
                ELSE /\ node'[x].prev \in Nodes(g)' /\ node'[x].prev < x
                     /\ \A c \in Nodes(g)' : ~(node'[x].prev < c /\ c < x)
  <2>1. CASE g = h
    BY <1>2, <1>6, <2>1
  <2>2. CASE g # h
    <3>1. Nodes(g)' = Nodes(g)
      BY <1>2, <2>2
    <3> QED BY <1>5, <2>2, <3>1 DEF Follows
  <2> QED BY <2>1, <2>2
<1> QED BY <1>7 DEF Linked, Follows

\* Letting a new node take the place of the next one keeps the lists.
LEMMA LinksAfterReplacement ==
    ASSUME IInv, NEW h \in Heap, NEW p \in Nodes(h), NEW b \in Nat, Within(b, h),
           b \notin DOMAIN node, StopsAt(h, p, b),
           NEW n \in Nodes(h), n = node[p].next,
           NEW m \in Nat \union {Null}, m = node[n].next,
           DOMAIN node' = (DOMAIN node \union {b}) \ {n},
           node'[b].next = m, node'[b].prev = p,
           \A x \in DOMAIN node \ {n} :
               /\ node'[x].next = IF x = p THEN b ELSE node[x].next
               /\ node'[x].prev = IF x = m THEN b ELSE node[x].prev
    PROVE  Linked'
<1>1. /\ p \in Nat /\ p < b /\ p # b /\ Null \notin Nat /\ b \notin Nodes(h)
      /\ \A c \in Nodes(h) : c \in Nat /\ c # b /\ (c < b => c <= p)
  <2>0. \A c \in Nodes(h) : c \in Nat
    BY BlockFacts
  <2>1. \A c \in Nodes(h) : c \in Nat /\ c # b
    BY <2>0 DEF Nodes
  <2>2. p < b /\ \A c \in Nodes(h) : c < b => c <= p
    BY DEF StopsAt
  <2> QED BY <2>1, <2>2, HeapRange
<1>4. \A g \in Heap : g # h => \A x \in Nodes(g) : x \notin Nodes(h)
  BY BlockFacts, HeapRange DEF Nodes
<1>2. /\ Nodes(h)' = (Nodes(h) \union {b}) \ {n}
      /\ \A g \in Heap : g # h => Nodes(g)' = Nodes(g)
  <2>1. \A g \in Heap : g # h => n \notin Nodes(g) /\ ~Within(b, g)
    BY <1>4, HeapRange
  <2>2. \A g \in Heap : g # h => Nodes(g)' = Nodes(g)
    BY <2>1 DEF Nodes
  <2> QED BY <2>2 DEF Nodes
<1>3. /\ p < n /\ b < n /\ n # Null /\ n \in Nat
      /\ \A c \in Nodes(h) : ~(p < c /\ c < n)
      /\ m = Null => \A c \in Nodes(h) : c <= n
      /\ m # Null => /\ m \in Nodes(h) /\ n < m
                    /\ \A c \in Nodes(h) : ~(n < c /\ c < m)
  <2>1. n # Null /\ n \in Nat
    BY <1>1
  <2>2. p < n /\ \A c \in Nodes(h) : ~(p < c /\ c < n)
    BY <2>1, LinkFacts DEF Follows
  <2>3. /\ m = Null => \A c \in Nodes(h) : c <= n
        /\ m # Null => /\ m \in Nodes(h) /\ n < m
                      /\ \A c \in Nodes(h) : ~(n < c /\ c < m)
    BY LinkFacts DEF Follows
  <2> QED BY <1>1, <2>1, <2>2, <2>3
<1>5. ASSUME NEW g \in Heap, g # h, NEW x \in Nodes(g)
      PROVE  /\ IF node'[x].next = Null THEN \A c \in Nodes(g) : c <= x
                ELSE node'[x].next \in Nodes(g) /\ Follows(g, x, node'[x].next)
             /\ IF node'[x].prev = Null THEN x = Base[g]
                ELSE node'[x].prev \in Nodes(g) /\ Follows(g, node'[x].prev, x)
  <2>0. x \in Nat
    BY BlockFacts
  <2>1. x \in DOMAIN node \ {n} /\ x \notin Nodes(h)
    BY <1>4, <1>5 DEF Nodes
  <2>2. node'[x].next = node[x].next /\ node'[x].prev = node[x].prev
    BY <1>1, <1>3, <2>0, <2>1
  <2> QED BY <2>2, LinkFacts
<1>6. ASSUME NEW x \in (Nodes(h) \union {b}) \ {n}
      PROVE  /\ IF node'[x].next = Null THEN \A c \in (Nodes(h) \union {b}) \ {n} : c <= x
                ELSE /\ node'[x].next \in (Nodes(h) \union {b}) \ {n} /\ x < node'[x].next
                     /\ \A c \in (Nodes(h) \union {b}) \ {n} : ~(x < c /\ c < node'[x].next)
             /\ IF node'[x].prev = Null THEN x = Base[h]
                ELSE /\ node'[x].prev \in (Nodes(h) \union {b}) \ {n} /\ node'[x].prev < x
                     /\ \A c \in (Nodes(h) \union {b}) \ {n} : ~(node'[x].prev < c /\ c < x)
  <2>1. CASE x = b
    <3>1. node'[x].next = m /\ node'[x].prev = p
      BY <2>1
    <3>2. m = Null => \A c \in (Nodes(h) \union {b}) \ {n} : c <= b
      BY <1>1, <1>3
    <3>3. m # Null => /\ b < m /\ m # n
                      /\ \A c \in (Nodes(h) \union {b}) \ {n} : ~(b < c /\ c < m)
      BY <1>1, <1>3
    <3>4. \A c \in (Nodes(h) \union {b}) \ {n} : ~(p < c /\ c < b)
      BY <1>1
    <3> QED BY <1>1, <1>3, <2>1, <3>1, <3>2, <3>3, <3>4
  <2>2. CASE x # b
    <3>1. /\ x \in Nat /\ x \in DOMAIN node \ {n} /\ x # b /\ x # n /\ x \in Nodes(h)
          /\ node[x].next = Null => \A c \in Nodes(h) : c <= x
          /\ node[x].next # Null =>
                /\ node[x].next \in Nodes(h) /\ x < node[x].next
                /\ \A c \in Nodes(h) : ~(x < c /\ c < node[x].next)
          /\ node[x].prev = Null => x = Base[h]
          /\ node[x].prev # Null =>
                /\ node[x].prev \in Nodes(h) /\ node[x].prev < x
                /\ \A c \in Nodes(h) : ~(node[x].prev < c /\ c < x)
      <4>1. x \in Nodes(h) /\ x # b /\ x # n
        BY <2>2
      <4>2. x \in Nat /\ x \in DOMAIN node \ {n}
        BY <4>1, BlockFacts
      <4> QED BY <4>1, <4>2, LinkFacts DEF Follows
    <3>2. CASE x = p
      <4>1. node'[x].next = b
        BY <3>1, <3>2
      <4>2. x # m
        BY <1>1, <1>3, <3>2
      <4>3. node'[x].prev = node[x].prev
        BY <3>1, <4>2
      <4>4. \A c \in (Nodes(h) \union {b}) \ {n} : ~(p < c /\ c < b)
        BY <1>1
      <4>5. node[x].prev # Null => node[x].prev # n /\ ~(node[x].prev < b /\ b < x)
        BY <1>1, <1>3, <3>1, <3>2
      <4> QED BY <1>1, <1>3, <3>1, <3>2, <4>1, <4>3, <4>4, <4>5
    <3>3. CASE x # p /\ x < b
      <4>1. x < p
        BY <1>1, <3>1, <3>3
      <4>2. x # m
        BY <1>1, <1>3, <3>1, <3>3
      <4>3. node'[x].next = node[x].next /\ node'[x].prev = node[x].prev
        BY <3>1, <3>3, <4>2
      <4>4. node[x].next # Null
        BY <1>1, <3>1, <4>1
      <4>5. node[x].next \in Nat /\ ~(x < p /\ p < node[x].next)
        BY <1>1, <3>1, <4>4
      <4>6. node[x].next <= p
        BY <1>1, <4>1, <4>5
      <4>7. node[x].next # n /\ ~(x < b /\ b < node[x].next)
        BY <1>1, <1>3, <4>5, <4>6
      <4>8. node[x].prev # Null => node[x].prev # n /\ ~(node[x].prev < b /\ b < x)
        BY <1>1, <1>3, <3>1, <3>3
      <4> QED BY <3>1, <4>3, <4>4, <4>7, <4>8
    <3>4. CASE x # p /\ b < x
      <4>1. n < x
        BY <1>1, <1>3, <3>1, <3>4
      <4>2. m # Null /\ m <= x
        BY <1>1, <1>3, <3>1, <4>1
      <4>3. node'[x].next = node[x].next
        BY <3>1, <3>4
      <4>4. node[x].next # Null => node[x].next # n /\ ~(x < b /\ b < node[x].next)
        BY <1>1, <1>3, <3>1, <3>4, <4>1
      <4>5. node[x].next = Null => b <= x
        BY <1>1, <3>1, <3>4
      <4>6. CASE x = m
        <5>1. node'[x].prev = b
          BY <3>1, <4>6
        <5>2. \A c \in (Nodes(h) \union {b}) \ {n} : ~(b < c /\ c < x)
          BY <1>1, <1>3, <4>6
        <5> QED BY <1>1, <1>3, <3>1, <3>4, <4>3, <4>4, <4>5, <5>1, <5>2
      <4>7. CASE x # m
        <5>1. node'[x].prev = node[x].prev
          BY <3>1, <4>7
        <5>2. m \in Nat /\ m < x /\ n < m
          BY <1>1, <1>3, <3>1, <4>2, <4>7
        <5>3. node[x].prev # Null
          <6>1. Base[h] <= p /\ Base[h] \in Nat
            BY HeapRange DEF Nodes, Within
          <6> QED BY <1>1, <1>3, <3>1, <5>2, <6>1
        <5>4. node[x].prev \in Nat /\ ~(node[x].prev < m /\ m < x)
          BY <1>1, <1>3, <3>1, <4>2, <5>3
        <5>5. m <= node[x].prev
          BY <5>2, <5>4
        <5>6. node[x].prev # n /\ ~(node[x].prev < b /\ b < x)
          BY <1>1, <1>3, <5>2, <5>4, <5>5
        <5> QED BY <3>1, <4>3, <4>4, <4>5, <5>1, <5>3, <5>6
      <4> QED BY <4>6, <4>7
    <3>5. x < b \/ b < x
      <4>1. x \in Nat /\ b \in Nat /\ x # b
        BY <3>1
      <4> QED BY <4>1
    <3> QED BY <3>2, <3>3, <3>4, <3>5
  <2> QED BY <2>1, <2>2
<1>7. ASSUME NEW g \in Heap, NEW x \in Nodes(g)'
      PROVE  /\ IF node'[x].next = Null THEN \A c \in Nodes(g)' : c <= x
                ELSE /\ node'[x].next \in Nodes(g)' /\ x < node'[x].next
                     /\ \A c \in Nodes(g)' : ~(x < c /\ c < node'[x].next)
             /\ IF node'[x].prev = Null THEN x = Base[g]
                ELSE /\ node'[x].prev \in Nodes(g)' /\ node'[x].prev < x
                     /\ \A c \in Nodes(g)' : ~(node'[x].prev < c /\ c < x)
  <2>1. CASE g = h
    BY <1>2, <1>6, <2>1
  <2>2. CASE g # h
    <3>1. Nodes(g)' = Nodes(g)
      BY <1>2, <2>2
    <3> QED BY <1>5, <2>2, <3>1 DEF Follows
  <2> QED BY <2>1, <2>2
<1> QED BY <1>7 DEF Linked, Follows

-----------------------------------------------------------------------------
\* g is f, but for the previous pointer of a, if there is such a node.
Relinked(f, g, a, p) ==
    /\ DOMAIN g = DOMAIN f /\ g \in [DOMAIN f -> Node]
    /\ \A x \in DOMAIN f : /\ g[x].size = f[x].size
                           /\ g[x].next = f[x].next
                           /\ g[x].prev = (IF x = a THEN p ELSE f[x].prev)

\* SetPrev changes one previous pointer, if there is a node to change.
LEMMA SetPrevLemma ==
    ASSUME NEW f, DOMAIN f \subseteq Nat, f \in [DOMAIN f -> Node],
           NEW a, a \in DOMAIN f \union {Null}, NEW p, p \in Nat \union {Null}
    PROVE  Relinked(f, SetPrev(f, a, p), a, p)
<1> DEFINE D == DOMAIN f
<1>1. Null \notin D
  BY HeapRange
<1>2. CASE a = Null
  BY <1>1, <1>2 DEF SetPrev, Relinked
<1>3. CASE a # Null
  <2>1. a \in D /\ SetPrev(f, a, p) = [f EXCEPT ![a].prev = p]
    BY <1>3 DEF SetPrev
  <2>2. ASSUME NEW x \in D, x # a
        PROVE  SetPrev(f, a, p)[x] = f[x] /\ f[x] \in Node
    BY <2>1, <2>2
  <2>3. /\ SetPrev(f, a, p)[a] = [f[a] EXCEPT !.prev = p] /\ f[a] \in Node
    BY <2>1
  <2>4. /\ SetPrev(f, a, p)[a].size = f[a].size /\ SetPrev(f, a, p)[a].next = f[a].next
        /\ SetPrev(f, a, p)[a].prev = p /\ SetPrev(f, a, p)[a] \in Node
    BY <2>3 DEF Node
  <2>5. DOMAIN SetPrev(f, a, p) = D
    BY <2>1
  <2>6. \A x \in D : SetPrev(f, a, p)[x] \in Node
    BY <2>2, <2>4
  <2>7. SetPrev(f, a, p) \in [D -> Node]
    BY <2>1, <2>5, <2>6
  <2> QED BY <2>2, <2>4, <2>5, <2>7 DEF Relinked
<1> QED BY <1>2, <1>3

\* Handing out a whole node keeps the invariant.
LEMMA TakeStep ==
    ASSUME IInv, NEW h \in Heap, NEW a \in Nodes(h), node[a].prev # Null,
           TakeNode(a)
    PROVE  IInv'
<1>1. PICK p \in Nat \union {Null} : p = node[a].prev
  BY BlockFacts
<1>2. PICK n \in Nat \union {Null} : n = node[a].next
  BY BlockFacts
<1>3. /\ p \in Nodes(h) /\ Follows(h, p, a) /\ p < a /\ p \in Nat /\ a \in Nat
      /\ n # Null => n \in Nodes(h) /\ a < n
      /\ a \in DOMAIN node /\ p \in DOMAIN node
      /\ n \in DOMAIN node \union {Null} /\ a \notin DOMAIN used
      /\ DOMAIN node \subseteq Nat /\ Null \notin Nat
      /\ node \in [DOMAIN node -> Node]
  <2>1. p \in Nodes(h) /\ Follows(h, p, a) /\ p < a
    BY <1>1, LinkFacts DEF Follows
  <2>2. n # Null => n \in Nodes(h) /\ a < n
    BY <1>2, LinkFacts DEF Follows
  <2>3. a \in Nat /\ a \in DOMAIN node /\ a \notin DOMAIN used
    BY BlockFacts
  <2>4. p \in DOMAIN node /\ p \in Nat /\ n \in DOMAIN node \union {Null}
    BY <2>1, <2>2, BlockFacts
  <2> QED BY <2>1, <2>2, <2>3, <2>4, HeapRange DEF IInv, TypeOK
<1> DEFINE f == [node EXCEPT ![p].next = n]
           g == SetPrev(f, n, p)
<1>4. /\ f \in [DOMAIN node -> Node]
      /\ \A x \in DOMAIN node : /\ f[x].size = node[x].size
                                /\ f[x].next = (IF x = p THEN n ELSE node[x].next)
                                /\ f[x].prev = node[x].prev
  <2>1. ASSUME NEW x \in DOMAIN node, x # p
        PROVE  f[x] = node[x] /\ f[x] \in Node
    BY <1>3, <2>1
  <2>2. f[p] = [node[p] EXCEPT !.next = n] /\ node[p] \in Node
    BY <1>3
  <2>3. /\ f[p].size = node[p].size /\ f[p].next = n
        /\ f[p].prev = node[p].prev /\ f[p] \in Node
    BY <2>2 DEF Node
  <2>4. DOMAIN f = DOMAIN node /\ \A x \in DOMAIN node : f[x] \in Node
    BY <1>3, <2>1, <2>3
  <2>5. f \in [DOMAIN node -> Node]
    BY <1>3, <2>4
  <2> QED BY <2>1, <2>3, <2>5
<1> HIDE DEF f
<1>5. /\ g \in [DOMAIN node -> Node]
      /\ \A x \in DOMAIN node : /\ g[x].size = node[x].size
                                /\ g[x].next = (IF x = p THEN n ELSE node[x].next)
                                /\ g[x].prev = (IF x = n THEN p ELSE node[x].prev)
  <2>1. DOMAIN f = DOMAIN node
    BY <1>4
  <2>2. Relinked(f, g, n, p)
    BY <1>3, <1>4, <2>1, SetPrevLemma
  <2> QED BY <1>4, <2>1, <2>2 DEF Relinked
<1>6. node' = [x \in DOMAIN node \ {a} |-> g[x]]
  BY <1>1, <1>2, <1>3 DEF TakeNode, Restrict, f
<1>7. used' = [b \in DOMAIN used \union {a} |-> IF b = a THEN node[a].size ELSE used[b]]
  BY DEF TakeNode
<1> HIDE DEF g
<1>8. /\ DOMAIN node' = DOMAIN node \ {a}
      /\ node' \in [DOMAIN node' -> Node]
      /\ \A x \in DOMAIN node \ {a} :
            /\ node'[x].size = node[x].size
            /\ node'[x].next = IF x = p THEN n ELSE node[x].next
            /\ node'[x].prev = IF x = n THEN p ELSE node[x].prev
      /\ DOMAIN used' = DOMAIN used \union {a}
      /\ \A x \in DOMAIN used' : used'[x] = IF x = a THEN node[a].size ELSE used[x]
      /\ used' \in [DOMAIN used' -> Nat]
  <2>1. node[a].size \in Nat
    BY BlockFacts
  <2>2. \A b \in DOMAIN used : used[b] \in Nat
    BY DEF IInv, TypeOK
  <2>3. DOMAIN node' = DOMAIN node \ {a} /\ DOMAIN used' = DOMAIN used \union {a}
    BY <1>6, <1>7
  <2>4. \A x \in DOMAIN node \ {a} : node'[x] = g[x] /\ g[x] \in Node
    BY <1>5, <1>6
  <2>5. node' \in [DOMAIN node' -> Node]
    BY <1>6, <2>3, <2>4
  <2>6. used' \in [DOMAIN used' -> Nat]
    BY <1>7, <2>1, <2>2
  <2>7. \A x \in DOMAIN used' : used'[x] = IF x = a THEN node[a].size ELSE used[x]
    BY <1>7
  <2> QED BY <1>5, <2>3, <2>4, <2>5, <2>6, <2>7
<1>9. TypeOK'
  BY <1>3, <1>8 DEF IInv, TypeOK
<1>10. Linked'
  BY <1>1, <1>2, <1>3, <1>8, LinksAfterRemoval
<1>11. /\ \A k \in Heap : Blocks(k)' = Blocks(k)
       /\ \A k \in Heap : \A x \in Blocks(k) : Size(x)' = Size(x)
       /\ \A k \in Heap : Nodes(k)' = Nodes(k) \ {a}
  BY <1>3, <1>8 DEF Blocks, Size, Nodes
<1>12. Tiled'
  <2>1. /\ a \in Blocks(h) /\ Size(a) \in Nat
        /\ a + Size(a) \in Blocks(h) \union {End[h]}
        /\ Blocks(h) = {y \in Blocks(h) : ~(a < y /\ y < a + Size(a))}
    <3>1. \A y \in Blocks(h) : y \in Nat /\ (a < y => a + Size(a) <= y)
      BY BlockFacts
    <3>2. a \in Blocks(h) /\ Size(a) \in Nat
      BY BlockFacts
    <3>3. \A y \in Blocks(h) : ~(a < y /\ y < a + Size(a))
      BY <1>3, <3>1, <3>2
    <3> QED BY <3>2, <3>3, BlockFacts
  <2>2. \A k \in Heap : Base[k] \in DOMAIN node'
    <3>1. \A k \in Heap : Base[k] \in DOMAIN node /\ Base[k] \in Nat /\ Within(Base[k], k)
      BY HeapRange DEF IInv, Tiled
    <3>2. a # Base[h]
      BY <1>3, <3>1 DEF Nodes, Within
    <3>3. \A k \in Heap : k # h => a # Base[k]
      BY <3>1, HeapRange DEF Nodes
    <3> QED BY <1>8, <3>1, <3>2, <3>3
  <2>3. /\ DOMAIN node' \intersect DOMAIN used' = {}
        /\ DOMAIN node' \union DOMAIN used' \subseteq DOMAIN node \union DOMAIN used
    BY <1>3, <1>8 DEF IInv, Tiled
  <2>4. PICK s \in Nat : s = Size(a)
    BY <2>1
  <2>5. Size(a)' = s
    BY <1>11, <2>1, <2>4
  <2>6. s >= Size(a) /\ a + s \in Blocks(h) \union {End[h]}
        /\ Blocks(h)' = {y \in Blocks(h) : ~(a < y /\ y < a + s)}
    BY <1>11, <2>1, <2>4
  <2> QED BY <1>11, <2>1, <2>2, <2>3, <2>5, <2>6, TilesKept
<1>13. Coalesced'
  <2>1. \A k \in Heap : \A x \in Nodes(k) \ {a} : node'[x].size = node[x].size
    BY <1>8 DEF Nodes
  <2> QED BY <1>11, <2>1 DEF IInv, Coalesced
<1> QED BY <1>9, <1>10, <1>12, <1>13 DEF IInv
-----------------------------------------------------------------------------
\* What surrounds the used block b when the walk of ke_free stops behind p.
LEMMA SpotFacts ==
    ASSUME IInv, NEW h \in Heap, NEW p \in Nodes(h), NEW b \in DOMAIN used,
           Within(b, h), StopsAt(h, p, b)
    PROVE  /\ b \in Nat /\ used[b] \in Nat /\ used[b] > 0 /\ b \notin DOMAIN node
           /\ b \in Blocks(h) /\ Size(b) = used[b]
           /\ p \in Nat /\ p < b /\ node[p].size \in Nat /\ node[p].size > 0
           /\ p \in Blocks(h) /\ Size(p) = node[p].size /\ p \in DOMAIN node
           /\ p + node[p].size <= b
           /\ b + used[b] \in Blocks(h) \union {End[h]}
           /\ \A c \in Blocks(h) : /\ c \in Nat /\ Size(c) \in Nat /\ Size(c) > 0
                                   /\ b < c => b + used[b] <= c
                                   /\ p < c => p + node[p].size <= c
                                   /\ c < b => c + Size(c) <= b
           /\ \A c \in Nodes(h) : c < b => c <= p
           /\ node[p].next # Null =>
                 /\ node[p].next \in Nodes(h) /\ node[p].next \in Nat
                 /\ b < node[p].next /\ Follows(h, p, node[p].next)
           /\ ~Touching(b, node[p].next) => b + used[b] \notin Nodes(h)
<1>1. /\ b \in Nat /\ used[b] \in Nat /\ b \notin DOMAIN node
      /\ b \in Blocks(h) /\ Size(b) = used[b]
  BY BlockFacts
<1>2. /\ p \in Nat /\ node[p].size \in Nat /\ p \in DOMAIN node
      /\ p \in Blocks(h) /\ Size(p) = node[p].size
  BY BlockFacts
<1>3. p < b /\ \A c \in Nodes(h) : c < b => c <= p
  BY DEF StopsAt
<1>4. /\ Size(b) > 0 /\ Size(p) > 0
      /\ b + Size(b) \in Blocks(h) \union {End[h]}
      /\ p + Size(p) <= b
      /\ \A c \in Blocks(h) : /\ c \in Nat /\ Size(c) \in Nat /\ Size(c) > 0
                              /\ b < c => b + Size(b) <= c
                              /\ p < c => p + Size(p) <= c
                              /\ c < b => c + Size(c) <= b
  BY <1>1, <1>2, <1>3, BlockFacts
<1>5. ASSUME node[p].next # Null
      PROVE  /\ node[p].next \in Nodes(h) /\ node[p].next \in Nat
             /\ b < node[p].next /\ Follows(h, p, node[p].next)
  <2>1. /\ node[p].next \in Nodes(h) /\ Follows(h, p, node[p].next)
        /\ p < node[p].next
    BY <1>5, LinkFacts DEF Follows
  <2>2. node[p].next \in Nat /\ node[p].next # b
    BY <1>1, <2>1, BlockFacts DEF Nodes
  <2>3. ~(node[p].next < b)
    BY <1>2, <1>3, <2>1, <2>2
  <2> QED BY <1>1, <2>1, <2>2, <2>3
<1>6. ASSUME ~Touching(b, node[p].next), b + used[b] \in Nodes(h)
      PROVE  FALSE
  <2>1. b + used[b] \in Nat /\ p < b + used[b]
    BY <1>1, <1>2, <1>3
  <2>2. node[p].next # Null
    BY <1>2, <1>6, <2>1, LinkFacts
  <2>3. /\ node[p].next \in Nat /\ b < node[p].next
        /\ node[p].next \in Blocks(h)
        /\ ~(p < b + used[b] /\ b + used[b] < node[p].next)
    BY <1>5, <1>6, <2>2, BlockFacts DEF Follows
  <2>4. b + used[b] <= node[p].next
    BY <1>1, <1>4, <2>3
  <2>5. b + used[b] = node[p].next
    BY <2>1, <2>3, <2>4
  <2> QED BY <1>6, <2>2, <2>5 DEF Touching
<1> QED BY <1>1, <1>2, <1>3, <1>4, <1>5, <1>6

\* Freeing b: a node x (the one behind which the walk stops, or b itself) covers
\* s words from now on, b and the nodes R are part of it.
LEMMA FreeKeepsTiles ==
    ASSUME IInv, NEW h \in Heap, NEW p \in Nodes(h), NEW b \in DOMAIN used,
           Within(b, h), StopsAt(h, p, b),
           NEW x \in {p, b}, x = b => ~Touches(p, b),
           NEW s \in Nat, s >= Size(x), x + s \in Blocks(h) \union {End[h]},
           x + s \notin Nodes(h),
           NEW R \in SUBSET Nodes(h), x \notin R,
           \A y \in Blocks(h) : (x < y /\ y < x + s) <=> y \in R \union ({b} \ {x}),
           DOMAIN node' = (DOMAIN node \union {x}) \ R,
           DOMAIN used' = DOMAIN used \ {b},
           node'[x].size = s,
           \A y \in DOMAIN node \ (R \union {x}) : node'[y].size = node[y].size,
           \A y \in DOMAIN used \ {b} : used'[y] = used[y]
    PROVE  Tiled' /\ Coalesced'
<1>1. /\ b \in Nat /\ b \notin DOMAIN node /\ b \in Blocks(h) /\ p \in DOMAIN node
      /\ p \in Nat /\ p < b /\ p \in Blocks(h) /\ x \in Nat /\ x \in Blocks(h)
      /\ Size(x) \in Nat /\ Size(x) > 0
      /\ \A c \in Blocks(h) : /\ c \in Nat /\ Size(c) \in Nat /\ Size(c) > 0
                              /\ p < c => p + node[p].size <= c
                              /\ c < b => c + Size(c) <= b
      /\ \A c \in Nodes(h) : c < b => c <= p
  BY SpotFacts
<1>2. /\ \A c \in Nodes(h) : /\ c \in Nat /\ c \in DOMAIN node /\ c \notin DOMAIN used
                             /\ c \in Blocks(h) /\ Size(c) = node[c].size
      /\ \A g \in Heap : g # h => \A c \in Nodes(h) : c \notin Nodes(g) /\ ~Within(c, g)
      /\ \A g \in Heap : g # h => ~Within(b, g) /\ ~Within(x, g)
  <2>1. \A c \in Nodes(h) : /\ c \in Nat /\ c \in DOMAIN node /\ c \notin DOMAIN used
                            /\ c \in Blocks(h) /\ Size(c) = node[c].size
                            /\ Within(c, h)
    BY BlockFacts
  <2>2. \A g \in Heap : g # h => \A c \in Nodes(h) : c \notin Nodes(g) /\ ~Within(c, g)
    BY <2>1, HeapRange DEF Nodes
  <2> QED BY <1>1, <2>1, <2>2, HeapRange
<1>3. DOMAIN node' \union DOMAIN used'
          = (DOMAIN node \union DOMAIN used) \ (R \union ({b} \ {x}))
  BY <1>1, <1>2
<1>4. /\ Blocks(h)' = {y \in Blocks(h) : ~(x < y /\ y < x + s)}
      /\ \A g \in Heap : g # h => Blocks(g)' = Blocks(g)
  <2>1. \A g \in Heap : Blocks(g)' = Blocks(g) \ (R \union ({b} \ {x}))
    BY <1>3 DEF Blocks
  <2>2. \A g \in Heap : g # h => \A y \in R \union ({b} \ {x}) : y \notin Blocks(g)
    BY <1>2 DEF Blocks
  <2>3. Blocks(h)' = Blocks(h) \ (R \union ({b} \ {x}))
    BY <2>1
  <2>4. Blocks(h)' = {y \in Blocks(h) : ~(x < y /\ y < x + s)}
    BY <2>3
  <2>5. ASSUME NEW g \in Heap, g # h
        PROVE  Blocks(g)' = Blocks(g)
    <3>1. Blocks(g)' = Blocks(g) \ (R \union ({b} \ {x}))
      BY <2>1
    <3> QED BY <2>2, <2>5, <3>1
  <2> QED BY <2>4, <2>5
<1>5. /\ Size(x)' = s
      /\ \A y \in DOMAIN node' \union DOMAIN used' : y # x => Size(y)' = Size(y)
  <2>1. x \in DOMAIN node'
    BY <1>1
  <2>2. ASSUME NEW y \in DOMAIN node', y # x
        PROVE  Size(y)' = Size(y)
    BY <2>2 DEF Size
  <2>3. ASSUME NEW y \in DOMAIN used', y \notin DOMAIN node'
        PROVE  Size(y)' = Size(y)
    <3>1. y \in DOMAIN used \ {b} /\ y \notin DOMAIN node
      BY <1>2, <2>3 DEF IInv, Tiled
    <3> QED BY <2>3, <3>1 DEF Size
  <2> QED BY <2>1, <2>2, <2>3 DEF Size
<1>6. Tiled'
  <2>1. \A y \in Blocks(h)' : y # x => Size(y)' = Size(y)
    BY <1>5 DEF Blocks
  <2>2. \A g \in Heap : g # h => \A y \in Blocks(g) : Size(y)' = Size(y)
    <3>1. ASSUME NEW g \in Heap, g # h, NEW y \in Blocks(g)
          PROVE  Size(y)' = Size(y)
      <4>1. y \in Blocks(g)' /\ y # x
        BY <1>2, <1>4, <3>1 DEF Blocks
      <4> QED BY <1>5, <4>1 DEF Blocks
    <3> QED BY <3>1
  <2>3. DOMAIN node' \intersect DOMAIN used' = {}
    BY <1>1 DEF IInv, Tiled
  <2>4. DOMAIN node' \union DOMAIN used' \subseteq DOMAIN node \union DOMAIN used
    BY <1>3
  <2>5. \A g \in Heap : Base[g] \in DOMAIN node'
    <3>1. \A g \in Heap : Base[g] \in DOMAIN node /\ Base[g] \in Nat /\ Within(Base[g], g)
      BY HeapRange DEF IInv, Tiled
    <3>2. \A y \in R : y \in Nat /\ x < y /\ Base[h] < y
      <4>1. \A y \in R : y \in Nat /\ x < y
        BY <1>2
      <4>2. Base[h] <= x
        BY <1>1 DEF Blocks, Within
      <4> QED BY <1>1, <3>1, <4>1, <4>2
    <3>3. \A g \in Heap : Base[g] \notin R
      BY <1>2, <3>1, <3>2
    <3> QED BY <3>1, <3>3
  <2> QED BY <1>1, <1>4, <1>5, <2>1, <2>2, <2>3, <2>4, <2>5, TilesKept
<1>7. Coalesced'
  <2>1. /\ Nodes(h)' = (Nodes(h) \union {x}) \ R
        /\ \A g \in Heap : g # h => Nodes(g)' = Nodes(g)
    <3>1. Within(x, h)
      BY <1>1 DEF Blocks
    <3>2. \A g \in Heap : Nodes(g)' = {c \in (DOMAIN node \union {x}) \ R : Within(c, g)}
      BY DEF Nodes
    <3> QED BY <1>2, <3>1, <3>2 DEF Nodes
  <2>2. ASSUME NEW g \in Heap, g # h, NEW y \in Nodes(g)'
        PROVE  y + node'[y].size \notin Nodes(g)'
    <3>1. y \in Nodes(g) /\ node'[y].size = node[y].size
      BY <1>2, <2>1, <2>2 DEF Nodes
    <3> QED BY <2>1, <2>2, <3>1 DEF IInv, Coalesced
  <2>3. ASSUME NEW y \in Nodes(h)'
        PROVE  y + node'[y].size \notin Nodes(h)'
    <3>1. CASE y = x
      <4>1. x + s # x
        BY <1>1
      <4> QED BY <2>1, <3>1, <4>1
    <3>2. CASE y # x
      <4>1. y \in Nodes(h) /\ node'[y].size = node[y].size
        BY <1>2, <2>1, <3>2
      <4>2. y + node[y].size \notin Nodes(h)
        BY <4>1 DEF IInv, Coalesced
      <4>3. ASSUME x = b
            PROVE  y + node[y].size # b
        <5>1. y \in Nat /\ node[y].size \in Nat /\ node[y].size > 0 /\ y # b
          BY <1>1, <1>2, <4>1
        <5>2. CASE y = p
          BY <4>3, <5>2 DEF Touches
        <5>3. CASE y < p
          <6>1. y + node[y].size <= p
            BY <1>1, <1>2, <4>1, <5>3, BlockFacts
          <6> QED BY <1>1, <5>1, <6>1
        <5>4. CASE p < y
          <6>1. b < y
            BY <1>1, <4>1, <5>1, <5>4
          <6> QED BY <1>1, <5>1, <6>1
        <5> QED BY <1>1, <5>1, <5>2, <5>3, <5>4
      <4>4. y + node[y].size # x
        BY <4>2, <4>3
      <4> QED BY <2>1, <4>1, <4>2, <4>4
    <3> QED BY <3>1, <3>2
  <2> QED BY <2>2, <2>3 DEF Coalesced
<1> QED BY <1>6, <1>7
-----------------------------------------------------------------------------
\* The block that is freed is no longer used, nothing else changes in used.
LEMMA GoneLemma ==
    ASSUME IInv, NEW b \in DOMAIN used, Gone(b)
    PROVE  /\ DOMAIN used' = DOMAIN used \ {b}
           /\ \A y \in DOMAIN used \ {b} : used'[y] = used[y]
           /\ DOMAIN used' \subseteq Nat /\ used' \in [DOMAIN used' -> Nat]
<1>1. used' = [y \in DOMAIN used \ {b} |-> used[y]]
  BY DEF Gone, Restrict
<1>2. \A y \in DOMAIN used : y \in Nat /\ used[y] \in Nat
  BY DEF IInv, TypeOK
<1>3. DOMAIN used' = DOMAIN used \ {b} /\ \A y \in DOMAIN used \ {b} : used'[y] = used[y]
  BY <1>1
<1>4. used' \in [DOMAIN used' -> Nat]
  BY <1>1, <1>2
<1> QED BY <1>2, <1>3, <1>4

\* f has a node rec for b behind p, and is the old list elsewhere.
Spliced(f, b, p, rec) ==
    /\ DOMAIN f = DOMAIN node \union {b} /\ f \in [DOMAIN f -> Node]
    /\ f[b] = rec
    /\ \A x \in DOMAIN node : /\ f[x].size = node[x].size
                              /\ f[x].next = (IF x = p THEN b ELSE node[x].next)
                              /\ f[x].prev = node[x].prev

\* NewNode adds b behind p and changes no other pointer.
LEMMA NewNodeLemma ==
    ASSUME IInv, NEW p, p \in DOMAIN node, NEW b, b \in Nat, b \notin DOMAIN node,
           NEW rec, rec \in Node
    PROVE  Spliced(NewNode(b, p, rec), b, p, rec)
<1>1. \A x \in DOMAIN node : node[x] \in Node
  BY DEF IInv, TypeOK
<1>2. PICK q \in Node : q = [node[p] EXCEPT !.next = b]
  BY <1>1 DEF Node
<1>3. q.size = node[p].size /\ q.next = b /\ q.prev = node[p].prev
  BY <1>1, <1>2 DEF Node
<1>4. NewNode(b, p, rec) = [x \in DOMAIN node \union {b} |->
                               IF x = b THEN rec ELSE IF x = p THEN q ELSE node[x]]
  BY <1>2 DEF NewNode
<1>5. /\ DOMAIN NewNode(b, p, rec) = DOMAIN node \union {b}
      /\ NewNode(b, p, rec) \in [DOMAIN node \union {b} -> Node]
  BY <1>1, <1>4
<1>6. NewNode(b, p, rec)[b] = rec
  BY <1>4
<1>7. \A x \in DOMAIN node : NewNode(b, p, rec)[x] = IF x = p THEN q ELSE node[x]
  BY <1>4
<1> QED BY <1>3, <1>5, <1>6, <1>7 DEF Spliced

\* The block behind a node grows it.
LEMMA FreeAfterStep ==
    ASSUME IInv, NEW h \in Heap, NEW p \in Nodes(h), NEW b \in DOMAIN used,
           Within(b, h), StopsAt(h, p, b), FreeAfter(p, b)
    PROVE  IInv'
<1>1. /\ p \in DOMAIN node /\ node[p].size \in Nat /\ used[b] \in Nat /\ used[b] > 0
      /\ p \in Nat /\ b \in Nat /\ p < b
      /\ p + node[p].size = b /\ p \in Blocks(h) /\ b \in Blocks(h)
      /\ Size(p) = node[p].size
      /\ b + used[b] \in Blocks(h) \union {End[h]}
      /\ b + used[b] \notin Nodes(h)
      /\ \A c \in Blocks(h) : /\ c \in Nat
                              /\ b < c => b + used[b] <= c
                              /\ p < c => p + node[p].size <= c
  BY SpotFacts DEF FreeAfter, Touches
<1>2. PICK s \in Nat : s = node[p].size + used[b]
  BY <1>1
<1>3. /\ DOMAIN node' = DOMAIN node
      /\ node' \in [DOMAIN node' -> Node]
      /\ node'[p].size = s
      /\ node'[p].next = node[p].next /\ node'[p].prev = node[p].prev
      /\ \A x \in DOMAIN node \ {p} : node'[x] = node[x]
  <2>1. node' = [node EXCEPT ![p].size = s]
    BY <1>2 DEF FreeAfter
  <2>2. node \in [DOMAIN node -> Node] /\ node[p] \in Node
    BY <1>1 DEF IInv, TypeOK
  <2>3. node'[p] = [node[p] EXCEPT !.size = s]
    BY <1>1, <2>1, <2>2
  <2>4. /\ node'[p].size = s /\ node'[p].next = node[p].next
        /\ node'[p].prev = node[p].prev /\ node'[p] \in Node
    BY <2>2, <2>3 DEF Node
  <2>5. DOMAIN node' = DOMAIN node /\ \A x \in DOMAIN node \ {p} : node'[x] = node[x]
    BY <2>1
  <2>6. \A x \in DOMAIN node : node'[x] \in Node
    BY <2>2, <2>4, <2>5
  <2>7. node' \in [DOMAIN node' -> Node]
    BY <2>1, <2>5, <2>6
  <2> QED BY <2>4, <2>5, <2>7
<1>4. Gone(b)
  BY DEF FreeAfter
<1>5. TypeOK'
  BY <1>3, <1>4, GoneLemma DEF IInv, TypeOK
<1>6. Linked'
  <2>1. \A g \in Heap : Nodes(g)' = Nodes(g) /\ \A x \in Nodes(g) : x \in DOMAIN node
    BY <1>3 DEF Nodes
  <2>2. \A x \in DOMAIN node : node'[x].next = node[x].next /\ node'[x].prev = node[x].prev
    BY <1>3
  <2> QED BY <2>1, <2>2 DEF IInv, Linked, Follows
<1>7. Tiled' /\ Coalesced'
  <2>0. PICK R \in SUBSET Nodes(h) : R = {}
    OBVIOUS
  <2>1. s >= Size(p) /\ p + s = b + used[b]
    BY <1>1, <1>2
  <2>2. \A y \in Blocks(h) : (p < y /\ y < p + s) <=> y \in R \union ({b} \ {p})
    BY <2>0, <1>1, <2>1
  <2>3. DOMAIN node' = (DOMAIN node \union {p}) \ R
    BY <2>0, <1>1, <1>3
  <2>4. \A y \in DOMAIN node \ (R \union {p}) : node'[y].size = node[y].size
    BY <2>0, <1>3
  <2>5. p \notin R /\ p \in {p, b} /\ (p = b => ~Touches(p, b))
    BY <2>0, <1>1
  <2>6. DOMAIN used' = DOMAIN used \ {b} /\ \A y \in DOMAIN used \ {b} : used'[y] = used[y]
    BY <1>4, GoneLemma
  <2>7. p + s \in Blocks(h) \union {End[h]} /\ p + s \notin Nodes(h)
    BY <1>1, <2>1
  <2> QED BY <1>3, <2>1, <2>2, <2>3, <2>4, <2>5, <2>6, <2>7, FreeKeepsTiles
<1> QED BY <1>5, <1>6, <1>7 DEF IInv

\* The block that touches no node becomes one.
LEMMA FreeAloneStep ==
    ASSUME IInv, NEW h \in Heap, NEW p \in Nodes(h), NEW b \in DOMAIN used,
           Within(b, h), StopsAt(h, p, b), FreeAlone(p, b)
    PROVE  IInv'
<1>1. /\ p \in DOMAIN node /\ used[b] \in Nat /\ used[b] > 0
      /\ b \in Nat /\ b \notin DOMAIN node /\ b \in Blocks(h) /\ Size(b) = used[b]
      /\ b + used[b] \in Blocks(h) \union {End[h]}
      /\ b + used[b] \notin Nodes(h)
      /\ \A c \in Blocks(h) : c \in Nat /\ (b < c => b + used[b] <= c)
      /\ node[p].next # Null => node[p].next \in Nodes(h)
  BY SpotFacts DEF FreeAlone
<1>2. PICK n \in Nat \union {Null} : n = node[p].next
  BY BlockFacts
<1>3. n \in DOMAIN node \union {Null} /\ p \in Nat /\ Null \notin Nat
  BY <1>1, <1>2, BlockFacts, HeapRange DEF Nodes
<1>4. PICK rec \in Node : rec = [size |-> used[b], next |-> n, prev |-> p]
  BY <1>1, <1>3 DEF Node
<1>5. PICK f : f = NewNode(b, p, rec)
  OBVIOUS
<1>6. node' = SetPrev(f, n, b) /\ Gone(b)
  BY <1>2, <1>4, <1>5 DEF FreeAlone
<1>7. Spliced(f, b, p, rec) /\ Relinked(f, node', n, b)
  <2>1. Spliced(f, b, p, rec)
    BY <1>1, <1>4, <1>5, NewNodeLemma
  <2>2. /\ DOMAIN f = DOMAIN node \union {b} /\ f \in [DOMAIN f -> Node]
        /\ DOMAIN f \subseteq Nat
    BY <1>1, <2>1 DEF Spliced, IInv, TypeOK
  <2>3. n \in DOMAIN f \union {Null} /\ b \in Nat \union {Null}
    BY <1>1, <1>3, <2>2
  <2> QED BY <1>6, <2>1, <2>2, <2>3, SetPrevLemma
<1>8. /\ DOMAIN node' = DOMAIN node \union {b}
      /\ node'[b].size = used[b] /\ node'[b].next = n /\ node'[b].prev = p
      /\ \A x \in DOMAIN node :
            /\ node'[x].size = node[x].size
            /\ node'[x].next = (IF x = p THEN b ELSE node[x].next)
            /\ node'[x].prev = (IF x = n THEN b ELSE node[x].prev)
  <2>1. b # n
    BY <1>1, <1>3
  <2>2. rec.size = used[b] /\ rec.next = n /\ rec.prev = p
    BY <1>4
  <2>3. DOMAIN node' = DOMAIN node \union {b}
    BY <1>7 DEF Spliced, Relinked
  <2> QED BY <1>1, <1>7, <2>1, <2>2, <2>3 DEF Spliced, Relinked
<1>9. TypeOK'
  <2>1. DOMAIN node' \subseteq Nat /\ node' \in [DOMAIN node' -> Node]
    BY <1>1, <1>7, <1>8 DEF IInv, TypeOK, Spliced, Relinked
  <2> QED BY <1>6, <2>1, GoneLemma DEF TypeOK
<1>10. Linked'
  BY <1>1, <1>2, <1>8, LinksAfterInsertion
<1>11. Tiled' /\ Coalesced'
  <2>0. PICK R \in SUBSET Nodes(h) : R = {}
    OBVIOUS
  <2>1. PICK s \in Nat : s = used[b]
    BY <1>1
  <2>2. \A y \in Blocks(h) : (b < y /\ y < b + s) <=> y \in R \union ({b} \ {b})
    BY <2>0, <1>1, <2>1
  <2>3. DOMAIN node' = (DOMAIN node \union {b}) \ R
    BY <2>0, <1>8
  <2>4. \A y \in DOMAIN node \ (R \union {b}) : node'[y].size = node[y].size
    BY <2>0, <1>8
  <2>5. b \notin R /\ b \in {p, b} /\ (b = b => ~Touches(p, b))
    BY <2>0 DEF FreeAlone
  <2>6. DOMAIN used' = DOMAIN used \ {b} /\ \A y \in DOMAIN used \ {b} : used'[y] = used[y]
    BY <1>6, GoneLemma
  <2>7. /\ b + s \in Blocks(h) \union {End[h]} /\ b + s \notin Nodes(h)
        /\ s >= Size(b) /\ node'[b].size = s
    BY <1>1, <1>8, <2>1
  <2> QED BY <2>2, <2>3, <2>4, <2>5, <2>6, <2>7, FreeKeepsTiles
<1> QED BY <1>9, <1>10, <1>11 DEF IInv
\* What holds of the node behind the gap that b leaves to it.
LEMMA NextFacts ==
    ASSUME IInv, NEW h \in Heap, NEW p \in Nodes(h), NEW b \in DOMAIN used,
           Within(b, h), StopsAt(h, p, b),
           NEW n, n = node[p].next, Touching(b, n)
    PROVE  /\ n \in Nodes(h) /\ n \in Nat /\ n \in DOMAIN node /\ n # p /\ n # b
           /\ Follows(h, p, n) /\ p < n /\ b + used[b] = n
           /\ node[n].size \in Nat /\ node[n].size > 0
           /\ n \in Blocks(h)
           /\ n + node[n].size \in Blocks(h) \union {End[h]}
           /\ n + node[n].size \notin Nodes(h)
           /\ \A c \in Blocks(h) : n < c => n + node[n].size <= c
           /\ node[n].next \in DOMAIN node \union {Null} /\ node[n].next # n
           /\ node[n].next # p /\ node[n].next # b
           /\ node[n].next # Null => node[n].next \in Nodes(h)
<1>1. /\ n \in Nodes(h) /\ n \in Nat /\ b < n /\ Follows(h, p, n)
      /\ p \in Nat /\ p < b /\ b \in Nat
  BY SpotFacts DEF Touching
<1>2. b + used[b] = n /\ p < n
  BY <1>1 DEF Touching
<1>3. /\ n \in DOMAIN node /\ n \in Blocks(h) /\ Size(n) = node[n].size
      /\ node[n].size \in Nat /\ node[n].next \in Nat \union {Null}
  <2>1. \A a \in Nodes(h) :
            /\ a \in DOMAIN node /\ a \in Blocks(h) /\ Size(a) = node[a].size
            /\ node[a].size \in Nat /\ node[a].next \in Nat \union {Null}
    BY BlockFacts
  <2> QED BY <1>1, <2>1
<1>4. /\ Size(n) > 0 /\ n + Size(n) \in Blocks(h) \union {End[h]}
      /\ \A c \in Blocks(h) : n < c => n + Size(n) <= c
  BY <1>3, BlockFacts
<1>5. n + node[n].size \notin Nodes(h)
  BY <1>1 DEF IInv, Coalesced
<1>6. /\ node[n].next # Null => node[n].next \in Nodes(h) /\ n < node[n].next
  <2>1. \A a \in Nodes(h) : node[a].next # Null =>
            node[a].next \in Nodes(h) /\ a < node[a].next
    BY LinkFacts DEF Follows
  <2> QED BY <1>1, <2>1
<1>7. node[n].next \in DOMAIN node \union {Null}
  <2>1. \A a \in Nodes(h) : a \in DOMAIN node
    BY DEF Nodes
  <2> QED BY <1>6, <2>1
<1>8. node[n].next # n /\ node[n].next # p /\ node[n].next # b
  BY <1>1, <1>3, <1>6, HeapRange
<1> QED BY <1>1, <1>2, <1>3, <1>4, <1>5, <1>6, <1>7, <1>8

\* The block between two nodes makes one of them.
LEMMA FreeBetweenStep ==
    ASSUME IInv, NEW h \in Heap, NEW p \in Nodes(h), NEW b \in DOMAIN used,
           Within(b, h), StopsAt(h, p, b), FreeBetween(p, b)
    PROVE  IInv'
<1>1. /\ p \in DOMAIN node /\ node[p].size \in Nat /\ used[b] \in Nat /\ used[b] > 0
      /\ p \in Nat /\ b \in Nat /\ p < b /\ p # b
      /\ p + node[p].size = b /\ p \in Blocks(h) /\ b \in Blocks(h)
      /\ Size(p) = node[p].size
      /\ \A c \in Blocks(h) : /\ c \in Nat
                              /\ b < c => b + used[b] <= c
                              /\ p < c => p + node[p].size <= c
  BY SpotFacts DEF FreeBetween, Touches
<1>2. PICK n : n = node[p].next
  OBVIOUS
<1>3. PICK m : m = node[n].next
  OBVIOUS
<1>4. /\ n \in Nodes(h) /\ n \in Nat /\ n \in DOMAIN node /\ n # p /\ n # b
      /\ Follows(h, p, n) /\ b + used[b] = n
      /\ node[n].size \in Nat /\ node[n].size > 0 /\ n \in Blocks(h)
      /\ n + node[n].size \in Blocks(h) \union {End[h]}
      /\ n + node[n].size \notin Nodes(h)
      /\ \A c \in Blocks(h) : n < c => n + node[n].size <= c
      /\ m \in DOMAIN node \union {Null} /\ m # n /\ m # p
  <2>1. Touching(b, n)
    BY <1>2 DEF FreeBetween
  <2> QED BY <1>2, <1>3, <2>1, NextFacts
<1>5. PICK s \in Nat : s = node[p].size + used[b] + node[n].size
  BY <1>1, <1>4
<1>6. m \in Nat \union {Null} /\ Null \notin Nat /\ node \in [DOMAIN node -> Node]
      /\ DOMAIN node \subseteq Nat
  BY <1>4, HeapRange DEF IInv, TypeOK
<1>7. PICK rec : rec = [size |-> s, next |-> m, prev |-> node[p].prev]
  OBVIOUS
<1>8. rec \in Node
  BY <1>6, <1>7, BlockFacts DEF Node
<1>9. PICK f : f = [node EXCEPT ![p] = rec]
  OBVIOUS
<1>10. /\ DOMAIN f = DOMAIN node /\ f \in [DOMAIN f -> Node] /\ DOMAIN f \subseteq Nat
       /\ f[p] = rec /\ \A x \in DOMAIN node \ {p} : f[x] = node[x]
  BY <1>1, <1>6, <1>8, <1>9
<1>11. PICK g : g = SetPrev(f, m, p)
  OBVIOUS
<1>12. Relinked(f, g, m, p)
  <2>1. m \in DOMAIN f \union {Null} /\ p \in Nat \union {Null}
    BY <1>1, <1>4, <1>10
  <2> QED BY <1>10, <1>11, <2>1, SetPrevLemma
<1>13. node' = [x \in DOMAIN node \ {n} |-> g[x]] /\ Gone(b)
  <2>1. f = [node EXCEPT ![p] = [size |-> @.size + used[b] + node[n].size,
                                 next |-> node[n].next, prev |-> @.prev]]
    BY <1>1, <1>3, <1>5, <1>7, <1>9
  <2> QED BY <1>2, <1>3, <1>11, <2>1 DEF FreeBetween, Restrict
<1>14. /\ DOMAIN node' = DOMAIN node \ {n} /\ node' \in [DOMAIN node' -> Node]
       /\ \A x \in DOMAIN node \ {n} : node'[x] = g[x]
  <2>1. DOMAIN node' = DOMAIN node \ {n} /\ \A x \in DOMAIN node \ {n} : node'[x] = g[x]
    BY <1>13
  <2>2. \A x \in DOMAIN node : g[x] \in Node
    BY <1>10, <1>12 DEF Relinked
  <2> QED BY <1>13, <2>1, <2>2
<1>15. /\ node'[p].size = s
       /\ \A x \in DOMAIN node \ {n, p} : node'[x].size = node[x].size
       /\ \A x \in DOMAIN node \ {n} :
             /\ node'[x].next = (IF x = p THEN m ELSE node[x].next)
             /\ node'[x].prev = (IF x = m THEN p ELSE node[x].prev)
  <2>1. rec.size = s /\ rec.next = m /\ rec.prev = node[p].prev
    BY <1>7
  <2>2. \A x \in DOMAIN node : /\ f[x].size = (IF x = p THEN s ELSE node[x].size)
                               /\ f[x].next = (IF x = p THEN m ELSE node[x].next)
                               /\ f[x].prev = node[x].prev
    BY <1>10, <2>1
  <2> QED BY <1>1, <1>4, <1>10, <1>12, <1>14, <2>2 DEF Relinked
<1>16. TypeOK'
  <2>1. DOMAIN node' \subseteq Nat /\ node' \in [DOMAIN node' -> Node]
    BY <1>6, <1>14
  <2> QED BY <1>13, <2>1, GoneLemma DEF TypeOK
<1>17. Linked'
  BY <1>3, <1>4, <1>6, <1>14, <1>15, LinksAfterRemoval
<1>18. Tiled' /\ Coalesced'
  <2>0. PICK R \in SUBSET Nodes(h) : R = {n}
    BY <1>4
  <2>1. s >= Size(p) /\ p + s = n + node[n].size
    BY <1>1, <1>4, <1>5
  <2>2. \A y \in Blocks(h) : (p < y /\ y < p + s) <=> y \in R \union ({b} \ {p})
    <3>1. ASSUME NEW y \in Blocks(h), p < y, y < p + s
          PROVE  y = b \/ y = n
      <4>1. y \in Nat /\ b <= y /\ (b < y => n <= y) /\ (n < y => p + s <= y)
        BY <1>1, <1>4, <2>1, <3>1
      <4> QED BY <1>1, <1>4, <2>1, <3>1, <4>1
    <3>2. p < b /\ b < p + s /\ p < n /\ n < p + s
      BY <1>1, <1>4, <2>1
    <3> QED BY <1>1, <2>0, <3>1, <3>2
  <2>3. DOMAIN node' = (DOMAIN node \union {p}) \ R
    BY <1>1, <1>14, <2>0
  <2>4. \A y \in DOMAIN node \ (R \union {p}) : node'[y].size = node[y].size
    BY <1>15, <2>0
  <2>5. p \notin R /\ p \in {p, b} /\ (p = b => ~Touches(p, b))
    BY <1>1, <1>4, <2>0
  <2>6. DOMAIN used' = DOMAIN used \ {b} /\ \A y \in DOMAIN used \ {b} : used'[y] = used[y]
    BY <1>13, GoneLemma
  <2>7. p + s \in Blocks(h) \union {End[h]} /\ p + s \notin Nodes(h)
    BY <1>4, <2>1
  <2> QED BY <1>15, <2>1, <2>2, <2>3, <2>4, <2>5, <2>6, <2>7, FreeKeepsTiles
<1> QED BY <1>16, <1>17, <1>18 DEF IInv
\* The block in front of a node takes its place.
LEMMA FreeBeforeStep ==
    ASSUME IInv, NEW h \in Heap, NEW p \in Nodes(h), NEW b \in DOMAIN used,
           Within(b, h), StopsAt(h, p, b), FreeBefore(p, b)
    PROVE  IInv'
<1>1. /\ p \in DOMAIN node /\ used[b] \in Nat /\ used[b] > 0
      /\ p \in Nat /\ b \in Nat /\ p # b /\ b \notin DOMAIN node
      /\ b \in Blocks(h) /\ Size(b) = used[b]
      /\ \A c \in Blocks(h) : c \in Nat /\ (b < c => b + used[b] <= c)
  BY SpotFacts
<1>2. PICK n : n = node[p].next
  OBVIOUS
<1>3. PICK m : m = node[n].next
  OBVIOUS
<1>4. /\ n \in Nodes(h) /\ n \in Nat /\ n \in DOMAIN node /\ n # p /\ n # b
      /\ b + used[b] = n
      /\ node[n].size \in Nat /\ node[n].size > 0 /\ n \in Blocks(h)
      /\ n + node[n].size \in Blocks(h) \union {End[h]}
      /\ n + node[n].size \notin Nodes(h)
      /\ \A c \in Blocks(h) : n < c => n + node[n].size <= c
      /\ m \in DOMAIN node \union {Null} /\ m # n /\ m # b
  <2>1. Touching(b, n)
    BY <1>2 DEF FreeBefore
  <2> QED BY <1>2, <1>3, <2>1, NextFacts
<1>5. PICK s \in Nat : s = used[b] + node[n].size
  BY <1>1, <1>4
<1>6. /\ m \in Nat \union {Null} /\ Null \notin Nat /\ DOMAIN node \subseteq Nat
  BY <1>4, HeapRange DEF IInv, TypeOK
<1>7. PICK rec : rec = [size |-> s, next |-> m, prev |-> p]
  OBVIOUS
<1>8. rec \in Node /\ rec.size = s /\ rec.next = m /\ rec.prev = p
  BY <1>1, <1>6, <1>7 DEF Node
<1>9. PICK f : f = NewNode(b, p, rec)
  OBVIOUS
<1>10. Spliced(f, b, p, rec)
  BY <1>1, <1>8, <1>9, NewNodeLemma
<1>11. PICK g : g = SetPrev(f, m, b)
  OBVIOUS
<1>12. Relinked(f, g, m, b)
  <2>1. /\ DOMAIN f = DOMAIN node \union {b} /\ f \in [DOMAIN f -> Node]
        /\ DOMAIN f \subseteq Nat
    BY <1>1, <1>6, <1>10 DEF Spliced
  <2>2. m \in DOMAIN f \union {Null} /\ b \in Nat \union {Null}
    BY <1>1, <1>4, <2>1
  <2> QED BY <1>11, <2>1, <2>2, SetPrevLemma
<1>13. node' = [x \in (DOMAIN node \union {b}) \ {n} |-> g[x]] /\ Gone(b)
  BY <1>2, <1>3, <1>5, <1>7, <1>9, <1>11 DEF FreeBefore, Restrict
<1>14. /\ DOMAIN node' = (DOMAIN node \union {b}) \ {n}
       /\ node' \in [DOMAIN node' -> Node]
       /\ \A x \in (DOMAIN node \union {b}) \ {n} : node'[x] = g[x]
  <2>1. /\ DOMAIN node' = (DOMAIN node \union {b}) \ {n}
        /\ \A x \in (DOMAIN node \union {b}) \ {n} : node'[x] = g[x]
    BY <1>13
  <2>2. \A x \in DOMAIN node \union {b} : g[x] \in Node
    BY <1>10, <1>12 DEF Relinked, Spliced
  <2> QED BY <1>13, <2>1, <2>2
<1>15. /\ node'[b].size = s /\ node'[b].next = m /\ node'[b].prev = p
       /\ \A x \in DOMAIN node \ {n} :
             /\ node'[x].size = node[x].size
             /\ node'[x].next = (IF x = p THEN b ELSE node[x].next)
             /\ node'[x].prev = (IF x = m THEN b ELSE node[x].prev)
  <2>1. \A x \in (DOMAIN node \union {b}) \ {n} :
            /\ node'[x].size = f[x].size /\ node'[x].next = f[x].next
            /\ node'[x].prev = (IF x = m THEN b ELSE f[x].prev)
    BY <1>10, <1>12, <1>14 DEF Relinked, Spliced
  <2>2. /\ f[b] = rec
        /\ \A x \in DOMAIN node : /\ f[x].size = node[x].size
                                  /\ f[x].next = (IF x = p THEN b ELSE node[x].next)
                                  /\ f[x].prev = node[x].prev
    BY <1>10 DEF Spliced
  <2>3. b \in (DOMAIN node \union {b}) \ {n} /\ b # m
    BY <1>4
  <2> QED BY <1>8, <2>1, <2>2, <2>3
<1>16. TypeOK'
  <2>1. DOMAIN node' \subseteq Nat /\ node' \in [DOMAIN node' -> Node]
    BY <1>1, <1>6, <1>14
  <2> QED BY <1>13, <2>1, GoneLemma DEF TypeOK
<1>17. Linked'
  BY <1>1, <1>2, <1>3, <1>4, <1>6, <1>14, <1>15, LinksAfterReplacement
<1>18. Tiled' /\ Coalesced'
  <2>0. PICK R \in SUBSET Nodes(h) : R = {n}
    BY <1>4
  <2>1. s >= Size(b) /\ b + s = n + node[n].size
    BY <1>1, <1>4, <1>5
  <2>2. \A y \in Blocks(h) : (b < y /\ y < b + s) <=> y \in R \union ({b} \ {b})
    <3>1. ASSUME NEW y \in Blocks(h), b < y, y < b + s
          PROVE  y = n
      <4>1. y \in Nat /\ n <= y /\ (n < y => b + s <= y)
        BY <1>1, <1>4, <2>1, <3>1
      <4> QED BY <1>1, <1>4, <2>1, <3>1, <4>1
    <3>2. b < n /\ n < b + s
      BY <1>1, <1>4, <2>1
    <3> QED BY <1>1, <2>0, <3>1, <3>2
  <2>3. DOMAIN node' = (DOMAIN node \union {b}) \ R
    BY <1>14, <2>0
  <2>4. \A y \in DOMAIN node \ (R \union {b}) : node'[y].size = node[y].size
    BY <1>15, <2>0
  <2>5. b \notin R /\ b \in {p, b} /\ (b = b => ~Touches(p, b))
    BY <1>4, <2>0 DEF FreeBefore
  <2>6. DOMAIN used' = DOMAIN used \ {b} /\ \A y \in DOMAIN used \ {b} : used'[y] = used[y]
    BY <1>13, GoneLemma
  <2>7. b + s \in Blocks(h) \union {End[h]} /\ b + s \notin Nodes(h)
    BY <1>4, <2>1
  <2> QED BY <1>15, <2>1, <2>2, <2>3, <2>4, <2>5, <2>6, <2>7, FreeKeepsTiles
<1> QED BY <1>16, <1>17, <1>18 DEF IInv

\* ke_free finds the heap of the block and the place in its list.
LEMMA FreeStep ==
    ASSUME IInv, NEW b \in DOMAIN used, Free(b)
    PROVE  IInv'
<1>1. PICK h \in Heap : \E p \in Nodes(h) :
          /\ HeapOf(b, h) /\ StopsAt(h, p, b)
          /\ \/ FreeAfter(p, b) \/ FreeBetween(p, b)
             \/ FreeBefore(p, b) \/ FreeAlone(p, b)
  BY DEF Free
<1>0. PICK p \in Nodes(h) :
          /\ HeapOf(b, h) /\ StopsAt(h, p, b)
          /\ \/ FreeAfter(p, b) \/ FreeBetween(p, b)
             \/ FreeBefore(p, b) \/ FreeAlone(p, b)
  BY <1>1
<1>2. Within(b, h)
  <2>1. b \in Nat
    BY DEF IInv, TypeOK
  <2>2. PICK g \in Heap : Within(b, g)
    BY DEF IInv, Tiled
  <2>3. b + used[b] <= End[g] /\ used[b] \in Nat /\ used[b] >= FreeHdr
    BY <2>2, BlockFacts
  <2>4. Base[g] <= b + UsedHdr /\ b + UsedHdr < End[g]
    BY <2>1, <2>2, <2>3, HeapRange DEF Within
  <2>5. Base[h] <= b + UsedHdr /\ b + UsedHdr <= End[h]
    BY <1>0 DEF HeapOf, InHeap
  <2>6. p \in Nat /\ Within(p, h) /\ p < b
    BY <1>0, BlockFacts DEF StopsAt
  <2>7. g # h => End[g] <= Base[h] \/ End[h] <= Base[g]
    BY MemAssumption
  <2>8. g = h
    <3>1. /\ Base[g] \in Nat /\ End[g] \in Nat /\ Base[h] \in Nat /\ End[h] \in Nat
          /\ UsedHdr \in Nat /\ Base[g] <= b /\ b < End[g] /\ Base[h] <= b
      BY <2>1, <2>2, <2>6, HeapRange DEF Within
    <3>2. ~(End[g] <= Base[h])
      BY <2>1, <3>1
    <3>3. ~(End[h] <= Base[g])
      <4>1. CASE b < End[h]
        BY <2>1, <3>1, <4>1
      <4>2. CASE ~(b < End[h])
        <5>1. b # Base[g]
          BY <2>2, BlockFacts DEF IInv, Tiled
        <5>2. b <= End[h] /\ Base[g] < b
          BY <2>1, <2>5, <3>1, <5>1
        <5> QED BY <2>1, <3>1, <5>2
      <4> QED BY <4>1, <4>2
    <3> QED BY <2>7, <3>2, <3>3
  <2> QED BY <2>2, <2>8
<1> QED BY <1>0, <1>2, FreeAfterStep, FreeBetweenStep, FreeBeforeStep, FreeAloneStep

-----------------------------------------------------------------------------
\* The size of a block is never below that of a free descriptor.
LEMMA TotalLemma ==
    ASSUME NEW n \in Nat
    PROVE  Total(n) \in Nat /\ Total(n) >= FreeHdr
BY HeapRange DEF Total

\* ke_malloc takes a node or cuts a block off it.
LEMMA MallocStep ==
    ASSUME IInv, NEW type \in Heap, NEW n \in Requests, Malloc(type, n)
    PROVE  IInv'
<1>1. PICK t \in Nat : t = Total(n) /\ t >= FreeHdr
  BY TotalLemma, MemAssumption
<1>2. PICK h \in Heap : \E a \in Nodes(h) :
          /\ BestFit(h, t, a)
          /\ IF node[a].size < t + FreeHdr THEN TakeNode(a) ELSE CutNode(a, t)
  BY <1>1 DEF Malloc
<1>0. PICK a \in Nodes(h) :
          /\ BestFit(h, t, a)
          /\ IF node[a].size < t + FreeHdr THEN TakeNode(a) ELSE CutNode(a, t)
  BY <1>2
<1>3. node[a].size \in Nat /\ FreeHdr \in Nat
  BY BlockFacts, HeapRange
<1>4. CASE node[a].size < t + FreeHdr
  <2>1. node[a].prev # Null
    BY <1>0, <1>3, <1>4 DEF BestFit, Fitting
  <2> QED BY <1>0, <1>4, <2>1, TakeStep
<1>5. CASE ~(node[a].size < t + FreeHdr)
  <2>1. node[a].size >= t + FreeHdr
    BY <1>3, <1>5
  <2> QED BY <1>0, <1>1, <1>5, <2>1, CutStep
<1> QED BY <1>4, <1>5

\* The heaps as ke_mem_init sets them up.
LEMMA InitLemma == Init => IInv
<1> SUFFICES ASSUME Init
             PROVE  IInv
  OBVIOUS
<1>1. used = << >> /\ DOMAIN used = {}
  BY DEF Init
<1>2. DOMAIN node = {Base[h] : h \in Heap}
  BY MemAssumption DEF Init, AllFree, Range
<1>3. \A g, h \in Heap : Base[g] = Base[h] => g = h
  BY HeapRange
<1>4. \A h \in Heap : node[Base[h]] = Empty(h)
  <2>1. ASSUME NEW h \in Heap
        PROVE  node[Base[h]] = Empty(h)
    <3>1. node[Base[h]] = Empty(CHOOSE g \in Heap : Base[g] = Base[h])
      BY MemAssumption DEF Init, AllFree, Range
    <3>2. (CHOOSE g \in Heap : Base[g] = Base[h]) = h
      BY <1>3
    <3> QED BY <3>1, <3>2
  <2> QED BY <2>1
<1>5. \A h \in Heap :
          /\ node[Base[h]].size = End[h] - Base[h]
          /\ node[Base[h]].next = Null /\ node[Base[h]].prev = Null
          /\ End[h] - Base[h] \in Nat /\ End[h] - Base[h] >= FreeHdr
          /\ Empty(h) \in Node
  <2>1. \A h \in Heap : End[h] - Base[h] \in Nat /\ End[h] - Base[h] >= FreeHdr
    BY MemAssumption
  <2>2. ASSUME NEW h \in Heap
        PROVE  /\ Empty(h).size = End[h] - Base[h]
               /\ Empty(h).next = Null /\ Empty(h).prev = Null
               /\ Empty(h) \in Node
    <3>1. End[h] - Base[h] \in Nat
      BY <2>1
    <3> QED BY <3>1 DEF Empty, Node
  <2> QED BY <1>4, <2>1, <2>2
<1>6. TypeOK
  <2>1. DOMAIN node \subseteq Nat
    BY <1>2, HeapRange
  <2>2. \A a \in DOMAIN node : node[a] \in Node
    BY <1>2, <1>4, <1>5
  <2>3. node = [a \in DOMAIN node |-> node[a]]
    BY DEF Init, AllFree
  <2>4. used \in [DOMAIN used -> Nat]
    BY <1>1
  <2> QED BY <1>1, <2>1, <2>2, <2>3, <2>4 DEF TypeOK
<1>7. \A h \in Heap : Nodes(h) = {Base[h]} /\ Blocks(h) = {Base[h]}
  <2>1. ASSUME NEW h \in Heap, NEW g \in Heap, Within(Base[g], h)
        PROVE  g = h
    <3>1. Within(Base[g], g) /\ Base[g] \in Int
      BY HeapRange
    <3> QED BY <2>1, <3>1, HeapRange
  <2>2. \A h \in Heap : Within(Base[h], h)
    BY HeapRange
  <2> QED BY <1>1, <1>2, <2>1, <2>2 DEF Nodes, Blocks
<1>8. Tiled
  <2>1. \A a \in DOMAIN node : \E h \in Heap : Within(a, h)
    BY <1>2, HeapRange
  <2>2. \A h \in Heap : /\ Size(Base[h]) = End[h] - Base[h]
                        /\ Base[h] + (End[h] - Base[h]) = End[h]
                        /\ Base[h] \in DOMAIN node
    BY <1>2, <1>5, HeapRange DEF Size
  <2>3. \A h \in Heap : ~(Base[h] < Base[h])
    BY HeapRange
  <2>4. ASSUME NEW h \in Heap, NEW a \in Blocks(h)
        PROVE  /\ Size(a) >= FreeHdr
               /\ a + Size(a) \in Blocks(h) \union {End[h]}
               /\ \A b \in Blocks(h) : a < b => a + Size(a) <= b
    BY <1>5, <1>7, <2>2, <2>3, <2>4
  <2> QED BY <1>1, <2>1, <2>2, <2>4 DEF Tiled
<1>9. Linked
  <2>1. \A h \in Heap : Base[h] <= Base[h]
    BY HeapRange
  <2> QED BY <1>5, <1>7, <2>1 DEF Linked
<1>10. Coalesced
  <2>1. \A h \in Heap : Base[h] + node[Base[h]].size # Base[h]
    BY <1>5, HeapRange
  <2> QED BY <1>7, <2>1 DEF Coalesced
<1> QED BY <1>6, <1>8, <1>9, <1>10 DEF IInv

-----------------------------------------------------------------------------
\* TypeOK, Tiled, Linked and Coalesced hold always, for every number, place and
\* size of the heaps and whatever is asked for and given back (ke_mem_init,
\* ke_malloc, ke_free).
THEOREM InductiveInvariant == Spec => []IInv
<1>1. Init => IInv
  BY InitLemma
<1>2. Init' => IInv'
  BY InitLemma, PTL
<1>3. IInv /\ [Next]_vars => IInv'
  <2> SUFFICES ASSUME IInv, [Next]_vars
               PROVE  IInv'
    OBVIOUS
  <2>1. ASSUME NEW n \in Requests, NEW type \in Heap, Malloc(type, n)
        PROVE  IInv'
    BY <2>1, MallocStep
  <2>2. ASSUME NEW b \in DOMAIN used, Free(b)
        PROVE  IInv'
    BY <2>2, FreeStep
  <2>3. CASE UNCHANGED vars
    <3>1. node' = node /\ used' = used
      BY <2>3 DEF vars
    <3> QED BY <3>1 DEF IInv, TypeOK, Tiled, Linked, Coalesced, Blocks, Nodes, Size,
                        Follows
  <2> QED BY <2>1, <2>2, <2>3 DEF Next, MallocFails
<1> QED BY <1>1, <1>3, PTL DEF Spec

\* Sizes and pointers keep their types (struct mblock_free, struct mblock_used).
THEOREM TypeCorrect == Spec => []TypeOK
<1>1. IInv => TypeOK
  BY DEF IInv
<1> QED BY <1>1, InductiveInvariant, PTL

\* Every word of a heap belongs to exactly one block, and every block is large
\* enough to become a node of the list when it is freed (ke_malloc, ke_free).
THEOREM HeapIsTiled == Spec => []Tiled
<1>1. IInv => Tiled
  BY DEF IInv
<1> QED BY <1>1, InductiveInvariant, PTL

\* The pointers link exactly the free blocks, in address order, in both
\* directions (the walks of ke_malloc and ke_free).
THEOREM ListIsLinked == Spec => []Linked
<1>1. IInv => Linked
  BY DEF IInv
<1> QED BY <1>1, InductiveInvariant, PTL

\* Two free blocks never lie side by side (the joins of ke_free).
THEOREM FreeBlocksAreJoined == Spec => []Coalesced
<1>1. IInv => Coalesced
  BY DEF IInv
<1> QED BY <1>1, InductiveInvariant, PTL

\* In a heap that satisfies the invariant the first node spans the heap exactly
\* when no block of the heap is used.
LEMMA FirstNodeSpans == IInv => EmptyIsSeen
<1> SUFFICES ASSUME IInv, NEW h \in Heap
             PROVE  node[Base[h]].size = End[h] - Base[h]
                        <=> \A b \in DOMAIN used : ~Within(b, h)
  BY DEF EmptyIsSeen
<1>1. /\ Base[h] \in Nodes(h) /\ Base[h] \in Blocks(h) /\ Base[h] \in Nat
      /\ End[h] \in Nat /\ node[Base[h]].size \in Nat /\ node[Base[h]].size > 0
      /\ Size(Base[h]) = node[Base[h]].size
  <2>1. Base[h] \in Nodes(h)
    BY HeapRange DEF IInv, Tiled, Nodes
  <2>2. PICK a \in Nodes(h) : a = Base[h]
    BY <2>1
  <2>3. /\ a \in Blocks(h) /\ a \in Nat /\ node[a].size \in Nat
        /\ Size(a) = node[a].size
    BY BlockFacts
  <2>4. Size(a) > 0
    BY <2>3, BlockFacts
  <2> QED BY <2>1, <2>2, <2>3, <2>4, HeapRange
<1>2. ASSUME node[Base[h]].size = End[h] - Base[h], NEW b \in DOMAIN used, Within(b, h)
      PROVE  FALSE
  <2>1. b \in Blocks(h) /\ b \notin DOMAIN node /\ b \in Nat
    BY <1>2, BlockFacts
  <2>2. b # Base[h] /\ Base[h] <= b /\ b < End[h]
    BY <1>1, <1>2, <2>1 DEF Nodes, Within
  <2>3. Base[h] + Size(Base[h]) <= b
    BY <1>1, <2>1, <2>2, BlockFacts
  <2> QED BY <1>1, <1>2, <2>1, <2>2, <2>3
<1>3. ASSUME \A b \in DOMAIN used : ~Within(b, h)
      PROVE  node[Base[h]].size = End[h] - Base[h]
  <2>1. Blocks(h) = Nodes(h)
    BY <1>3 DEF Blocks, Nodes
  <2>2. Base[h] + node[Base[h]].size \in Nodes(h) \union {End[h]}
    BY <1>1, <2>1, BlockFacts
  <2>3. Base[h] + node[Base[h]].size \notin Nodes(h)
    BY <1>1 DEF IInv, Coalesced
  <2> QED BY <1>1, <2>2, <2>3
<1> QED BY <1>2, <1>3

\* ke_mem_is_empty tells the truth: the size of the first node is that of the
\* heap exactly when nothing of the heap is in use.
THEOREM EmptyHeapIsSeen == Spec => []EmptyIsSeen
BY InductiveInvariant, FirstNodeSpans, PTL
=============================================================================
