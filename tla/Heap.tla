-------------------------------- MODULE Heap --------------------------------
(***************************************************************************)
(* The small memory management algorithm behind rt_malloc (mem.c): a chain *)
(* of items, each a header with the offsets of its neighbours and a used   *)
(* bit, and a pointer to the lowest free item.  Offsets are counted in     *)
(* units of RT_ALIGN_SIZE; requests are aligned already.  The heap lock    *)
(* makes an operation one step.                                            *)
(***************************************************************************)
EXTENDS Naturals, FiniteSets, FiniteSetsExt

CONSTANTS
    HeapSize,       \* mem_size_aligned
    Header,         \* SIZEOF_STRUCT_MEM
    MinSize,        \* MIN_SIZE_ALIGNED
    Requests        \* the sizes asked for

ASSUME HeapConstants ==
    /\ {HeapSize, Header, MinSize} \subseteq Nat \ {0} /\ MinSize <= HeapSize
    /\ Requests \subseteq 1..HeapSize

VARIABLES
    heap,           \* the headers by offset; lfree; the used and max counters
    live            \* the size asked for, by offset of a block handed out

heapVars == <<heap, live>>

End == HeapSize + Header                    \* heap_end
IsUsed(x, p) == x.item[p].used
Room(x, p) == x.item[p].next - (p + Header)     \* the user data size of an item

-----------------------------------------------------------------------------
\* Joins the item at p with the item q behind it, which loses its header.
Join(x, p, q) ==
    LET after == x.item[q].next
    IN [x EXCEPT !.item = [r \in DOMAIN @ \ {q} |->
                             IF r = p THEN [@[p] EXCEPT !.next = after]
                             ELSE IF r = after THEN [@[r] EXCEPT !.prev = p]
                             ELSE @[r]],
                 !.lfree = IF @ = q THEN p ELSE @]

\* Mutant: a free item is joined with the next one only.
Mut_plug_forward(x, p) ==
    LET n == x.item[p].next
    IN IF ~IsUsed(x, n) /\ n # End THEN Join(x, p, n) ELSE x

plug_holes(x, p) ==
    LET n == x.item[p].next
        y == IF ~IsUsed(x, n) /\ n # End THEN Join(x, p, n) ELSE x
        b == y.item[p].prev
    IN IF b # p /\ ~IsUsed(y, b) THEN Join(y, b, p) ELSE y

\* Ends the item at p after size units; the rest becomes a free item.
Split(x, p, size) ==
    LET p2 == p + Header + size
        n == x.item[p].next
    IN [x EXCEPT !.item = [r \in DOMAIN @ \cup {p2} |->
                             IF r = p2 THEN [used |-> FALSE, next |-> n, prev |-> p]
                             ELSE IF r = p THEN [@[p] EXCEPT !.next = p2]
                             ELSE IF r = n /\ n # End THEN [@[n] EXCEPT !.prev = p2]
                             ELSE @[r]]]

\* The loop from lfree to the first free item that is large enough.
Fitting(x, size) ==
    {p \in DOMAIN x.item : p >= x.lfree /\ p <= HeapSize - size
                             /\ ~IsUsed(x, p) /\ Room(x, p) >= size}

\* lfree moves to the next free item, or to the end.
NextFree(x) ==
    Min({p \in DOMAIN x.item : p >= x.lfree /\ (p = End \/ ~IsUsed(x, p))})

AtLeastMin(size) == IF size < MinSize THEN MinSize ELSE size

\* rt_smem_alloc once an item was found.
AllocAt(x, p, size) ==
    LET y == IF Room(x, p) >= size + Header + MinSize THEN Split(x, p, size) ELSE x
        used == x.used + (y.item[p].next - p)
        z == [y EXCEPT !.item[p].used = TRUE, !.used = used,
                       !.max = IF @ < used THEN used ELSE @]
    IN IF p = z.lfree THEN [z EXCEPT !.lfree = NextFree(z)] ELSE z

FirstFit(size) == Min(Fitting(heap, size))

rt_smem_free(x, p) ==
    plug_holes([x EXCEPT !.item[p].used = FALSE,
                         !.lfree = IF p < @ THEN p ELSE @,
                         !.used = @ - (x.item[p].next - p)], p)

-----------------------------------------------------------------------------
HeapAlloc(n) ==
    LET size == AtLeastMin(n)
        p == FirstFit(size)
    IN /\ Fitting(heap, size) # {}
       /\ heap' = AllocAt(heap, p, size)
       /\ live' = [q \in DOMAIN live \cup {p} |-> IF q = p THEN n ELSE live[q]]

HeapFree(p) ==
    /\ p \in DOMAIN live
    /\ heap' = rt_smem_free(heap, p)
    /\ live' = [q \in DOMAIN live \ {p} |-> live[q]]

\* rt_smem_realloc: the block shrinks in place when another item fits behind it ...
HeapShrink(p, n) ==
    /\ p \in DOMAIN live
    /\ n + Header + MinSize < Room(heap, p)
    /\ LET p2 == p + Header + n
           y == Split(heap, p, n)
       IN heap' = plug_holes([y EXCEPT !.used = @ - (Room(heap, p) - n),
                                       !.lfree = IF p2 < @ THEN p2 ELSE @], p2)
    /\ live' = [live EXCEPT ![p] = n]

\* ... and is moved otherwise, unless its size is the same.
HeapMove(p, n) ==
    LET size == AtLeastMin(n)
        q == FirstFit(size)
    IN /\ p \in DOMAIN live
       /\ Room(heap, p) # n /\ ~(n + Header + MinSize < Room(heap, p))
       /\ Fitting(heap, size) # {}
       /\ heap' = rt_smem_free(AllocAt(heap, q, size), p)
       /\ live' = [r \in (DOMAIN live \ {p}) \cup {q} |-> IF r = q THEN n ELSE live[r]]

\* rt_smem_init.
HeapInit ==
    /\ heap = [item |-> [p \in {0, End} |-> [used |-> p = End, next |-> End,
                                             prev |-> p]],
               lfree |-> 0, used |-> 0, max |-> 0]
    /\ live = [p \in {} |-> 0]

HeapNext ==
    \/ \E n \in Requests : HeapAlloc(n)
    \/ \E p \in DOMAIN live :
        HeapFree(p) \/ \E n \in Requests : HeapShrink(p, n) \/ HeapMove(p, n)

HeapSpec == HeapInit /\ [][HeapNext]_heapVars

-----------------------------------------------------------------------------
\* A heap in memory: at each item a header, with offsets inside the heap.
HeapTyped(x) ==
    /\ x \in [item : {x.item}, lfree : 0..End, used : 0..End, max : 0..End]
    /\ DOMAIN x.item \subseteq 0..End
    /\ x.item \in [DOMAIN x.item -> [used : BOOLEAN, next : 0..End, prev : 0..End]]

\* The items follow each other without gap or overlap to the end of the heap.
Chained(x) ==
    /\ {0, End} \subseteq DOMAIN x.item /\ IsUsed(x, End) /\ x.item[0].prev = 0
    /\ \A p \in DOMAIN x.item \ {End} :
        LET n == x.item[p].next
        IN /\ n \in DOMAIN x.item /\ n >= p + Header
           /\ \A q \in DOMAIN x.item : q <= p \/ q >= n
           /\ n # End => x.item[n].prev = p

Free(x) == {p \in DOMAIN x.item : ~IsUsed(x, p)}
Blocks(x) == {p \in DOMAIN x.item \ {End} : IsUsed(x, p)}

\* No two free items are neighbours.
FreeApart(x) == \A p \in Free(x) : x.item[p].next \notin Free(x)

\* The units inside the blocks, headers included.
UsedUnits(x) == {u \in 0..(End - 1) : \E p \in Blocks(x) : u \in p..(x.item[p].next - 1)}

\* A heap that every operation leaves behind: lfree is the lowest free item, so
\* that an allocation fails only when no free item is large enough, and the
\* counters are exact.
Tiled(x) ==
    /\ HeapTyped(x) /\ Chained(x) /\ FreeApart(x)
    /\ x.lfree = Min({End} \cup Free(x))
    /\ x.used = Cardinality(UsedUnits(x)) /\ x.used <= x.max

\* The items tile the heap and no two free ones are neighbours (mem.c:135 and 152;
\* the allocation relies on it, mem.c:361); the blocks handed out are exactly the
\* used items, each with room for what was asked.
HeapConsistent ==
    /\ Tiled(heap)
    /\ Blocks(heap) = DOMAIN live
    /\ \A p \in DOMAIN live : Room(heap, p) >= live[p]

=============================================================================
