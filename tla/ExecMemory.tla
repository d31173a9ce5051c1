----------------------------- MODULE ExecMemory -----------------------------
(***************************************************************************)
(* The memory pools of the kernel (exec_memory.c).  A pool is a list of    *)
(* puddles, each with the list of its free nodes in the order of their     *)
(* addresses; a fixed pool is one puddle.  Nothing records which blocks    *)
(* are in use: a block goes back by its address and its size, and the      *)
(* puddle it came from is found by comparing addresses.  Sizes are counted *)
(* in halves of a node, so that Align is 2 and an odd size is rounded.     *)
(***************************************************************************)
EXTENDS Integers, Sequences, FiniteSets, SequencesExt

CONSTANTS Sizes,     \* the sizes that are asked for
          Places,    \* the addresses at which TAlloc may put a puddle
          FixedSize, \* TPool_StaticSize
          PudSize, ThresSize,  \* TPool_PudSize, TPool_ThresSize
          MaxBlocks, \* bound: blocks in use at a time
          MaxPud     \* bound: how large AutoAdapt may make a puddle

TNULL == 0
Align == 2
Rounded(size) == ((size + Align - 1) \div Align) * Align

ASSUME MemoryAssumption == /\ Sizes \subseteq Nat \ {0}
                           /\ Places \subseteq Nat \ {TNULL}
                           /\ {FixedSize, PudSize, ThresSize} \subseteq Nat
                           /\ FixedSize >= Align /\ ThresSize > 0
                           /\ PudSize >= ThresSize

\* TAlloc's memory is memory no other puddle has: the places are as far apart
\* as a puddle can be long.
ASSUME PlacesAssumption ==
    /\ Places # {} /\ MaxPud \in Nat
    /\ \A size \in Sizes \cup {FixedSize, MaxPud} : \A p, q \in Places :
          p < q => p + Rounded(size) <= q

VARIABLES flags,   \* tpl_Flags: the subset of FIXED, LOWFRAG, AUTO
          list,    \* tpl_List: the puddles
          pudsize, thressize, \* tpl_PudSize, tpl_ThresSize
          blocks   \* what the callers hold: [mem, size]

vars == <<flags, list, pudsize, thressize, blocks>>
----------------------------------------------------------------------------
(* One puddle. *)

Node(at, size) == [at |-> at, size |-> size]
End(node) == node.at + node.size

\* the header is in front of the memory
MemHead(place, size, large) ==
    LET whole == (size \div Align) * Align
    IN  [mem |-> place, end |-> place + whole, free |-> whole,
         nodes |-> <<Node(place, whole)>>, large |-> large]

\* the free node taken: the first that is large enough, or the smallest
Fits(nodes, size) == {i \in DOMAIN nodes : nodes[i].size >= size}
Chosen(nodes, size) ==
    CHOOSE i \in Fits(nodes, size) : \A j \in Fits(nodes, size) :
        IF "LOWFRAG" \in flags /\ nodes[i].size # nodes[j].size
        THEN nodes[i].size < nodes[j].size
        ELSE i <= j

\* what is left of node i once its first size units are gone
Cut(nodes, i, size) ==
    IF nodes[i].size = size THEN RemoveAt(nodes, i)
    ELSE [nodes EXCEPT ![i] = Node(@.at + size, @.size - size)]

NotGranted(puddle) == [puddle |-> puddle, mem |-> TNULL]
StaticAlloc(puddle, asked) ==
    LET size == Rounded(asked)
        i == Chosen(puddle.nodes, size)
    IN  IF puddle.free < size \/ Fits(puddle.nodes, size) = {}
        THEN NotGranted(puddle)
        ELSE [puddle |-> [puddle EXCEPT !.nodes = Cut(@, i, size),
                                        !.free = @ - size],
              mem |-> puddle.nodes[i].at]

\* the number of free nodes that do not lie behind an address
Below(nodes, mem) ==
    CHOOSE n \in 0..Len(nodes) : /\ \A i \in 1..n : nodes[i].at <= mem
                                 /\ n < Len(nodes) => mem < nodes[n + 1].at

FreeKeepsNext(puddle, mem, asked) ==
    LET size == Rounded(asked)
        n == Below(puddle.nodes, mem)
        prev == n > 0 /\ End(puddle.nodes[n]) = mem
        at == IF prev THEN puddle.nodes[n].at ELSE mem
        from == IF prev THEN n - 1 ELSE n
    IN  [puddle EXCEPT
           !.free = @ + size,
           !.nodes = SubSeq(@, 1, from) \o <<Node(at, mem + size - at)>>
                     \o SubSeq(@, n + 1, Len(@))]

StaticFree(puddle, mem, asked) ==
    LET size == Rounded(asked)
        n == Below(puddle.nodes, mem)
        prev == n > 0 /\ End(puddle.nodes[n]) = mem
        next == /\ n < Len(puddle.nodes)
                /\ mem + size = puddle.nodes[n + 1].at
        at == IF prev THEN puddle.nodes[n].at ELSE mem
        end == IF next THEN End(puddle.nodes[n + 1]) ELSE mem + size
    IN  [puddle EXCEPT
           !.free = @ + size,
           !.nodes = SubSeq(@, 1, IF prev THEN n - 1 ELSE n)
                     \o <<Node(at, end - at)>>
                     \o SubSeq(@, IF next THEN n + 2 ELSE n + 1, Len(@))]

\* "notfound": another place in the same puddle
StaticMove(puddle, mem, old, new) ==
    LET got == StaticAlloc(puddle, new)
    IN  IF got.mem = TNULL THEN got
        ELSE [got EXCEPT !.puddle = StaticFree(@, mem, old)]

\* The first free node behind the block decides.  A block with no free
\* node behind it is moved, also when it is to become smaller.
StaticRealloc(puddle, mem, oldsize, newsize) ==
    LET old == Rounded(oldsize)
        new == Rounded(newsize)
        nodes == puddle.nodes
        n == Below(nodes, mem) + 1
        behind == n <= Len(nodes)
        touches == behind /\ nodes[n].at = mem + old
        stays == new < old \/ (touches /\ nodes[n].size >= new - old)
        rest == Node(mem + new, old - new)
        kept == IF ~touches THEN InsertAt(nodes, n, rest)
                ELSE IF nodes[n].size = new - old THEN RemoveAt(nodes, n)
                ELSE [nodes EXCEPT ![n] =
                        Node(mem + new, @.size + old - new)]
    IN  IF new = old THEN [puddle |-> puddle, mem |-> mem]
        ELSE IF ~behind \/ ~stays THEN StaticMove(puddle, mem, old, new)
        ELSE [puddle |-> [puddle EXCEPT !.free = @ + old - new,
                                        !.nodes = kept],
              mem |-> mem]
----------------------------------------------------------------------------
(* The pool.  An operation maps the pool to the pool and a block, or TNULL;*)
(* place is the answer of TAlloc, should it be asked.                      *)

Pool == [list |-> list, pud |-> pudsize, thres |-> thressize]
Replaced(puddles, i, puddle) == [puddles EXCEPT ![i] = puddle]

\* tends to four times the usual size, and eight times that for a puddle
Adapted(pool, size) ==
    LET t == pool.thres + (size - pool.thres \div 4) \div 4
        p == pool.pud + (t - pool.pud \div 8) \div 8
    IN  IF "AUTO" \in flags
        THEN [pool EXCEPT !.thres = t, !.pud = IF t > p THEN t ELSE p]
        ELSE pool

\* the puddles that are asked, up to the first LARGE one, and which serve
Asked(puddles) ==
    {i \in DOMAIN puddles : \A j \in 1..i : ~puddles[j].large}
Serving(puddles, size) ==
    {i \in Asked(puddles) : StaticAlloc(puddles[i], size).mem # TNULL}
First(S) == CHOOSE i \in S : \A j \in S : i <= j

NewUnrounded(pool, size, place) ==
    LET large == size > Rounded(pool.thres)
        got == StaticAlloc(MemHead(place, IF large THEN Rounded(size)
                                          ELSE pool.pud, large), size)
    IN  IF place = TNULL THEN [pool |-> pool, mem |-> TNULL]
        ELSE [pool |-> [pool EXCEPT
                          !.list = IF large THEN Append(@, got.puddle)
                                            ELSE <<got.puddle>> \o @],
              mem |-> got.mem]

NewPuddle(pool, size, place) ==
    LET large == size > Rounded(pool.thres)
        got == StaticAlloc(MemHead(place, IF large THEN Rounded(size)
                                          ELSE Rounded(pool.pud), large),
                           size)
    IN  IF place = TNULL THEN [pool |-> pool, mem |-> TNULL]
        ELSE [pool |-> [pool EXCEPT
                          !.list = IF large THEN Append(@, got.puddle)
                                            ELSE <<got.puddle>> \o @],
              mem |-> got.mem]

From(pool, i, got) ==
    [pool |-> [pool EXCEPT !.list = Replaced(@, i, got.puddle)],
     mem |-> got.mem]

AllocPool(old, size, place) ==
    LET pool == Adapted(old, size)
        serving == Serving(pool.list, size)
        i == First(serving)
    IN  IF "FIXED" \in flags
        THEN From(old, 1, StaticAlloc(old.list[1], size))
        ELSE IF size <= Rounded(pool.thres) /\ serving # {}
        THEN From(pool, i, StaticAlloc(pool.list[i], size))
        ELSE NewPuddle(pool, size, place)

\* the puddle of a block, by its addresses
Holder(puddles, mem, size) ==
    First({i \in DOMAIN puddles : /\ mem >= puddles[i].mem
                                  /\ mem + size <= puddles[i].end})

\* a puddle that became free is flushed, another one moves up
Up(puddles, i) ==
    IF i = 1 THEN puddles
    ELSE [puddles EXCEPT ![i - 1] = puddles[i], ![i] = puddles[i - 1]]
Returned(puddles, mem, size) ==
    LET i == Holder(puddles, mem, size)
        puddle == StaticFree(puddles[i], mem, size)
    IN  IF "FIXED" \in flags THEN Replaced(puddles, i, puddle)
        ELSE IF puddle.free = puddle.end - puddle.mem
        THEN RemoveAt(puddles, i)
        ELSE Up(Replaced(puddles, i, puddle), i)

RegularInPlace(puddles, i) == [puddles EXCEPT ![i].large = FALSE]

\* a LARGE puddle that serves a realloc itself is LARGE no more, and first
Regular(puddles, i) ==
    IF ~puddles[i].large THEN puddles
    ELSE <<[puddles[i] EXCEPT !.large = FALSE]>> \o RemoveAt(puddles, i)

ReallocPool(pool, mem, oldsize, newsize, place) ==
    LET i == Holder(pool.list, mem, oldsize)
        same == StaticRealloc(pool.list[i], mem, oldsize, newsize)
        here == From(pool, i, same)
        other == AllocPool(pool, newsize, place)
    IN  IF "FIXED" \in flags THEN here
        ELSE IF same.mem # TNULL
        THEN [here EXCEPT !.pool.list = Regular(@, i)]
        ELSE IF other.mem = TNULL THEN other
        ELSE [other EXCEPT !.pool.list = Returned(@, mem, oldsize)]
----------------------------------------------------------------------------
Init == /\ flags \in {{"FIXED"}, {"FIXED", "LOWFRAG"}, {}, {"LOWFRAG"},
                      {"AUTO"}, {"AUTO", "LOWFRAG"}}
        /\ list = IF "FIXED" \in flags
                  THEN <<MemHead(First(Places), FixedSize, FALSE)>>
                  ELSE <<>>
        /\ pudsize = PudSize /\ thressize = ThresSize
        /\ blocks = {}

\* TAlloc fails, or gives a free address: which one makes no difference
Given == LET unused == Places \ {list[i].mem : i \in DOMAIN list}
         IN  {TNULL} \cup {p \in unused : \A q \in unused : p <= q}

Becomes(pool) == /\ pool.pud <= MaxPud
                 /\ list' = pool.list
                 /\ pudsize' = pool.pud /\ thressize' = pool.thres
                 /\ UNCHANGED flags

Block(mem, size) == IF mem = TNULL THEN {} ELSE {[mem |-> mem, size |-> size]}

Alloc == \E size \in Sizes, place \in Given :
    LET got == AllocPool(Pool, size, place)
    IN  /\ Cardinality(blocks) < MaxBlocks
        /\ Becomes(got.pool)
        /\ blocks' = blocks \cup Block(got.mem, size)

Free == \E b \in blocks :
    /\ list' = Returned(list, b.mem, b.size)
    /\ blocks' = blocks \ {b}
    /\ UNCHANGED <<flags, pudsize, thressize>>

\* a realloc that fails leaves the block as it was
Realloc == \E b \in blocks, size \in Sizes, place \in Given :
    LET got == ReallocPool(Pool, b.mem, b.size, size, place)
    IN  /\ Becomes(got.pool)
        /\ blocks' = IF got.mem = TNULL THEN blocks
                     ELSE (blocks \ {b}) \cup Block(got.mem, size)

Next == Alloc \/ Free \/ Realloc
Spec == Init /\ [][Next]_vars
----------------------------------------------------------------------------
(* Every unit of a puddle is in a free node or in a caller's block, and in *)
(* one only: the free nodes are in the order of their addresses, no two of *)
(* them touch, and tmh_Free is what they hold.  A block outside of every   *)
(* puddle, or in a puddle that was given back, would be a use of memory    *)
(* that is not the pool's.  A caller's data is therefore never overwritten *)
(* by a node or by another caller's (exec_staticalloc, exec_staticfree,    *)
(* exec_staticrealloc, exec_FreePool).                                     *)
Within(puddle) == {b \in blocks : /\ puddle.mem <= b.mem
                                  /\ b.mem + Rounded(b.size) <= puddle.end}
FreeUnits(nodes) ==
    UNION {nodes[n].at..(End(nodes[n]) - 1) : n \in DOMAIN nodes}
Covers(puddle, u) ==
    Cardinality({i \in DOMAIN puddle.nodes :
                   puddle.nodes[i].at <= u /\ u < End(puddle.nodes[i])})
    + Cardinality({b \in Within(puddle) :
                     b.mem <= u /\ u < b.mem + Rounded(b.size)})
Held(puddle) == Cardinality(FreeUnits(puddle.nodes))

MemoryIsTiled ==
    /\ \A b \in blocks : \E i \in DOMAIN list : b \in Within(list[i])
    /\ \A i \in DOMAIN list :
         /\ \A u \in list[i].mem..(list[i].end - 1) : Covers(list[i], u) = 1
         /\ \A n \in 1..(Len(list[i].nodes) - 1) :
              End(list[i].nodes[n]) < list[i].nodes[n + 1].at
         /\ list[i].free = Held(list[i])

(* A pool that is not fixed keeps no puddle without a block: the last block*)
(* that leaves a puddle gives the puddle back, whichever way it leaves     *)
(* (exec_FreePool, exec_ReallocPool), and a puddle that was asked from     *)
(* TAlloc is large enough for the block it was asked for, also where the   *)
(* threshold and the puddle size adapt themselves (exec_AllocPool).        *)
PuddlesAreUsed == "FIXED" \notin flags =>
                      \A i \in DOMAIN list : Within(list[i]) # {}

(* The search for free memory stops at the first LARGE puddle            *)
(* (exec_AllocPool), so every puddle that may serve stands before it, and *)
(* no free memory is hidden: neither a puddle that moves up nor one that  *)
(* stops being LARGE breaks the order (TNodeUp, exec_ReallocPool).        *)
LargeOnesLast == \A i, j \in DOMAIN list :
                     list[i].large /\ i < j => list[j].large
=============================================================================
