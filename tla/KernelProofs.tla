----------------------------- MODULE KernelProofs -----------------------------
(***************************************************************************)
(* What holds of the kernel's pools of memory and of its waits: a pool is  *)
(* tiled by its free nodes and the callers' blocks, for any sizes, places  *)
(* and number of blocks; a lock has one owner, and no wait leaves a        *)
(* signal, a request or a message that the next wait would take for its    *)
(* own, for any set of tasks.                                              *)
(***************************************************************************)
EXTENDS ExecMemory, ExecSync, ListProofs


-----------------------------------------------------------------------------
(* The inductive invariant. *)

FreeNode == [at : Nat, size : Nat]

\* Free nodes in the order of their addresses, no two touching, in lo..hi-1.
Ordered(nodes, lo, hi) ==
    /\ nodes \in Seq(FreeNode)
    /\ \A i \in DOMAIN nodes :
          nodes[i].size > 0 /\ lo <= nodes[i].at /\ End(nodes[i]) <= hi
    /\ \A i, j \in DOMAIN nodes : i < j => End(nodes[i]) < nodes[j].at

Puddle == [mem : Nat, end : Nat, free : Nat, nodes : Seq(FreeNode),
           large : BOOLEAN]
Whole(p) == p.mem..(p.end - 1)

\* A puddle at a place of TAlloc's that reaches into no other place.
Placed(p) == /\ p.mem \in Places /\ p.mem < p.end
             /\ \A q \in Places : p.mem < q => p.end <= q
Sound(p) == /\ p \in Puddle /\ Placed(p)
            /\ Ordered(p.nodes, p.mem, p.end) /\ p.free = Held(p)

Units(mem, size) == mem..(mem + Rounded(size) - 1)
Of(b) == Units(b.mem, b.size)
Used(B) == UNION {Of(b) : b \in B}

\* The puddles S are sound and at places of their own.  Each of the blocks B
\* is in one of them and shares no unit with another block, and what no block
\* uses is free; a LARGE puddle is one block.
Blocks == [mem : Nat, size : Sizes]
Tiles(S, B) ==
    /\ \A p \in S : Sound(p)
    /\ \A p, q \in S : p.mem = q.mem => p = q
    /\ B \subseteq Blocks
    /\ \A b \in B : \E p \in S : Of(b) \subseteq Whole(p)
    /\ \A b, c \in B : b # c => Of(b) \cap Of(c) = {}
    /\ \A p \in S : FreeUnits(p.nodes) = Whole(p) \ Used(B)
    /\ \A p \in S : p.large => \E b \in B : Of(b) = Whole(p)
Busy(S, B) == \A p \in S : \E b \in B : Of(b) \subseteq Whole(p)

\* No puddle stands twice in the list, and the LARGE ones are last.
Lined(L) ==
    /\ L \in Seq(Puddle)
    /\ \A i, j \in DOMAIN L : L[i].mem = L[j].mem => i = j
    /\ \A i, j \in DOMAIN L : L[i].large /\ i < j => L[j].large

PoolOK(L, B) == /\ Lined(L) /\ Tiles(ToSet(L), B)
                /\ IF "FIXED" \in flags THEN Len(L) = 1 /\ ~L[1].large
                                        ELSE Busy(ToSet(L), B)

MemInv == /\ thressize \in Nat /\ pudsize \in Nat
          /\ 0 < thressize /\ thressize <= pudsize
          /\ PoolOK(list, blocks)

-----------------------------------------------------------------------------
(* Numbers. *)

\* A set of positions has a first one: the one of rank 1.
LEMMA PositionsHaveFirst ==
    ASSUME NEW n \in Nat, NEW I \in SUBSET (1..n), I # {}
    PROVE  \E i \in I : \A j \in I : i <= j
<1>1. IsFiniteSet(I) /\ Cardinality(I) \in Nat BY PositionsFinite
<1>2. Cardinality(I) # 0 BY <1>1, FS_EmptySet
<1>3. 1 \in 1..Cardinality(I) BY <1>1, <1>2
<1>4. PICK i \in I : Rank(I, i) = 1 BY <1>3, RankOnto
<1>5. ASSUME NEW j \in I, j < i PROVE FALSE
  <2>1. Rank(I, j) < Rank(I, i) BY <1>5, RankGrows
  <2>2. Rank(I, j) \in 1..Cardinality(I) BY RankBounds
  <2> QED BY <1>1, <1>4, <2>1, <2>2
<1>6. \A j \in I : j \in Nat /\ i \in Nat OBVIOUS
<1> QED BY <1>5, <1>6

\* A set of natural numbers has a least element.
LEMMA FirstIsLeast ==
    ASSUME NEW S \in SUBSET Nat, S # {}
    PROVE  First(S) \in S /\ \A j \in S : First(S) <= j
<1>1. PICK x \in S : TRUE OBVIOUS
<1> DEFINE I == {k \in 1..(x + 1) : k - 1 \in S}
<1>2. x + 1 \in I /\ I \in SUBSET (1..(x + 1)) /\ x + 1 \in Nat BY <1>1
<1>b. \A k : k \in I <=> k \in 1..(x + 1) /\ k - 1 \in S OBVIOUS
<1> HIDE DEF I
<1>3. PICK i \in I : \A j \in I : i <= j
      BY <1>2, PositionsHaveFirst
<1>4. i - 1 \in S /\ i \in 1..(x + 1) BY <1>3, <1>b
<1>5. ASSUME NEW j \in S PROVE i - 1 <= j
  <2>1. CASE j > x BY <1>4, <2>1
  <2>2. CASE j <= x
    <3>1. j + 1 \in 1..(x + 1) /\ (j + 1) - 1 = j BY <2>2
    <3>2. j + 1 \in I BY <3>1, <1>b
    <3> QED BY <1>3, <1>4, <3>2
  <2> QED BY <2>1, <2>2
<1> QED BY <1>4, <1>5 DEF First

LEMMA RoundedUp ==
    ASSUME NEW s \in Nat
    PROVE  /\ Rounded(s) \in Nat /\ s <= Rounded(s) /\ Rounded(s) <= s + 1
           /\ Rounded(Rounded(s)) = Rounded(s)
           /\ (Rounded(s) \div Align) * Align = Rounded(s)
           /\ \A t \in Nat : s <= Rounded(t) => Rounded(s) <= Rounded(t)
BY DEF Rounded, Align

-----------------------------------------------------------------------------
(* Lists of free nodes. *)

\* A unit of a node.
Has(node, u) == u \in node.at..(End(node) - 1)

LEMMA FreeUnit ==
    ASSUME NEW nodes, NEW u
    PROVE  u \in FreeUnits(nodes) <=> \E n \in DOMAIN nodes : Has(nodes[n], u)
BY DEF FreeUnits, Has

LEMMA NodesAre ==
    ASSUME NEW s \in Seq(FreeNode)
    PROVE  /\ Len(s) \in Nat /\ DOMAIN s = 1..Len(s)
           /\ \A i \in 1..Len(s) : /\ s[i] \in FreeNode /\ s[i].at \in Nat
                                   /\ s[i].size \in Nat
                                   /\ End(s[i]) = s[i].at + s[i].size
<1>1. Len(s) \in Nat /\ DOMAIN s = 1..Len(s) BY LenProperties
<1>2. ASSUME NEW i \in 1..Len(s) PROVE s[i] \in FreeNode BY ElementOfSeq
<1>3. \A x \in FreeNode : x.at \in Nat /\ x.size \in Nat BY DEF FreeNode
<1> QED BY <1>1, <1>2, <1>3 DEF End

\* A list with its items behind a and before b replaced, by one or by none.
Spliced(s, a, x, b) == SubSeq(s, 1, a) \o <<x>> \o SubSeq(s, b, Len(s))
Dropped(s, a, b) == SubSeq(s, 1, a) \o SubSeq(s, b, Len(s))

\* What t then is.
SplicedIs(s, a, x, b, t) ==
    /\ Len(t) = a + 1 + (Len(s) + 1 - b)
    /\ \A i \in 1..Len(t) :
          t[i] = IF i <= a THEN s[i] ELSE IF i = a + 1 THEN x
                 ELSE s[i - (a + 2) + b]
DroppedIs(s, a, b, t) ==
    /\ Len(t) = a + (Len(s) + 1 - b)
    /\ \A i \in 1..Len(t) :
          t[i] = IF i <= a THEN s[i] ELSE s[i - (a + 1) + b]

LEMMA SplicedItems ==
    ASSUME NEW S, NEW s \in Seq(S), NEW x \in S,
           NEW a \in 0..Len(s), NEW b \in (a + 1)..(Len(s) + 1), NEW t,
           t = Spliced(s, a, x, b)
    PROVE  t \in Seq(S) /\ SplicedIs(s, a, x, b, t)
<1>1. Len(s) \in Nat /\ a \in Int /\ b \in Int /\ a \in Nat BY LenProperties
<1>2. \A i \in 1..Len(s) : s[i] \in S BY ElementOfSeq
<1> DEFINE p == SubSeq(s, 1, a)
           q == SubSeq(s, b, Len(s))
<1>3. p \in Seq(S) /\ Len(p) = a /\ \A i \in 1..a : p[i] = s[i]
  <2>1. \A i \in 1..a : s[i] \in S BY <1>1, <1>2
  <2>2. /\ p \in Seq(S) /\ Len(p) = IF 1 <= a THEN a - 1 + 1 ELSE 0
        /\ \A i \in 1..(a - 1 + 1) : p[i] = s[1 + i - 1]
        BY <1>1, <2>1, SubSeqProperties
  <2> QED BY <1>1, <2>2
<1>4. /\ q \in Seq(S) /\ Len(q) = Len(s) + 1 - b
      /\ \A i \in 1..(Len(s) + 1 - b) : q[i] = s[b + i - 1]
  <2>1. \A i \in b..Len(s) : s[i] \in S BY <1>1, <1>2
  <2>2. /\ q \in Seq(S)
        /\ Len(q) = IF b <= Len(s) THEN Len(s) - b + 1 ELSE 0
        /\ \A i \in 1..(Len(s) - b + 1) : q[i] = s[b + i - 1]
        BY <1>1, <2>1, SubSeqProperties
  <2> QED BY <1>1, <2>2
<1>5. <<x>> \in Seq(S) /\ Len(<<x>>) = 1 /\ <<x>>[1] = x OBVIOUS
<1> HIDE DEF p, q
<1> DEFINE r == p \o <<x>>
<1>6. /\ r \in Seq(S) /\ Len(r) = a + 1
      /\ \A i \in 1..(a + 1) : r[i] = IF i <= a THEN p[i] ELSE <<x>>[i - a]
      BY <1>3, <1>5, ConcatProperties
<1>7. r[a + 1] = x BY <1>1, <1>5, <1>6
<1> HIDE DEF r
<1>8. t = r \o q BY DEF p, q, r, Spliced
<1> DEFINE n == Len(s) + 1 - b
<1>9. /\ t \in Seq(S) /\ Len(t) = a + 1 + n
      /\ \A i \in 1..Len(t) :
            t[i] = IF i <= a + 1 THEN r[i] ELSE q[i - (a + 1)]
  <2>1. r \in Seq(S) /\ q \in Seq(S) BY <1>4, <1>6
  <2>2. /\ r \o q \in Seq(S) /\ Len(r \o q) = Len(r) + Len(q)
        /\ \A i \in 1..(Len(r) + Len(q)) :
              (r \o q)[i] = IF i <= Len(r) THEN r[i] ELSE q[i - Len(r)]
        BY <2>1, ConcatProperties
  <2> QED BY <1>4, <1>6, <1>8, <2>2
<1>a. n \in Nat /\ a \in Nat BY <1>1
<1>c. Len(s) + 1 = b + n BY <1>1
<1>d. b \in Nat BY <1>1
<1> HIDE DEF n
<1>e. Len(t) = a + 1 + n BY <1>9
<1>b. \A i \in 1..Len(t) : i \in Nat /\ i <= a + 1 + n BY <1>a, <1>e
<1>10. ASSUME NEW i \in 1..Len(t)
       PROVE  t[i] = IF i <= a THEN s[i] ELSE IF i = a + 1 THEN x
                     ELSE s[i - (a + 2) + b]
  <2>1. CASE i <= a
    <3>1. i \in 1..a /\ i \in 1..(a + 1) /\ i <= a + 1 BY <1>1, <2>1
    <3> QED BY <1>3, <1>6, <1>9, <2>1, <3>1
  <2>2. CASE i = a + 1 BY <1>1, <1>7, <1>9, <2>2
  <2>3. CASE i > a + 1
    <3> DEFINE j == i - (a + 1)
    <3>1. i \in Nat /\ i <= a + 1 + n BY <1>b
    <3>2. /\ ~(i <= a + 1) /\ ~(i <= a) /\ i # a + 1 /\ j \in 1..n
          /\ b + j - 1 = i - (a + 2) + b
          BY <1>d, <1>a, <2>3, <3>1
    <3>3. t[i] = q[j] BY <1>9, <3>2
    <3>4. q[j] = s[b + j - 1] BY <1>4, <3>2 DEF n
    <3> QED BY <3>2, <3>3, <3>4
  <2> QED BY <1>a, <1>b, <2>1, <2>2, <2>3
<1>11. Len(t) = a + 1 + (Len(s) + 1 - b) BY <1>9 DEF n
<1> QED BY <1>9, <1>10, <1>11, Zenon DEF SplicedIs

LEMMA DroppedItems ==
    ASSUME NEW S, NEW s \in Seq(S),
           NEW a \in 0..Len(s), NEW b \in (a + 1)..(Len(s) + 1), NEW t,
           t = Dropped(s, a, b)
    PROVE  t \in Seq(S) /\ DroppedIs(s, a, b, t)
<1>1. Len(s) \in Nat /\ a \in Int /\ b \in Int /\ a \in Nat BY LenProperties
<1>2. \A i \in 1..Len(s) : s[i] \in S BY ElementOfSeq
<1> DEFINE p == SubSeq(s, 1, a)
           q == SubSeq(s, b, Len(s))
<1>3. p \in Seq(S) /\ Len(p) = a /\ \A i \in 1..a : p[i] = s[i]
  <2>1. \A i \in 1..a : s[i] \in S BY <1>1, <1>2
  <2>2. /\ p \in Seq(S) /\ Len(p) = IF 1 <= a THEN a - 1 + 1 ELSE 0
        /\ \A i \in 1..(a - 1 + 1) : p[i] = s[1 + i - 1]
        BY <1>1, <2>1, SubSeqProperties
  <2> QED BY <1>1, <2>2
<1>4. /\ q \in Seq(S) /\ Len(q) = Len(s) + 1 - b
      /\ \A i \in 1..(Len(s) + 1 - b) : q[i] = s[b + i - 1]
  <2>1. \A i \in b..Len(s) : s[i] \in S BY <1>1, <1>2
  <2>2. /\ q \in Seq(S)
        /\ Len(q) = IF b <= Len(s) THEN Len(s) - b + 1 ELSE 0
        /\ \A i \in 1..(Len(s) - b + 1) : q[i] = s[b + i - 1]
        BY <1>1, <2>1, SubSeqProperties
  <2> QED BY <1>1, <2>2
<1> HIDE DEF p, q
<1>5. t = p \o q BY DEF p, q, Dropped
<1> DEFINE n == Len(s) + 1 - b
<1>6. /\ t \in Seq(S) /\ Len(t) = a + n
      /\ \A i \in 1..Len(t) : t[i] = IF i <= a THEN p[i] ELSE q[i - a]
  <2>1. p \in Seq(S) /\ q \in Seq(S) BY <1>3, <1>4
  <2>2. /\ p \o q \in Seq(S) /\ Len(p \o q) = Len(p) + Len(q)
        /\ \A i \in 1..(Len(p) + Len(q)) :
              (p \o q)[i] = IF i <= Len(p) THEN p[i] ELSE q[i - Len(p)]
        BY <2>1, ConcatProperties
  <2> QED BY <1>3, <1>4, <1>5, <2>2
<1>a. n \in Nat /\ a \in Nat BY <1>1
<1>c. Len(s) + 1 = b + n BY <1>1
<1>d. b \in Nat BY <1>1
<1> HIDE DEF n
<1>e. Len(t) = a + n BY <1>6
<1>b. \A i \in 1..Len(t) : i \in Nat /\ i <= a + n BY <1>a, <1>e
<1>7. ASSUME NEW i \in 1..Len(t)
      PROVE  t[i] = IF i <= a THEN s[i] ELSE s[i - (a + 1) + b]
  <2>1. CASE i <= a
    <3>1. i \in 1..a BY <1>1, <2>1
    <3> QED BY <1>3, <1>6, <2>1, <3>1
  <2>2. CASE i > a
    <3> DEFINE j == i - a
    <3>1. i \in Nat /\ i <= a + n BY <1>b
    <3>2. /\ ~(i <= a) /\ j \in 1..n
          /\ b + j - 1 = i - (a + 1) + b
          BY <1>d, <1>a, <2>2, <3>1
    <3>3. t[i] = q[j] BY <1>6, <3>2
    <3>4. q[j] = s[b + j - 1] BY <1>4, <3>2 DEF n
    <3> QED BY <3>2, <3>3, <3>4
  <2> QED BY <1>a, <1>b, <2>1, <2>2
<1>8. Len(t) = a + (Len(s) + 1 - b) BY <1>6 DEF n
<1> QED BY <1>6, <1>7, <1>8, Zenon DEF DroppedIs

\* What a list of free nodes in order is.
LEMMA OrderedIs ==
    ASSUME NEW lo \in Nat, NEW hi \in Nat, NEW s, Ordered(s, lo, hi)
    PROVE  /\ s \in Seq(FreeNode) /\ Len(s) \in Nat /\ DOMAIN s = 1..Len(s)
           /\ \A i \in 1..Len(s) :
                 /\ s[i] \in FreeNode /\ s[i].at \in Nat /\ s[i].size \in Nat
                 /\ End(s[i]) = s[i].at + s[i].size /\ s[i].size > 0
                 /\ lo <= s[i].at /\ End(s[i]) <= hi
                 /\ End(s[i]) \in Nat /\ s[i].at < End(s[i])
           /\ \A i, j \in 1..Len(s) : i < j => End(s[i]) < s[j].at
<1>1. s \in Seq(FreeNode) BY DEF Ordered
<1>2. Len(s) \in Nat /\ DOMAIN s = 1..Len(s) BY <1>1, NodesAre
<1>3. ASSUME NEW i \in 1..Len(s)
      PROVE  /\ s[i] \in FreeNode /\ s[i].at \in Nat /\ s[i].size \in Nat
             /\ End(s[i]) = s[i].at + s[i].size /\ s[i].size > 0
             /\ lo <= s[i].at /\ End(s[i]) <= hi
      BY <1>1, <1>2, NodesAre DEF Ordered
<1>4. ASSUME NEW i \in 1..Len(s)
      PROVE  End(s[i]) \in Nat /\ s[i].at < End(s[i])
      BY <1>3
<1> QED BY <1>1, <1>2, <1>3, <1>4 DEF Ordered

\* The units of the nodes behind a and before b are not kept.
Kept(s, a, b, u) == \E k \in 1..Len(s) : (k <= a \/ k >= b) /\ Has(s[k], u)

\* A node put between two of a list, or in the place of some of them.
LEMMA SplicedNodes ==
    ASSUME NEW lo \in Nat, NEW hi \in Nat, NEW s, Ordered(s, lo, hi),
           NEW x \in FreeNode, NEW a \in 0..Len(s),
           NEW b \in (a + 1)..(Len(s) + 1),
           x.size > 0, lo <= x.at, End(x) <= hi,
           a > 0 => End(s[a]) < x.at, b <= Len(s) => End(x) < s[b].at,
           NEW t, t = Spliced(s, a, x, b)
    PROVE  /\ Ordered(t, lo, hi)
           /\ \A u : u \in FreeUnits(t) <=> Has(x, u) \/ Kept(s, a, b, u)
<1> DEFINE L == Len(s)
           f(i) == i - (a + 2) + b
<1>1. /\ s \in Seq(FreeNode) /\ L \in Nat
      /\ \A i \in 1..L :
            /\ s[i] \in FreeNode /\ s[i].at \in Nat /\ s[i].size \in Nat
            /\ End(s[i]) = s[i].at + s[i].size /\ s[i].size > 0
            /\ lo <= s[i].at /\ End(s[i]) <= hi
      /\ \A i, j \in 1..L : i < j => End(s[i]) < s[j].at
      BY OrderedIs
<1>2. x.at \in Nat /\ x.size \in Nat /\ End(x) = x.at + x.size
      BY DEF FreeNode, End
<1>3. a \in Nat /\ b \in Nat /\ a < b /\ a <= L /\ b <= L + 1
      BY <1>1
<1>4. /\ t \in Seq(FreeNode) /\ Len(t) = a + 1 + (L + 1 - b)
      /\ \A i \in 1..Len(t) :
            t[i] = IF i <= a THEN s[i] ELSE IF i = a + 1 THEN x ELSE s[f(i)]
  <2>1. s \in Seq(FreeNode) BY <1>1
  <2>2. t \in Seq(FreeNode) /\ SplicedIs(s, a, x, b, t)
        BY <2>1, SplicedItems
  <2> QED BY <2>2 DEF SplicedIs
<1> DEFINE n == L + 1 - b
<1>5. n \in Nat /\ b + n = L + 1 BY <1>3, <1>1
<1> HIDE DEF L
<1>a. \A i \in 1..L : /\ s[i].at \in Nat /\ End(s[i]) \in Nat
                       /\ s[i].at < End(s[i])
  <2> TAKE i \in 1..L
  <2>1. /\ s[i].at \in Nat /\ s[i].size \in Nat /\ s[i].size > 0
        /\ End(s[i]) = s[i].at + s[i].size
        BY <1>1
  <2> QED BY <2>1
<1>6. ASSUME NEW i \in 1..L, i <= a PROVE End(s[i]) < x.at
  <2>1. CASE i = a BY <1>3, <2>1
  <2>2. CASE i < a
    <3>1. a \in 1..L /\ a > 0 BY <1>1, <1>3, <2>2
    <3>2. End(s[i]) < s[a].at BY <1>1, <2>2, <3>1
    <3>3. End(s[a]) < x.at BY <3>1
    <3>4. /\ s[a].at \in Nat /\ s[a].at <= End(s[a])
          /\ End(s[a]) \in Nat
          BY <1>a, <3>1
    <3>5. End(s[i]) \in Nat BY <1>a
    <3> QED BY <1>2, <3>2, <3>3, <3>4, <3>5
  <2> QED BY <1>3, <1>6, <2>1, <2>2
<1>7. ASSUME NEW i \in 1..L, i >= b PROVE End(x) < s[i].at
  <2>0. b <= L BY <1>1, <1>3, <1>7
  <2>1. CASE i = b BY <2>0, <2>1 DEF L
  <2>2. CASE i > b
    <3>1. b \in 1..L BY <1>1, <1>3, <2>0
    <3>2. End(s[b]) < s[i].at BY <1>1, <2>2, <3>1
    <3>3. End(x) < s[b].at BY <2>0 DEF L
    <3>4. /\ End(s[b]) \in Nat /\ s[b].at \in Nat /\ s[b].at <= End(s[b])
          BY <1>a, <3>1
    <3>5. s[i].at \in Nat BY <1>a
    <3>6. End(x) \in Nat BY <1>2
    <3> QED BY <3>2, <3>3, <3>4, <3>5, <3>6
  <2> QED BY <1>1, <1>3, <1>7, <2>1, <2>2
<1>8. ASSUME NEW i \in 1..(a + 1 + n)
      PROVE  /\ i <= a => i \in 1..L /\ t[i] = s[i]
             /\ i = a + 1 => t[i] = x
             /\ i > a + 1 => /\ f(i) \in 1..L /\ f(i) >= b
                             /\ t[i] = s[f(i)]
  <2>1. i \in 1..Len(t) /\ i \in Nat /\ i <= a + 1 + n
        BY <1>3, <1>4, <1>5
  <2>2. i <= a => i \in 1..L BY <1>1, <1>3, <2>1
  <2>3. i > a + 1 => f(i) \in 1..L /\ f(i) >= b /\ ~(i <= a) /\ i # a + 1
        BY <1>1, <1>3, <1>5, <2>1
  <2>4. i = a + 1 => ~(i <= a) BY <1>3, <2>1
  <2> QED BY <1>4, <2>1, <2>2, <2>3, <2>4
<1>9. Len(t) = a + 1 + n /\ DOMAIN t = 1..(a + 1 + n) BY <1>4, LenProperties
<1> HIDE DEF n
<1>10. ASSUME NEW i \in 1..(a + 1 + n)
       PROVE  t[i].size > 0 /\ lo <= t[i].at /\ End(t[i]) <= hi
  <2>1. CASE i <= a BY <1>1, <1>8, <2>1
  <2>2. CASE i = a + 1 BY <1>8, <2>2
  <2>3. CASE i > a + 1 BY <1>1, <1>8, <2>3
  <2> QED BY <1>3, <1>5, <2>1, <2>2, <2>3
<1>11. ASSUME NEW i \in 1..(a + 1 + n), NEW j \in 1..(a + 1 + n), i < j
       PROVE  End(t[i]) < t[j].at
  <2>0. i \in Nat /\ j \in Nat BY <1>3, <1>5
  <2>1. CASE j <= a BY <1>1, <1>3, <1>8, <1>11, <2>0, <2>1
  <2>2. CASE j = a + 1
    <3>1. i <= a BY <1>3, <1>11, <2>0, <2>2
    <3> QED BY <1>6, <1>8, <2>2, <3>1
  <2>3. CASE j > a + 1 /\ i <= a
    <3>0. i \in 1..L /\ f(j) \in 1..L /\ f(j) >= b BY <1>8, <2>3
    <3>1. i \in 1..L /\ f(j) \in 1..L /\ i < f(j)
          BY <1>1, <1>3, <2>0, <2>3, <3>0
    <3> QED BY <1>1, <1>8, <2>3, <3>1
  <2>4. CASE j > a + 1 /\ i = a + 1 BY <1>7, <1>8, <2>4
  <2>5. CASE i > a + 1
    <3>1. j > a + 1 /\ f(i) < f(j) BY <1>3, <1>11, <2>0, <2>5
    <3> QED BY <1>1, <1>8, <2>5, <3>1
  <2> QED BY <1>3, <2>0, <2>1, <2>2, <2>3, <2>4, <2>5
<1>12. Ordered(t, lo, hi) BY <1>4, <1>9, <1>10, <1>11 DEF Ordered
<1>13. ASSUME NEW u
       PROVE  u \in FreeUnits(t) <=> Has(x, u) \/ Kept(s, a, b, u)
  <2>1. ASSUME NEW i \in 1..(a + 1 + n), Has(t[i], u)
        PROVE  Has(x, u) \/ Kept(s, a, b, u)
    <3>1. CASE i <= a BY <1>8, <2>1, <3>1 DEF Kept, L
    <3>2. CASE i = a + 1 BY <1>8, <2>1, <3>2
    <3>3. CASE i > a + 1 BY <1>8, <2>1, <3>3 DEF Kept, L
    <3> QED BY <1>3, <1>5, <3>1, <3>2, <3>3
  <2>2. ASSUME Has(x, u) PROVE \E i \in 1..(a + 1 + n) : Has(t[i], u)
    <3>1. a + 1 \in 1..(a + 1 + n) BY <1>3, <1>5 DEF n
    <3> QED BY <1>8, <2>2, <3>1
  <2>3. ASSUME NEW k \in 1..L, k <= a \/ k >= b, Has(s[k], u)
        PROVE  \E i \in 1..(a + 1 + n) : Has(t[i], u)
    <3>0. n \in Nat /\ b + n = L + 1 /\ k \in Nat /\ k <= L
          BY <1>1, <1>5
    <3>1. CASE k <= a
      <4>1. k \in 1..(a + 1 + n) BY <1>3, <3>0, <3>1
      <4> QED BY <1>8, <2>3, <3>1, <4>1
    <3>2. CASE k >= b
      <4> DEFINE i == k + (a + 2) - b
      <4>1. i \in 1..(a + 1 + n) /\ i > a + 1 /\ f(i) = k
            BY <1>1, <1>3, <3>0, <3>2
      <4>2. t[i] = s[k] BY <1>8, <4>1
      <4> QED BY <2>3, <4>1, <4>2
    <3> QED BY <2>3, <3>1, <3>2
  <2>4. u \in FreeUnits(t) <=> \E i \in 1..(a + 1 + n) : Has(t[i], u)
        BY <1>9, FreeUnit
  <2> QED BY <2>1, <2>2, <2>3, <2>4 DEF Kept, L
<1> QED BY <1>12, <1>13

\* Nodes of a list left out.
LEMMA DroppedNodes ==
    ASSUME NEW lo \in Nat, NEW hi \in Nat, NEW s, Ordered(s, lo, hi),
           NEW a \in 0..Len(s), NEW b \in (a + 1)..(Len(s) + 1),
           NEW t, t = Dropped(s, a, b)
    PROVE  /\ Ordered(t, lo, hi)
           /\ \A u : u \in FreeUnits(t) <=> Kept(s, a, b, u)
<1> DEFINE L == Len(s)
           f(i) == i - (a + 1) + b
<1>1. /\ s \in Seq(FreeNode) /\ L \in Nat
      /\ \A i \in 1..L :
            /\ s[i] \in FreeNode /\ s[i].at \in Nat /\ s[i].size \in Nat
            /\ End(s[i]) = s[i].at + s[i].size /\ s[i].size > 0
            /\ lo <= s[i].at /\ End(s[i]) <= hi
      /\ \A i, j \in 1..L : i < j => End(s[i]) < s[j].at
      BY OrderedIs
<1>3. a \in Nat /\ b \in Nat /\ a < b /\ a <= L /\ b <= L + 1
      BY <1>1
<1>4. /\ t \in Seq(FreeNode) /\ Len(t) = a + (L + 1 - b)
      /\ \A i \in 1..Len(t) : t[i] = IF i <= a THEN s[i] ELSE s[f(i)]
  <2>1. s \in Seq(FreeNode) BY <1>1
  <2>2. t \in Seq(FreeNode) /\ DroppedIs(s, a, b, t)
        BY <2>1, DroppedItems
  <2> QED BY <2>2 DEF DroppedIs
<1> DEFINE n == L + 1 - b
<1>5. n \in Nat /\ b + n = L + 1 BY <1>3, <1>1
<1> HIDE DEF L
<1>8. ASSUME NEW i \in 1..(a + n)
      PROVE  /\ i <= a => i \in 1..L /\ t[i] = s[i]
             /\ i > a => f(i) \in 1..L /\ f(i) >= b /\ t[i] = s[f(i)]
  <2>1. i \in 1..Len(t) /\ i \in Nat /\ i <= a + n
        BY <1>3, <1>4, <1>5
  <2>2. i <= a => i \in 1..L BY <1>1, <1>3, <2>1
  <2>3. i > a => f(i) \in 1..L /\ f(i) >= b /\ ~(i <= a)
        BY <1>1, <1>3, <1>5, <2>1
  <2> QED BY <1>4, <2>1, <2>2, <2>3
<1>9. Len(t) = a + n /\ DOMAIN t = 1..(a + n) BY <1>4, LenProperties
<1> HIDE DEF n
<1>10. ASSUME NEW i \in 1..(a + n)
       PROVE  t[i].size > 0 /\ lo <= t[i].at /\ End(t[i]) <= hi
  <2>1. CASE i <= a BY <1>1, <1>8, <2>1
  <2>3. CASE i > a BY <1>1, <1>8, <2>3
  <2> QED BY <1>3, <1>5, <2>1, <2>3
<1>11. ASSUME NEW i \in 1..(a + n), NEW j \in 1..(a + n), i < j
       PROVE  End(t[i]) < t[j].at
  <2>0. i \in Nat /\ j \in Nat BY <1>3, <1>5
  <2>1. CASE j <= a
    <3>1. i \in 1..L /\ j \in 1..L /\ t[i] = s[i] /\ t[j] = s[j]
          BY <1>3, <1>8, <1>11, <2>0, <2>1
    <3> QED BY <1>1, <1>11, <3>1
  <2>3. CASE j > a /\ i <= a
    <3>0. i \in 1..L /\ f(j) \in 1..L /\ f(j) >= b BY <1>8, <2>3
    <3>1. i \in 1..L /\ f(j) \in 1..L /\ i < f(j)
          BY <1>1, <1>3, <2>0, <2>3, <3>0
    <3> QED BY <1>1, <1>8, <2>3, <3>1
  <2>5. CASE i > a
    <3>1. j > a /\ f(i) < f(j) BY <1>3, <1>11, <2>0, <2>5
    <3> QED BY <1>1, <1>8, <2>5, <3>1
  <2> QED BY <1>3, <2>0, <2>1, <2>3, <2>5
<1>12. Ordered(t, lo, hi) BY <1>4, <1>9, <1>10, <1>11 DEF Ordered
<1>13. ASSUME NEW u
       PROVE  u \in FreeUnits(t) <=> Kept(s, a, b, u)
  <2>1. ASSUME NEW i \in 1..(a + n), Has(t[i], u)
        PROVE  Kept(s, a, b, u)
    <3>1. CASE i <= a BY <1>8, <2>1, <3>1 DEF Kept, L
    <3>3. CASE i > a BY <1>8, <2>1, <3>3 DEF Kept, L
    <3> QED BY <1>3, <1>5, <3>1, <3>3
  <2>3. ASSUME NEW k \in 1..L, k <= a \/ k >= b, Has(s[k], u)
        PROVE  \E i \in 1..(a + n) : Has(t[i], u)
    <3>0. n \in Nat /\ b + n = L + 1 /\ k \in Nat /\ k <= L
          BY <1>1, <1>5
    <3>1. CASE k <= a
      <4>1. k \in 1..(a + n) BY <1>3, <3>0, <3>1
      <4> QED BY <1>8, <2>3, <3>1, <4>1
    <3>2. CASE k >= b
      <4> DEFINE i == k + (a + 1) - b
      <4>1. i \in 1..(a + n) /\ i > a /\ f(i) = k
            BY <1>1, <1>3, <3>0, <3>2
      <4>2. t[i] = s[k] BY <1>8, <4>1
      <4> QED BY <2>3, <4>1, <4>2
    <3> QED BY <2>3, <3>1, <3>2
  <2>4. u \in FreeUnits(t) <=> \E i \in 1..(a + n) : Has(t[i], u)
        BY <1>9, FreeUnit
  <2> QED BY <2>1, <2>3, <2>4 DEF Kept, L
<1> QED BY <1>12, <1>13

\* No unit is in two nodes.
LEMMA NodesApart ==
    ASSUME NEW lo \in Nat, NEW hi \in Nat, NEW s, Ordered(s, lo, hi),
           NEW i \in 1..Len(s), NEW j \in 1..Len(s), NEW u,
           Has(s[i], u), Has(s[j], u)
    PROVE  i = j
<1>1. /\ Len(s) \in Nat
      /\ \A k, l \in 1..Len(s) : k < l => End(s[k]) < s[l].at
      BY OrderedIs
<1>a. \A k \in 1..Len(s) : s[k].at \in Nat /\ End(s[k]) \in Nat
      BY OrderedIs
<1>b. u \in s[i].at..(End(s[i]) - 1) /\ u \in s[j].at..(End(s[j]) - 1)
      BY DEF Has
<1>2. u \in Int /\ s[i].at <= u /\ u < End(s[i]) /\ s[j].at <= u /\ u < End(s[j])
      BY <1>a, <1>b
<1>3. ~(i < j) BY <1>1, <1>a, <1>2
<1>4. ~(j < i) BY <1>1, <1>a, <1>2
<1> QED BY <1>1, <1>3, <1>4

\* What is kept when one node goes.
LEMMA KeptIs ==
    ASSUME NEW lo \in Nat, NEW hi \in Nat, NEW s, Ordered(s, lo, hi),
           NEW i \in 1..Len(s), NEW u
    PROVE  Kept(s, i - 1, i + 1, u) <=> u \in FreeUnits(s) /\ ~Has(s[i], u)
<1>0. Len(s) \in Nat /\ DOMAIN s = 1..Len(s) BY OrderedIs
<1>1. ASSUME Kept(s, i - 1, i + 1, u)
      PROVE  u \in FreeUnits(s) /\ ~Has(s[i], u)
  <2>1. PICK k \in 1..Len(s) : (k <= i - 1 \/ k >= i + 1) /\ Has(s[k], u)
        BY <1>1 DEF Kept
  <2>2. u \in FreeUnits(s) BY <1>0, <2>1, FreeUnit
  <2>3. k # i BY <1>0, <2>1
  <2> QED BY <2>1, <2>2, <2>3, NodesApart
<1>2. ASSUME u \in FreeUnits(s), ~Has(s[i], u)
      PROVE  Kept(s, i - 1, i + 1, u)
  <2>1. PICK k \in 1..Len(s) : Has(s[k], u) BY <1>0, <1>2, FreeUnit
  <2>2. k # i BY <1>2, <2>1
  <2>3. k <= i - 1 \/ k >= i + 1 BY <1>0, <2>2
  <2> QED BY <2>1, <2>3 DEF Kept
<1> QED BY <1>1, <1>2

\* An item replaced is a list spliced.
LEMMA ExceptIsSpliced ==
    ASSUME NEW S, NEW s \in Seq(S), NEW i \in 1..Len(s), NEW x \in S
    PROVE  [s EXCEPT ![i] = x] = Spliced(s, i - 1, x, i + 1)
<1> DEFINE t == Spliced(s, i - 1, x, i + 1)
           e == [s EXCEPT ![i] = x]
           L == Len(s)
<1>1. /\ L \in Nat /\ i \in Nat /\ i - 1 \in 0..L
      /\ i + 1 \in ((i - 1) + 1)..(L + 1)
      BY LenProperties
<1>2. t \in Seq(S) /\ SplicedIs(s, i - 1, x, i + 1, t)
  <2> DEFINE a == i - 1
             b == i + 1
  <2>1. a \in 0..Len(s) /\ b \in (a + 1)..(Len(s) + 1) BY <1>1
  <2> HIDE DEF a, b
  <2>2. ASSUME NEW r, r = Spliced(s, a, x, b)
        PROVE  r \in Seq(S) /\ SplicedIs(s, a, x, b, r)
        BY <2>1, <2>2, SplicedItems
  <2> QED BY <2>2 DEF a, b
<1>3. /\ e \in Seq(S) /\ Len(e) = L
      /\ \A j \in 1..L : e[j] = IF j = i THEN x ELSE s[j]
      BY ExceptSeq
<1> HIDE DEF t, e, L
<1>4. Len(t) = L
  <2>1. Len(t) = (i - 1) + 1 + (L + 1 - (i + 1)) BY <1>2 DEF SplicedIs, L
  <2> QED BY <1>1, <2>1
<1>5. ASSUME NEW j \in 1..L PROVE e[j] = t[j]
  <2>1. t[j] = IF j <= i - 1 THEN s[j] ELSE IF j = (i - 1) + 1 THEN x
               ELSE s[j - ((i - 1) + 2) + (i + 1)]
        BY <1>2, <1>4 DEF SplicedIs
  <2>2. j \in Nat /\ (i - 1) + 1 = i /\ j - ((i - 1) + 2) + (i + 1) = j
        BY <1>1
  <2>3. t[j] = IF j <= i - 1 THEN s[j] ELSE IF j = i THEN x ELSE s[j]
        BY <2>1, <2>2
  <2>4. j = i => ~(j <= i - 1) BY <1>1, <2>2
  <2> QED BY <1>3, <2>3, <2>4
<1>6. e = t BY <1>2, <1>3, <1>4, <1>5, SeqEqual
<1> QED BY <1>6 DEF e, t

LEMMA RemoveIsDropped ==
    ASSUME NEW s, NEW i PROVE RemoveAt(s, i) = Dropped(s, i - 1, i + 1)
BY DEF RemoveAt, Dropped

\* The node that is chosen is large enough.
LEMMA ChosenFits ==
    ASSUME NEW s \in Seq(FreeNode), NEW size \in Nat, Fits(s, size) # {}
    PROVE  /\ Chosen(s, size) \in 1..Len(s)
           /\ s[Chosen(s, size)].size >= size
<1> DEFINE F == Fits(s, size)
           Z == {s[i].size : i \in F}
           M == {i \in F : s[i].size = First(Z)}
           B(i, j) == IF "LOWFRAG" \in flags /\ s[i].size # s[j].size
                      THEN s[i].size < s[j].size ELSE i <= j
<1>1. /\ Len(s) \in Nat /\ DOMAIN s = 1..Len(s)
      /\ \A i \in 1..Len(s) : s[i].size \in Nat
      BY NodesAre
<1>2. F = {i \in 1..Len(s) : s[i].size >= size} BY <1>1 DEF Fits
<1>3. F \in SUBSET Nat /\ F # {} /\ F \in SUBSET (1..Len(s)) BY <1>2
<1>4. Z \in SUBSET Nat /\ Z # {} BY <1>1, <1>3
<1> HIDE DEF F
<1>5. First(Z) \in Z /\ \A z \in Z : First(Z) <= z BY <1>4, FirstIsLeast
<1>6. M \in SUBSET Nat /\ M # {} BY <1>3, <1>5
<1>7. First(M) \in M /\ \A i \in M : First(M) <= i BY <1>6, FirstIsLeast
<1>8. First(F) \in F /\ \A i \in F : First(F) <= i BY <1>3, FirstIsLeast
<1>9. \E i \in F : \A j \in F : B(i, j)
  <2>1. CASE "LOWFRAG" \notin flags BY <1>8, <2>1
  <2>2. CASE "LOWFRAG" \in flags
    <3> DEFINE i == First(M)
    <3>1. i \in F /\ s[i].size = First(Z) BY <1>7
    <3>2. ASSUME NEW j \in F PROVE B(i, j)
      <4>1. CASE s[j].size = s[i].size
        <5>1. j \in M BY <3>1, <4>1
        <5>2. First(M) <= j BY <1>7, <5>1
        <5> QED BY <4>1, <5>2
      <4>2. CASE s[j].size # s[i].size
        <5>1. s[j].size \in Z BY <3>2
        <5>2. First(Z) <= s[j].size BY <1>5, <5>1
        <5>3. s[j].size \in Nat /\ s[i].size \in Nat BY <1>1, <1>3, <3>1
        <5>4. s[i].size < s[j].size BY <3>1, <4>2, <5>2, <5>3
        <5> QED BY <2>2, <4>2, <5>4
      <4> QED BY <4>1, <4>2
    <3> HIDE DEF i
    <3> QED BY <3>1, <3>2
  <2> QED BY <2>1, <2>2
<1>10. Chosen(s, size) \in F BY <1>9 DEF Chosen, F
<1> QED BY <1>2, <1>10

\* Which nodes lie before an address, and which behind.
LEMMA BelowIs ==
    ASSUME NEW s \in Seq(FreeNode), NEW mem \in Nat, NEW lo \in Nat,
           NEW hi \in Nat, Ordered(s, lo, hi)
    PROVE  /\ Below(s, mem) \in 0..Len(s)
           /\ \A i \in 1..Below(s, mem) : s[i].at <= mem
           /\ Below(s, mem) < Len(s) => mem < s[Below(s, mem) + 1].at
<1> DEFINE L == Len(s)
           B == {i \in 1..L : mem < s[i].at}
           G(n) == /\ \A i \in 1..n : s[i].at <= mem
                   /\ n < L => mem < s[n + 1].at
<1>1. L \in Nat /\ \A i \in 1..L : s[i].at \in Nat BY NodesAre
<1>2. \E n \in 0..L : G(n)
  <2>1. CASE B = {}
    <3>1. \A i \in 1..L : s[i].at <= mem BY <1>1, <2>1
    <3>2. L \in 0..L /\ ~(L < L) BY <1>1
    <3> QED BY <3>1, <3>2
  <2>2. CASE B # {}
    <3>1. B \in SUBSET Nat BY <1>1
    <3>2. First(B) \in B /\ \A i \in B : First(B) <= i
          BY <2>2, <3>1, FirstIsLeast
    <3> DEFINE b == First(B)
    <3>3. b \in 1..L /\ mem < s[b].at BY <3>2
    <3> HIDE DEF b
    <3>4. b - 1 \in 0..L /\ (b - 1) + 1 = b BY <1>1, <3>3
    <3>5. ASSUME NEW i \in 1..(b - 1) PROVE s[i].at <= mem
      <4>1. i \in 1..L /\ ~(b <= i) BY <1>1, <3>3
      <4>2. i \notin B BY <3>2, <4>1 DEF b
      <4> QED BY <1>1, <4>1, <4>2
    <3>6. G(b - 1) BY <3>3, <3>4, <3>5
    <3> QED BY <3>4, <3>6
  <2> QED BY <2>1, <2>2
<1>3. Below(s, mem) \in 0..L /\ G(Below(s, mem)) BY <1>2 DEF Below
<1> QED BY <1>3

-----------------------------------------------------------------------------
(* One puddle. *)

LEMMA FreeFinite ==
    ASSUME NEW lo \in Nat, NEW hi \in Nat, NEW s, Ordered(s, lo, hi)
    PROVE  /\ FreeUnits(s) \subseteq lo..(hi - 1)
           /\ IsFiniteSet(FreeUnits(s)) /\ Cardinality(FreeUnits(s)) \in Nat
<1>1. /\ DOMAIN s = 1..Len(s)
      /\ \A i \in 1..Len(s) : /\ s[i].at \in Nat /\ lo <= s[i].at
                              /\ End(s[i]) <= hi /\ End(s[i]) \in Nat
      BY OrderedIs
<1>2. ASSUME NEW u \in FreeUnits(s) PROVE u \in lo..(hi - 1)
  <2>1. PICK i \in 1..Len(s) : Has(s[i], u) BY <1>1, FreeUnit
  <2>2. u \in s[i].at..(End(s[i]) - 1) BY <2>1 DEF Has
  <2> QED BY <1>1, <2>2
<1>3. IsFiniteSet(lo..(hi - 1)) BY FS_Interval
<1>4. FreeUnits(s) \subseteq lo..(hi - 1) BY <1>2
<1> QED BY <1>3, <1>4, FS_Subset, FS_CardinalityType

LEMMA UnitsCount ==
    ASSUME NEW mem \in Nat, NEW size \in Nat
    PROVE  /\ IsFiniteSet(Units(mem, size))
           /\ Cardinality(Units(mem, size)) = Rounded(size)
<1>1. Rounded(size) \in Nat BY RoundedUp
<1> DEFINE r == Rounded(size)
<1> HIDE DEF r
<1>2. /\ IsFiniteSet(mem..(mem + r - 1))
      /\ Cardinality(mem..(mem + r - 1)) =
            IF mem > mem + r - 1 THEN 0 ELSE (mem + r - 1) - mem + 1
  <2>1. mem \in Int /\ mem + r - 1 \in Int BY <1>1 DEF r
  <2> QED BY <2>1, FS_Interval
<1>3. Cardinality(mem..(mem + r - 1)) = r BY <1>1, <1>2 DEF r
<1> QED BY <1>2, <1>3 DEF r, Units

LEMMA SoundIs ==
    ASSUME NEW p, Sound(p)
    PROVE  /\ p.mem \in Nat /\ p.mem > 0 /\ p.end \in Nat /\ p.free \in Nat
           /\ p.large \in BOOLEAN /\ p.nodes \in Seq(FreeNode)
           /\ Ordered(p.nodes, p.mem, p.end)
           /\ p.free = Cardinality(FreeUnits(p.nodes))
           /\ FreeUnits(p.nodes) \subseteq Whole(p)
           /\ IsFiniteSet(FreeUnits(p.nodes))
<1>1. /\ p \in Puddle /\ Placed(p) /\ Ordered(p.nodes, p.mem, p.end)
      /\ p.free = Cardinality(FreeUnits(p.nodes))
      BY DEF Sound, Held
<1>2. /\ p.mem \in Nat /\ p.end \in Nat /\ p.free \in Nat
      /\ p.large \in BOOLEAN /\ p.nodes \in Seq(FreeNode)
      BY <1>1 DEF Puddle
<1>3. p.mem > 0 BY <1>1, <1>2, MemoryAssumption DEF Placed, TNULL
<1> QED BY <1>1, <1>2, <1>3, FreeFinite DEF Whole

\* The same puddle with other free nodes.
SamePlace(p, q) == q.mem = p.mem /\ q.end = p.end /\ q.large = p.large
Relisted(p, s, f) == [p EXCEPT !.nodes = s, !.free = f]

\* A puddle whose list of free nodes was changed is sound if the list is in
\* order and tmh_Free counts it.
LEMMA StillSound ==
    ASSUME NEW p, Sound(p), NEW s, NEW f,
           Ordered(s, p.mem, p.end), f = Cardinality(FreeUnits(s)),
           NEW q, q = Relisted(p, s, f)
    PROVE  Sound(q) /\ SamePlace(p, q) /\ q.nodes = s
<1>1. /\ p \in Puddle /\ Placed(p) /\ p.mem \in Nat /\ p.end \in Nat
      BY SoundIs DEF Sound
<1>2. f \in Nat /\ s \in Seq(FreeNode) BY <1>1, FreeFinite, OrderedIs
<1>3. /\ q.mem = p.mem /\ q.end = p.end /\ q.large = p.large
      /\ q.nodes = s /\ q.free = f /\ q \in Puddle
      BY <1>1, <1>2 DEF Puddle, Relisted
<1>4. Placed(q) BY <1>1, <1>3 DEF Placed
<1> QED BY <1>3, <1>4 DEF Sound, SamePlace, Held

Takes(p, mem, size, q) ==
    /\ Sound(q) /\ SamePlace(p, q) /\ mem \in Nat /\ mem # TNULL
    /\ Units(mem, size) \subseteq FreeUnits(p.nodes)
    /\ FreeUnits(q.nodes) = FreeUnits(p.nodes) \ Units(mem, size)

\* exec_staticalloc takes a block out of the free memory, or nothing.
LEMMA AllocTakes ==
    ASSUME NEW p, Sound(p), NEW size \in Nat, size > 0,
           NEW got, got = StaticAlloc(p, size), got.mem # TNULL
    PROVE  Takes(p, got.mem, size, got.puddle)
<1> DEFINE R == Rounded(size)
           s == p.nodes
           i == Chosen(s, R)
           F == FreeUnits(s)
<1>1. R \in Nat /\ R > 0 BY RoundedUp
<1>2. /\ p.mem \in Nat /\ p.mem > 0 /\ p.end \in Nat /\ p.free \in Nat
      /\ s \in Seq(FreeNode) /\ Ordered(s, p.mem, p.end)
      /\ p.free = Cardinality(F) /\ IsFiniteSet(F)
      BY SoundIs
<1>3. ~(p.free < R \/ Fits(s, R) = {}) BY DEF StaticAlloc, NotGranted
<1>4. got = [puddle |-> [p EXCEPT !.nodes = Cut(@, i, R), !.free = @ - R],
             mem |-> s[i].at]
      BY <1>3 DEF StaticAlloc
<1>5. i \in 1..Len(s) /\ s[i].size >= R BY <1>1, <1>2, <1>3, ChosenFits
<1> DEFINE t == Cut(s, i, R)
           m == s[i].at
           q == got.puddle
           U == Units(m, size)
<1>6. /\ got.mem = m /\ q = [p EXCEPT !.nodes = t, !.free = p.free - R]
      BY <1>4
<1>7. /\ Len(s) \in Nat /\ DOMAIN s = 1..Len(s)
      /\ \A k \in 1..Len(s) :
            /\ s[k].at \in Nat /\ s[k].size \in Nat
            /\ End(s[k]) = s[k].at + s[k].size
            /\ p.mem <= s[k].at /\ End(s[k]) <= p.end
            /\ End(s[k]) \in Nat /\ s[k].at < End(s[k])
      /\ \A k, l \in 1..Len(s) : k < l => End(s[k]) < s[l].at
  <2>1. p.mem \in Nat /\ p.end \in Nat /\ Ordered(s, p.mem, p.end) BY <1>2
  <2> HIDE DEF s
  <2> QED BY <2>1, OrderedIs
<1> HIDE DEF i, R
<1>8. /\ m \in Nat /\ m > 0 /\ End(s[i]) = m + s[i].size /\ s[i].size \in Nat
      BY <1>2, <1>5, <1>7
<1>9. U = m..(m + R - 1) BY DEF R, Units
<1>10. U \subseteq F
  <2> SUFFICES ASSUME NEW u \in U PROVE u \in F OBVIOUS
  <2>1. u \in m..(m + R - 1) BY <1>9
  <2>2. u \in s[i].at..(End(s[i]) - 1) BY <1>1, <1>5, <1>8, <2>1
  <2>3. Has(s[i], u) BY <2>2 DEF Has
  <2> QED BY <1>5, <1>7, <2>3, FreeUnit
<1>11. i - 1 \in 0..Len(s) /\ i + 1 \in ((i - 1) + 1)..(Len(s) + 1)
       BY <1>5, <1>7
<1>12. ASSUME NEW u
       PROVE  Kept(s, i - 1, i + 1, u) <=> u \in F /\ ~Has(s[i], u)
  <2>1. p.mem \in Nat /\ p.end \in Nat /\ Ordered(s, p.mem, p.end) BY <1>2
  <2> HIDE DEF s
  <2> QED BY <1>5, <2>1, KeptIs
<1>13. Ordered(t, p.mem, p.end) /\ \A u : u \in FreeUnits(t) <=> u \in F \ U
  <2>1. CASE s[i].size = R
    <3>1. t = Dropped(s, i - 1, i + 1)
          BY <2>1, RemoveIsDropped DEF Cut
    <3>2. /\ Ordered(t, p.mem, p.end)
          /\ \A u : u \in FreeUnits(t) <=> Kept(s, i - 1, i + 1, u)
          BY <1>2, <1>11, <3>1, DroppedNodes
    <3>3. ASSUME NEW u PROVE Has(s[i], u) <=> u \in U
          BY <1>8, <1>9, <2>1 DEF Has
    <3> QED BY <1>12, <3>2, <3>3
  <2>2. CASE s[i].size # R
    <3> DEFINE x == Node(m + R, s[i].size - R)
    <3>1. /\ x \in FreeNode /\ x.at = m + R /\ x.size = s[i].size - R
          /\ x.size > 0 /\ End(x) = End(s[i])
      <4>1. s[i].size - R \in Nat /\ s[i].size - R > 0 /\ m + R \in Nat
            BY <1>1, <1>5, <1>8, <2>2
      <4>2. x.at = m + R /\ x.size = s[i].size - R /\ x \in FreeNode
            BY <4>1 DEF Node, FreeNode
      <4>3. (m + R) + (s[i].size - R) = m + s[i].size BY <1>1, <1>8
      <4> QED BY <1>8, <4>1, <4>2, <4>3 DEF End
    <3>2. t = [s EXCEPT ![i] = x] BY <2>2 DEF Cut
    <3> HIDE DEF x
    <3>3. t = Spliced(s, i - 1, x, i + 1)
          BY <1>2, <1>5, <3>1, <3>2, ExceptIsSpliced
    <3>4. /\ p.mem <= x.at /\ End(x) <= p.end
          /\ i - 1 > 0 => End(s[i - 1]) < x.at
          /\ i + 1 <= Len(s) => End(x) < s[i + 1].at
      <4>1. p.mem <= x.at /\ End(x) <= p.end
            BY <1>1, <1>2, <1>5, <1>7, <1>8, <3>1
      <4>2. ASSUME i - 1 > 0 PROVE End(s[i - 1]) < x.at
        <5>1. i - 1 \in 1..Len(s) /\ i - 1 < i BY <1>5, <1>7, <4>2
        <5>2. End(s[i - 1]) < s[i].at /\ End(s[i - 1]) \in Nat
              BY <1>5, <1>7, <5>1
        <5> QED BY <1>1, <1>8, <3>1, <5>2
      <4>3. ASSUME i + 1 <= Len(s) PROVE End(x) < s[i + 1].at
        <5>1. i + 1 \in 1..Len(s) /\ i < i + 1 BY <1>5, <1>7, <4>3
        <5> QED BY <1>5, <1>7, <3>1, <5>1
      <4> QED BY <4>1, <4>2, <4>3
    <3>5. /\ Ordered(t, p.mem, p.end)
          /\ \A u : u \in FreeUnits(t) <=>
                       Has(x, u) \/ Kept(s, i - 1, i + 1, u)
      <4> DEFINE a == i - 1
                 b == i + 1
      <4>1. /\ a \in 0..Len(s) /\ b \in (a + 1)..(Len(s) + 1)
            /\ a > 0 => End(s[a]) < x.at
            /\ b <= Len(s) => End(x) < s[b].at
            /\ t = Spliced(s, a, x, b)
            BY <1>11, <3>3, <3>4
      <4>2. /\ p.mem \in Nat /\ p.end \in Nat /\ Ordered(s, p.mem, p.end)
            /\ x \in FreeNode /\ x.size > 0 /\ p.mem <= x.at
            /\ End(x) <= p.end
            BY <1>2, <3>1, <3>4
      <4> HIDE DEF a, b, t, s
      <4>3. /\ Ordered(t, p.mem, p.end)
            /\ \A u : u \in FreeUnits(t) <=> Has(x, u) \/ Kept(s, a, b, u)
            BY <4>1, <4>2, SplicedNodes
      <4> QED BY <4>3 DEF a, b
    <3>6. ASSUME NEW u
          PROVE  Has(x, u) <=> Has(s[i], u) /\ u \notin U
      <4>1. Has(x, u) <=> u \in (m + R)..(End(s[i]) - 1)
            BY <3>1 DEF Has
      <4>2. Has(s[i], u) <=> u \in m..(End(s[i]) - 1) BY DEF Has
      <4>3. End(s[i]) \in Nat BY <1>5, <1>7
      <4> QED BY <1>1, <1>8, <1>9, <4>1, <4>2, <4>3
    <3>7. ASSUME NEW u PROVE u \in U => Has(s[i], u)
      <4>1. Has(s[i], u) <=> u \in m..(End(s[i]) - 1) BY DEF Has
      <4> QED BY <1>1, <1>5, <1>8, <1>9, <4>1
    <3>8. ASSUME NEW u PROVE Has(s[i], u) => u \in F
          BY <1>5, <1>7, FreeUnit
    <3> QED BY <1>12, <3>5, <3>6, <3>7, <3>8
  <2> QED BY <2>1, <2>2
<1> HIDE DEF t, m, U, F, q
<1>14. FreeUnits(t) = F \ U BY <1>13
<1>15. p.free - R = Cardinality(FreeUnits(t))
  <2>1. Cardinality(U) = R BY <1>8, UnitsCount DEF U, R, m
  <2>2. Cardinality(F \ U) = Cardinality(F) - Cardinality(F \cap U)
        BY <1>2, FS_Difference
  <2>3. F \cap U = U BY <1>10
  <2> QED BY <1>2, <1>14, <2>1, <2>2, <2>3
<1>16. Sound(q) /\ SamePlace(p, q) /\ q.nodes = t
  <2> DEFINE f == p.free - R
  <2>1. f = Cardinality(FreeUnits(t)) BY <1>15
  <2>2. q = Relisted(p, t, f) BY <1>6 DEF q, Relisted
  <2>3. Ordered(t, p.mem, p.end) BY <1>13
  <2> HIDE DEF f
  <2> QED BY <2>1, <2>2, <2>3, StillSound
<1> QED BY <1>6, <1>8, <1>10, <1>14, <1>16 DEF Takes, TNULL, U, F, q

Gives(p, mem, size, q) ==
    /\ Sound(q) /\ SamePlace(p, q)
    /\ FreeUnits(q.nodes) = FreeUnits(p.nodes) \cup Units(mem, size)

\* A block of the puddle's, none of whose units is free.
Taken(p, mem, size) == /\ mem \in Nat /\ size \in Nat /\ size > 0
                       /\ Units(mem, size) \subseteq Whole(p)
                       /\ Units(mem, size) \cap FreeUnits(p.nodes) = {}

LEMMA TakenIs ==
    ASSUME NEW p, Sound(p), NEW mem, NEW size, Taken(p, mem, size)
    PROVE  /\ Rounded(size) \in Nat /\ Rounded(size) > 0
           /\ Units(mem, size) = mem..(mem + Rounded(size) - 1)
           /\ p.mem <= mem /\ mem + Rounded(size) <= p.end
           /\ mem \in Units(mem, size)
           /\ mem + Rounded(size) - 1 \in Units(mem, size)
<1>1. mem \in Nat /\ size \in Nat /\ size > 0 BY DEF Taken
<1>2. Rounded(size) \in Nat /\ Rounded(size) > 0 BY <1>1, RoundedUp
<1> DEFINE r == Rounded(size)
<1> HIDE DEF r
<1>3. Units(mem, size) = mem..(mem + r - 1) BY DEF Units, r
<1>4. /\ mem \in mem..(mem + r - 1)
      /\ mem + r - 1 \in mem..(mem + r - 1)
      BY <1>1, <1>2 DEF r
<1>5. mem \in Whole(p) /\ mem + r - 1 \in Whole(p)
      BY <1>3, <1>4 DEF Taken
<1>6. p.mem \in Nat /\ p.end \in Nat BY SoundIs
<1>7. p.mem <= mem /\ mem + r <= p.end
      BY <1>1, <1>2, <1>5, <1>6 DEF Whole, r
<1> QED BY <1>2, <1>3, <1>4, <1>7 DEF r

\* exec_staticfree puts a block into the free memory.
LEMMA FreeGives ==
    ASSUME NEW p, Sound(p), NEW mem, NEW size, Taken(p, mem, size),
           NEW q, q = StaticFree(p, mem, size)
    PROVE  Gives(p, mem, size, q)
<1> DEFINE R == Rounded(size)
           s == p.nodes
           L == Len(s)
           n == Below(s, mem)
           prev == n > 0 /\ End(s[n]) = mem
           next == n < L /\ mem + R = s[n + 1].at
           at == IF prev THEN s[n].at ELSE mem
           end == IF next THEN End(s[n + 1]) ELSE mem + R
           a == IF prev THEN n - 1 ELSE n
           b == IF next THEN n + 2 ELSE n + 1
           x == Node(at, end - at)
           t == Spliced(s, a, x, b)
           F == FreeUnits(s)
           U == Units(mem, size)
<1>1. R \in Nat /\ R > 0 /\ U = mem..(mem + R - 1) /\ mem \in U
      /\ mem + R - 1 \in U /\ p.mem <= mem /\ mem + R <= p.end
      BY TakenIs
<1>2. /\ p.mem \in Nat /\ p.mem > 0 /\ p.end \in Nat /\ p.free \in Nat
      /\ s \in Seq(FreeNode) /\ Ordered(s, p.mem, p.end)
      /\ p.free = Cardinality(F) /\ IsFiniteSet(F)
      BY SoundIs
<1>3. mem \in Nat /\ U \cap F = {} BY DEF Taken
<1>4. q = Relisted(p, t, p.free + R)
      BY DEF StaticFree, Relisted, Spliced
<1>5. n \in 0..L /\ \A i \in 1..n : s[i].at <= mem
      BY <1>2, <1>3, BelowIs
<1>6. n < L => mem < s[n + 1].at BY <1>2, <1>3, BelowIs
<1>7. /\ L \in Nat /\ DOMAIN s = 1..L
      /\ \A k \in 1..L :
            /\ s[k].at \in Nat /\ End(s[k]) \in Nat /\ s[k].at < End(s[k])
            /\ p.mem <= s[k].at /\ End(s[k]) <= p.end
      /\ \A k, l \in 1..L : k < l => End(s[k]) < s[l].at
  <2>1. p.mem \in Nat /\ p.end \in Nat /\ Ordered(s, p.mem, p.end) BY <1>2
  <2> HIDE DEF s
  <2> QED BY <2>1, OrderedIs
<1> HIDE DEF R, s, L, n, F, U
\* no unit of the block is in a node
<1>8. ASSUME NEW k \in 1..L, NEW u \in U PROVE ~(s[k].at <= u /\ u < End(s[k]))
  <2>1. u \notin F BY <1>3
  <2>2. ~Has(s[k], u) BY <1>7, <2>1, FreeUnit DEF F
  <2>3. u \in Nat BY <1>1, <1>3
  <2> QED BY <1>7, <2>2, <2>3 DEF Has
\* the nodes before it and behind it
<1>9. ASSUME NEW k \in 1..L, k <= n PROVE End(s[k]) <= mem
  <2>1. k \in 1..n BY <1>5, <1>9
  <2>2. s[k].at <= mem BY <1>5, <2>1
  <2> QED BY <1>1, <1>3, <1>7, <1>8, <2>2
<1>10. ASSUME NEW k \in 1..L, k > n PROVE mem + R <= s[k].at
  <2>0. n \in Nat /\ k \in Nat /\ n < L BY <1>5, <1>7, <1>10
  <2>1. n + 1 \in 1..L /\ mem < s[n + 1].at BY <1>6, <1>7, <2>0
  <2>2. s[n + 1].at \notin U BY <1>7, <1>8, <2>1
  <2>3. s[n + 1].at \in Nat BY <1>7, <2>1
  <2>4. mem + R <= s[n + 1].at BY <1>1, <1>3, <2>1, <2>2, <2>3
  <2>5. k = n + 1 \/ n + 1 < k BY <1>10, <2>0
  <2>6. n + 1 < k => s[n + 1].at < s[k].at /\ s[k].at \in Nat
    <3>1. n + 1 < k => End(s[n + 1]) < s[k].at BY <1>7, <2>1
    <3>2. /\ s[n + 1].at < End(s[n + 1]) /\ End(s[n + 1]) \in Nat
          /\ s[k].at \in Nat
          BY <1>7, <2>1
    <3> QED BY <2>3, <3>1, <3>2
  <2> QED BY <1>1, <1>3, <2>3, <2>4, <2>5, <2>6
<1>11. n \in Nat /\ n <= L BY <1>5, <1>7
<1>12. prev => /\ n \in 1..L /\ s[n].at \in Nat /\ s[n].at < mem
               /\ p.mem <= s[n].at
       BY <1>3, <1>7, <1>11
<1>13. next => /\ n + 1 \in 1..L /\ End(s[n + 1]) \in Nat
               /\ mem + R < End(s[n + 1]) /\ End(s[n + 1]) <= p.end
       BY <1>1, <1>3, <1>7, <1>11
<1>14. /\ at \in Nat /\ at <= mem /\ p.mem <= at
       /\ prev => at = s[n].at
       /\ ~prev => at = mem
       BY <1>1, <1>3, <1>12
<1>15. /\ end \in Nat /\ mem + R <= end /\ end <= p.end
       /\ next => end = End(s[n + 1])
       /\ ~next => end = mem + R
       BY <1>1, <1>3, <1>13
<1>16. /\ a \in Nat /\ b \in Nat /\ a \in 0..L /\ b \in (a + 1)..(L + 1)
       /\ prev => a = n - 1
       /\ ~prev => a = n
       /\ next => b = n + 2
       /\ ~next => b = n + 1
  <2>a. prev => n \in 1..L BY <1>12
  <2>b. next => n + 1 \in 1..L BY <1>13
  <2> HIDE DEF prev, next
  <2>1. prev => n - 1 \in 0..L BY <1>7, <1>11, <2>a
  <2>2. next => n + 2 \in 0..(L + 1) BY <1>7, <1>11, <2>b
  <2> QED BY <1>7, <1>11, <2>1, <2>2
<1>17. /\ x \in FreeNode /\ x.at = at /\ x.size > 0 /\ End(x) = end
  <2> HIDE DEF at, end
  <2>1. end - at \in Nat /\ end - at > 0 BY <1>1, <1>3, <1>14, <1>15
  <2>2. x.at = at /\ x.size = end - at /\ x \in FreeNode
        BY <1>14, <2>1 DEF Node, FreeNode
  <2> QED BY <1>14, <1>15, <2>1, <2>2 DEF End
<1> HIDE DEF at, end, x
<1>18. a > 0 => End(s[a]) < x.at
  <2>1. CASE prev
    <3>1. a = n - 1 /\ at = s[n].at /\ n \in 1..L
          BY <1>12, <1>14, <1>16, <2>1
    <3> HIDE DEF a, prev
    <3>2. a > 0 => a \in 1..L /\ a < n BY <1>7, <1>11, <3>1
    <3> QED BY <1>7, <1>17, <3>1, <3>2
  <2>2. CASE ~prev
    <3>1. a = n /\ at = mem BY <1>14, <1>16, <2>2
    <3>2. n > 0 => n \in 1..L BY <1>11
    <3>3. n > 0 => End(s[n]) <= mem /\ End(s[n]) # mem BY <1>9, <2>2, <3>2
    <3> HIDE DEF a, prev
    <3>4. n > 0 => End(s[n]) \in Nat BY <1>7, <3>2
    <3> QED BY <1>3, <1>17, <3>1, <3>3, <3>4
  <2> QED BY <2>1, <2>2
<1>19. b <= L => End(x) < s[b].at
  <2>1. CASE next
    <3>1. b = n + 2 /\ end = End(s[n + 1]) /\ n + 1 \in 1..L
          BY <1>13, <1>15, <1>16, <2>1
    <3> HIDE DEF b, next
    <3>2. b <= L => b \in 1..L /\ n + 1 < b BY <1>7, <1>11, <3>1
    <3> QED BY <1>7, <1>17, <3>1, <3>2
  <2>2. CASE ~next
    <3>1. b = n + 1 /\ end = mem + R BY <1>15, <1>16, <2>2
    <3>2. n < L => n + 1 \in 1..L /\ n + 1 > n BY <1>7, <1>11
    <3>3. n < L => mem + R <= s[n + 1].at /\ s[n + 1].at # mem + R
          BY <1>10, <2>2, <3>2
    <3> HIDE DEF b, next
    <3>4. n < L => s[n + 1].at \in Nat BY <1>7, <3>2
    <3>5. b <= L => n < L BY <1>7, <1>11, <3>1
    <3> QED BY <1>1, <1>3, <1>17, <3>1, <3>3, <3>4, <3>5
  <2> QED BY <2>1, <2>2
<1> HIDE DEF a, b, t
<1>20. /\ Ordered(t, p.mem, p.end)
       /\ \A u : u \in FreeUnits(t) <=> Has(x, u) \/ Kept(s, a, b, u)
  <2>1. p.mem <= x.at /\ End(x) <= p.end BY <1>14, <1>15, <1>17
  <2>2. t = Spliced(s, a, x, b) BY DEF t
  <2>3. a \in 0..Len(s) /\ b \in (a + 1)..(Len(s) + 1) BY <1>16 DEF L
  <2>4. b <= Len(s) => End(x) < s[b].at BY <1>19 DEF L
  <2> HIDE DEF prev, next
  <2> QED BY <1>2, <1>17, <1>18, <2>1, <2>2, <2>3, <2>4, SplicedNodes
\* what the new node holds
<1>21. ASSUME NEW u
       PROVE  Has(x, u) <=> \/ u \in U
                            \/ prev /\ Has(s[n], u)
                            \/ next /\ Has(s[n + 1], u)
  <2>1. Has(x, u) <=> u \in at..(end - 1) BY <1>17 DEF Has
  <2>2. prev => (Has(s[n], u) <=> u \in at..(mem - 1)) BY <1>14 DEF Has
  <2>3. next => (Has(s[n + 1], u) <=> u \in (mem + R)..(end - 1))
        BY <1>15 DEF Has
  <2>4. ~prev => at = mem BY <1>14
  <2>5. ~next => end = mem + R BY <1>15
  <2> HIDE DEF prev, next
  <2>6. u \in at..(end - 1) <=> \/ u \in at..(mem - 1) \/ u \in U
                                \/ u \in (mem + R)..(end - 1)
        BY <1>1, <1>3, <1>14, <1>15
  <2>7. at = mem => u \notin at..(mem - 1) BY <1>3
  <2>8. end = mem + R => u \notin (mem + R)..(end - 1) BY <1>1, <1>3
  <2> QED BY <2>1, <2>2, <2>3, <2>4, <2>5, <2>6, <2>7, <2>8
<1>22. ASSUME NEW u PROVE u \in FreeUnits(t) <=> u \in F \cup U
  <2>1. u \in F <=> \E k \in 1..L : Has(s[k], u)
        BY <1>7, FreeUnit DEF F
  <2>2. ASSUME u \in FreeUnits(t) PROVE u \in F \cup U
    <3>1. CASE Has(x, u) BY <1>12, <1>13, <1>21, <2>1, <3>1
    <3>2. CASE Kept(s, a, b, u) BY <2>1, <3>2 DEF Kept, L
    <3> QED BY <1>20, <2>2, <3>1, <3>2
  <2>3. ASSUME u \in U PROVE u \in FreeUnits(t) BY <1>20, <1>21, <2>3
  <2>4. ASSUME u \in F PROVE u \in FreeUnits(t)
    <3>1. PICK k \in 1..L : Has(s[k], u) BY <2>1, <2>4
    <3>2. CASE k <= a \/ k >= b BY <1>20, <3>1, <3>2 DEF Kept, L
    <3>3. CASE ~(k <= a) /\ ~(k >= b)
      <4>1. (k = n /\ prev) \/ (k = n + 1 /\ next)
        <5>1. k \in Nat BY <1>7
        <5>2. CASE prev /\ next
          <6>1. a = n - 1 /\ b = n + 2 BY <1>16, <5>2
          <6>2. k = n \/ k = n + 1 BY <1>11, <3>3, <5>1, <6>1
          <6> QED BY <5>2, <6>2
        <5>3. CASE prev /\ ~next
          <6>1. a = n - 1 /\ b = n + 1 BY <1>16, <5>3
          <6>2. k = n BY <1>11, <3>3, <5>1, <6>1
          <6> QED BY <5>3, <6>2
        <5>4. CASE ~prev /\ next
          <6>1. a = n /\ b = n + 2 BY <1>16, <5>4
          <6>2. k = n + 1 BY <1>11, <3>3, <5>1, <6>1
          <6> QED BY <5>4, <6>2
        <5>5. CASE ~prev /\ ~next
          <6>1. a = n /\ b = n + 1 BY <1>16, <5>5
          <6> QED BY <1>11, <3>3, <5>1, <6>1
        <5> HIDE DEF prev, next
        <5> QED BY <5>2, <5>3, <5>4, <5>5
      <4> HIDE DEF prev, next
      <4> QED BY <1>20, <1>21, <3>1, <4>1
    <3> QED BY <3>2, <3>3
  <2> QED BY <2>2, <2>3, <2>4
<1>23. FreeUnits(t) = F \cup U BY <1>22
<1>24. p.free + R = Cardinality(FreeUnits(t))
  <2>1. size \in Nat BY DEF Taken
  <2>2. Cardinality(U) = R /\ IsFiniteSet(U)
        BY <1>3, <2>1, UnitsCount DEF U, R
  <2>3. Cardinality(F \cup U) =
           Cardinality(F) + Cardinality(U) - Cardinality(F \cap U)
        BY <1>2, <2>2, FS_Union DEF F, s
  <2>4. Cardinality(F \cap U) = 0
    <3>1. F \cap U = {} BY <1>3
    <3> QED BY <3>1, FS_EmptySet
  <2>5. p.free = Cardinality(F) /\ p.free \in Nat BY <1>2 DEF F, s
  <2> QED BY <1>1, <1>23, <2>2, <2>3, <2>4, <2>5
<1>25. Sound(q) /\ SamePlace(p, q) /\ q.nodes = t
  <2> DEFINE f == p.free + R
  <2>1. f = Cardinality(FreeUnits(t)) BY <1>24
  <2>2. q = Relisted(p, t, f) BY <1>4
  <2>3. Ordered(t, p.mem, p.end) BY <1>20
  <2> HIDE DEF f
  <2> QED BY <2>1, <2>2, <2>3, StillSound
<1> QED BY <1>23, <1>25 DEF Gives, U, F, s

\* An allocation that fails changes nothing.
LEMMA AllocRefused ==
    ASSUME NEW p, Sound(p), NEW size \in Nat, size > 0,
           NEW got, got = StaticAlloc(p, size), got.mem = TNULL
    PROVE  got.puddle = p
<1> DEFINE R == Rounded(size)
           s == p.nodes
           i == Chosen(s, R)
<1>1. R \in Nat BY RoundedUp
<1>2. /\ p.mem \in Nat /\ p.mem > 0 /\ p.end \in Nat
      /\ s \in Seq(FreeNode) /\ Ordered(s, p.mem, p.end)
      BY SoundIs
<1>3. CASE p.free < R \/ Fits(s, R) = {}
      BY <1>3 DEF StaticAlloc, NotGranted
<1>4. CASE ~(p.free < R \/ Fits(s, R) = {})
  <2>1. got.mem = s[i].at BY <1>4 DEF StaticAlloc
  <2>2. i \in 1..Len(s) BY <1>1, <1>2, <1>4, ChosenFits
  <2>3. s[i].at \in Nat /\ p.mem <= s[i].at
    <3> HIDE DEF s, i
    <3> QED BY <1>2, <2>2, OrderedIs
  <2> QED BY <1>2, <2>1, <2>3 DEF TNULL
<1> QED BY <1>3, <1>4

Moves(p, mem, old, to, new, q) ==
    /\ Sound(q) /\ SamePlace(p, q) /\ to \in Nat /\ to # TNULL
    /\ Units(to, new) \subseteq FreeUnits(p.nodes) \cup Units(mem, old)
    /\ FreeUnits(q.nodes) =
          (FreeUnits(p.nodes) \cup Units(mem, old)) \ Units(to, new)

LEMMA UnitsRounded ==
    ASSUME NEW mem, NEW size \in Nat
    PROVE  Units(mem, Rounded(size)) = Units(mem, size)
BY RoundedUp DEF Units

\* Another place in the same puddle: taken before the old one is given back.
LEMMA MoveMoves ==
    ASSUME NEW p, Sound(p), NEW mem, NEW old, Taken(p, mem, old),
           NEW new \in Nat, new > 0,
           NEW got, got = StaticMove(p, mem, Rounded(old), Rounded(new))
    PROVE  IF got.mem = TNULL THEN got.puddle = p
                              ELSE Moves(p, mem, old, got.mem, new, got.puddle)
<1> DEFINE N == Rounded(new)
           O == Rounded(old)
           g == StaticAlloc(p, N)
           r == g.puddle
           F == FreeUnits(p.nodes)
<1>1. N \in Nat /\ N > 0 /\ O \in Nat /\ O > 0 /\ old \in Nat
  <2>1. old \in Nat BY DEF Taken
  <2>2. O \in Nat /\ O > 0 BY TakenIs
  <2>3. N \in Nat /\ N > 0 BY RoundedUp
  <2> QED BY <2>1, <2>2, <2>3
<1>2. Units(mem, O) = Units(mem, old) BY <1>1, UnitsRounded
<1>3. \A a : Units(a, N) = Units(a, new) BY UnitsRounded
<1> HIDE DEF N, O
<1>4. CASE g.mem = TNULL
  <2>1. got = g BY <1>4 DEF StaticMove, N, O
  <2>2. g.puddle = p BY <1>1, <1>4, AllocRefused
  <2> QED BY <1>4, <2>1, <2>2
<1>5. CASE g.mem # TNULL
  <2>1. Takes(p, g.mem, N, r) BY <1>1, <1>5, AllocTakes
  <2> DEFINE q == StaticFree(r, mem, O)
             V == Units(g.mem, N)
             U == Units(mem, O)
  <2>2. got = [g EXCEPT !.puddle = StaticFree(@, mem, O)]
        BY <1>5 DEF StaticMove, N, O
  <2>3. g = [puddle |-> g.puddle, mem |-> g.mem]
        BY DEF StaticAlloc, NotGranted
  <2>4. got.puddle = q /\ got.mem = g.mem BY <2>2, <2>3
  <2>5. /\ Sound(r) /\ SamePlace(p, r) /\ g.mem \in Nat
        /\ V \subseteq F /\ FreeUnits(r.nodes) = F \ V
        BY <2>1 DEF Takes
  <2>6. U \subseteq Whole(p) /\ U \cap F = {} /\ mem \in Nat
        BY <1>2 DEF Taken
  <2>7. Whole(r) = Whole(p) BY <2>5 DEF SamePlace, Whole
  <2> HIDE DEF g, r, V, U, F
  <2>8. Taken(r, mem, O) BY <1>1, <2>5, <2>6, <2>7 DEF Taken, U
  <2>9. Gives(r, mem, O, q) BY <2>5, <2>8, FreeGives
  <2>10. /\ Sound(q) /\ SamePlace(r, q)
         /\ FreeUnits(q.nodes) = (F \ V) \cup U
         BY <2>5, <2>9 DEF Gives, U
  <2>11. SamePlace(p, q) BY <2>5, <2>10 DEF SamePlace
  <2>12. (F \ V) \cup U = (F \cup U) \ V BY <2>5, <2>6
  <2> HIDE DEF q
  <2>13. V = Units(g.mem, new) /\ U = Units(mem, old)
         BY <1>2, <1>3 DEF V, U
  <2>14. V \subseteq F \cup U BY <2>5
  <2>15. Moves(p, mem, old, g.mem, new, q)
         BY <1>5, <2>5, <2>10, <2>11, <2>12, <2>13, <2>14 DEF Moves, F
  <2> QED BY <1>5, <2>4, <2>15
<1> QED BY <1>4, <1>5

\* A block that keeps its address.
LEMMA StaysMoves ==
    ASSUME NEW p, Sound(p), NEW mem, NEW old, Taken(p, mem, old),
           NEW new \in Nat, new > 0,
           NEW t, Ordered(t, p.mem, p.end),
           Units(mem, new) \subseteq FreeUnits(p.nodes) \cup Units(mem, old),
           FreeUnits(t) =
              (FreeUnits(p.nodes) \cup Units(mem, old)) \ Units(mem, new),
           NEW q, q = Relisted(p, t, p.free + Rounded(old) - Rounded(new))
    PROVE  Moves(p, mem, old, mem, new, q)
<1> DEFINE F == FreeUnits(p.nodes)
           U == Units(mem, old)
           V == Units(mem, new)
           f == p.free + Rounded(old) - Rounded(new)
<1>1. /\ mem \in Nat /\ old \in Nat /\ Rounded(old) \in Nat
      /\ Rounded(new) \in Nat /\ U \cap F = {}
      BY RoundedUp DEF Taken
<1>2. /\ p.free = Cardinality(F) /\ p.free \in Nat /\ IsFiniteSet(F)
      /\ p.mem \in Nat /\ p.mem > 0
      BY SoundIs
<1>3. /\ Cardinality(U) = Rounded(old) /\ IsFiniteSet(U)
      /\ Cardinality(V) = Rounded(new)
      BY <1>1, UnitsCount
<1>4. V \subseteq F \cup U /\ FreeUnits(t) = (F \cup U) \ V OBVIOUS
<1> HIDE DEF F, U, V
<1>5. Cardinality(F \cup U) = p.free + Rounded(old) /\ IsFiniteSet(F \cup U)
  <2>1. /\ IsFiniteSet(F \cup U)
        /\ Cardinality(F \cup U) =
              Cardinality(F) + Cardinality(U) - Cardinality(F \cap U)
        BY <1>2, <1>3, FS_Union
  <2>2. F \cap U = {} BY <1>1
  <2>3. Cardinality(F \cap U) = 0 BY <2>2, FS_EmptySet
  <2> QED BY <1>1, <1>2, <1>3, <2>1, <2>3
<1>6. Cardinality((F \cup U) \ V) = Cardinality(F \cup U) - Cardinality(V)
  <2>1. Cardinality((F \cup U) \ V) =
           Cardinality(F \cup U) - Cardinality((F \cup U) \cap V)
        BY <1>5, FS_Difference
  <2>2. (F \cup U) \cap V = V BY <1>4
  <2> QED BY <2>1, <2>2
<1>7. f = Cardinality(FreeUnits(t))
  <2>1. Cardinality(FreeUnits(t)) = Cardinality((F \cup U) \ V) BY <1>4
  <2>2. Cardinality((F \cup U) \ V) = p.free + Rounded(old) - Rounded(new)
    <3> DEFINE x == Cardinality(F \cup U)
               y == Cardinality(V)
               o == Rounded(old)
               w == Rounded(new)
    <3>1. x = p.free + o /\ y = w /\ p.free \in Nat /\ o \in Nat /\ w \in Nat
          BY <1>1, <1>2, <1>3, <1>5
    <3>2. Cardinality((F \cup U) \ V) = x - y BY <1>6
    <3> HIDE DEF x, y, o, w
    <3>3. Cardinality((F \cup U) \ V) = p.free + o - w BY <3>1, <3>2
    <3> QED BY <3>3 DEF o, w
  <2> QED BY <2>1, <2>2
<1>8. Sound(q) /\ SamePlace(p, q) /\ q.nodes = t
  <2>1. q = Relisted(p, t, f) OBVIOUS
  <2> HIDE DEF f
  <2> QED BY <1>7, <2>1, StillSound
<1>9. mem # TNULL
  <2>1. p.mem <= mem BY TakenIs
  <2> QED BY <1>1, <1>2, <2>1 DEF TNULL
<1> QED BY <1>1, <1>4, <1>8, <1>9 DEF Moves, F, U, V

\* exec_staticrealloc moves a block, or its end, within the puddle, or fails
\* and changes nothing.
LEMMA ReallocMoves ==
    ASSUME NEW p, Sound(p), NEW mem, NEW old, Taken(p, mem, old),
           NEW new \in Nat, new > 0,
           NEW got, got = StaticRealloc(p, mem, old, new)
    PROVE  IF got.mem = TNULL THEN got.puddle = p
                              ELSE Moves(p, mem, old, got.mem, new, got.puddle)
<1> DEFINE O == Rounded(old)
           N == Rounded(new)
           s == p.nodes
           L == Len(s)
           n == Below(s, mem) + 1
           behind == n <= L
           touches == behind /\ s[n].at = mem + O
           stays == N < O \/ (touches /\ s[n].size >= N - O)
           rest == Node(mem + N, O - N)
           next == Node(mem + N, s[n].size + O - N)
           F == FreeUnits(s)
           U == Units(mem, old)
           V == Units(mem, new)
           R(t) == Relisted(p, t, p.free + O - N)
<1>1. /\ O \in Nat /\ O > 0 /\ U = mem..(mem + O - 1) /\ mem \in U
      /\ p.mem <= mem /\ mem + O <= p.end
      BY TakenIs
<1>2. N \in Nat /\ N > 0 /\ V = mem..(mem + N - 1)
      BY RoundedUp DEF Units
<1>3. /\ p.mem \in Nat /\ p.mem > 0 /\ p.end \in Nat /\ p.free \in Nat
      /\ s \in Seq(FreeNode) /\ Ordered(s, p.mem, p.end)
      BY SoundIs
<1>4. mem \in Nat /\ U \cap F = {} /\ mem # TNULL
  <2>1. mem \in Nat /\ U \cap F = {} BY DEF Taken
  <2> QED BY <1>1, <1>3, <2>1 DEF TNULL
<1>5. /\ n - 1 \in 0..L /\ \A i \in 1..(n - 1) : s[i].at <= mem
      /\ n \in Nat /\ n >= 1 /\ n <= L + 1
  <2>1. Below(s, mem) \in 0..L /\ \A i \in 1..Below(s, mem) : s[i].at <= mem
        BY <1>3, <1>4, BelowIs
  <2> DEFINE b == Below(s, mem)
  <2> HIDE DEF b
  <2>2. b \in 0..L /\ \A i \in 1..b : s[i].at <= mem BY <2>1 DEF b
  <2>3. L \in Nat BY <1>3, LenProperties
  <2>4. /\ b \in Int /\ (b + 1) - 1 = b
        /\ b + 1 \in Nat /\ b + 1 >= 1 /\ b + 1 <= L + 1
        BY <2>2, <2>3
  <2>5. n = b + 1 BY DEF b
  <2> HIDE DEF n, s
  <2> QED BY <2>2, <2>4, <2>5
<1>6. n <= L => mem < s[n].at
  <2>1. Below(s, mem) < L => mem < s[Below(s, mem) + 1].at
        BY <1>3, <1>4, BelowIs
  <2>2. Below(s, mem) \in 0..L BY <1>3, <1>4, BelowIs
  <2>3. L \in Nat BY <1>3, LenProperties
  <2> QED BY <2>1, <2>2, <2>3
<1>7. /\ L \in Nat /\ DOMAIN s = 1..L
      /\ \A k \in 1..L :
            /\ s[k].at \in Nat /\ End(s[k]) \in Nat /\ s[k].at < End(s[k])
            /\ p.mem <= s[k].at /\ End(s[k]) <= p.end
            /\ s[k].size \in Nat /\ End(s[k]) = s[k].at + s[k].size
      /\ \A k, l \in 1..L : k < l => End(s[k]) < s[l].at
  <2>1. p.mem \in Nat /\ p.end \in Nat /\ Ordered(s, p.mem, p.end) BY <1>3
  <2> HIDE DEF s
  <2> QED BY <2>1, OrderedIs
<1>8. got = IF N = O THEN [puddle |-> p, mem |-> mem]
            ELSE IF ~behind \/ ~stays THEN StaticMove(p, mem, O, N)
            ELSE [puddle |-> R(IF ~touches THEN InsertAt(s, n, rest)
                               ELSE IF s[n].size = N - O THEN RemoveAt(s, n)
                               ELSE [s EXCEPT ![n] = next]),
                  mem |-> mem]
  <2>1. CASE N = O BY <2>1 DEF StaticRealloc
  <2>2. CASE N # O /\ (~behind \/ ~stays) BY <2>2, Zenon DEF StaticRealloc
  <2>3. CASE N # O /\ behind /\ stays
    <3> DEFINE e == [s EXCEPT ![n] = Node(mem + N, @.size + O - N)]
               t == IF ~touches THEN InsertAt(s, n, rest)
                    ELSE IF s[n].size = N - O THEN RemoveAt(s, n) ELSE e
    <3>2. got = [puddle |-> [p EXCEPT !.free = p.free + O - N, !.nodes = t],
                 mem |-> mem]
          BY <2>3, Zenon DEF StaticRealloc
    <3>3. e = [s EXCEPT ![n] = next] OBVIOUS
    <3> HIDE DEF t
    <3>4. got = [puddle |-> R(t), mem |-> mem] BY <3>2 DEF Relisted
    <3> HIDE DEF e
    <3>5. t = IF ~touches THEN InsertAt(s, n, rest)
              ELSE IF s[n].size = N - O THEN RemoveAt(s, n)
              ELSE [s EXCEPT ![n] = next]
          BY <3>3 DEF t
    <3> QED BY <2>3, <3>4, <3>5
  <2> QED BY <2>1, <2>2, <2>3
<1> HIDE DEF O, N, s, L, n, F, U, V, R
<1>9. n \in Nat /\ n >= 1 /\ n <= L + 1 BY <1>5
<1>10. ASSUME NEW k \in 1..L, NEW u \in U
       PROVE  ~(s[k].at <= u /\ u < End(s[k]))
  <2>1. u \notin F BY <1>4
  <2>2. ~Has(s[k], u) BY <1>7, <2>1, FreeUnit DEF F
  <2>3. u \in Nat BY <1>1, <1>4
  <2> QED BY <1>7, <2>2, <2>3 DEF Has
\* the node before the block, and the one behind
<1>11. n > 1 => /\ n - 1 \in 1..L /\ End(s[n - 1]) <= mem
                /\ End(s[n - 1]) \in Nat
  <2> SUFFICES ASSUME n > 1 PROVE /\ n - 1 \in 1..L
                                  /\ End(s[n - 1]) <= mem
                                  /\ End(s[n - 1]) \in Nat
      OBVIOUS
  <2>1. n - 1 \in 1..L /\ n - 1 \in 1..(n - 1) BY <1>7, <1>9
  <2>2. s[n - 1].at <= mem BY <1>5, <2>1
  <2> QED BY <1>1, <1>4, <1>7, <1>10, <2>1, <2>2
<1>12. behind => /\ n \in 1..L /\ s[n].at \in Nat /\ End(s[n]) \in Nat
                 /\ s[n].size \in Nat /\ s[n].size > 0
                 /\ End(s[n]) = s[n].at + s[n].size
                 /\ End(s[n]) <= p.end
                 /\ mem + O <= s[n].at
  <2> SUFFICES ASSUME behind
               PROVE  /\ n \in 1..L /\ s[n].at \in Nat /\ End(s[n]) \in Nat
                      /\ s[n].size \in Nat /\ s[n].size > 0
                      /\ End(s[n]) = s[n].at + s[n].size
                      /\ End(s[n]) <= p.end
                      /\ mem + O <= s[n].at
      OBVIOUS
  <2>1. n \in 1..L BY <1>7, <1>9
  <2>2. mem < s[n].at BY <1>6
  <2>3. s[n].at \notin U BY <1>7, <1>10, <2>1
  <2>4. /\ s[n].at \in Nat /\ End(s[n]) \in Nat /\ s[n].size \in Nat
        /\ s[n].at < End(s[n]) /\ End(s[n]) = s[n].at + s[n].size
        /\ End(s[n]) <= p.end
        BY <1>7, <2>1
  <2>5. mem + O <= s[n].at BY <1>1, <1>4, <2>2, <2>3, <2>4
  <2>6. s[n].size > 0 BY <2>4
  <2> QED BY <2>1, <2>4, <2>5, <2>6
<1>13. CASE N = O
  <2>1. got.mem = mem /\ got.puddle = p BY <1>8, <1>13
  <2>2. U = V BY <1>1, <1>2, <1>13
  <2>3. (F \cup U) \ V = F /\ V \subseteq F \cup U BY <1>4, <2>2
  <2>4. Moves(p, mem, old, mem, new, p)
        BY <1>4, <2>3 DEF Moves, SamePlace, F, U, V, s
  <2> QED BY <1>4, <2>1, <2>4
<1>14. CASE N # O /\ (~behind \/ ~stays)
  <2>1. got = StaticMove(p, mem, Rounded(old), Rounded(new))
    <3> HIDE DEF behind, stays
    <3> QED BY <1>8, <1>14 DEF O, N
  <2> HIDE DEF behind, stays
  <2> QED BY <2>1, MoveMoves
<1>15. CASE N # O /\ behind /\ stays
  <2> DEFINE t == IF ~touches THEN InsertAt(s, n, rest)
                  ELSE IF s[n].size = N - O THEN RemoveAt(s, n)
                  ELSE [s EXCEPT ![n] = next]
  <2>1. got.mem = mem /\ got.puddle = R(t)
    <3> HIDE DEF behind, stays, t
    <3>1. got = [puddle |-> R(t), mem |-> mem] BY <1>8, <1>15 DEF t
    <3> QED BY <3>1
  <2>a. /\ n \in 1..L /\ s[n].at \in Nat /\ End(s[n]) \in Nat
        /\ s[n].size \in Nat /\ s[n].size > 0
        /\ End(s[n]) = s[n].at + s[n].size /\ End(s[n]) <= p.end
        /\ mem + O <= s[n].at
        BY <1>12, <1>15
  <2>b. stays BY <1>15
  <2>c. \A u : u \in F <=> \E k \in 1..L : Has(s[k], u)
        BY <1>7, FreeUnit DEF F
  <2>d. \A u : u \in U => u \notin F BY <1>4
  <2>e. n - 1 \in 0..L /\ n \in ((n - 1) + 1)..(L + 1)
        /\ n + 1 \in ((n - 1) + 1)..(L + 1)
        BY <1>7, <2>a
  <2>f. \A u : Kept(s, n - 1, n + 1, u) <=> u \in F /\ ~Has(s[n], u)
    <3>1. n \in 1..Len(s) BY <2>a DEF L
    <3> QED BY <1>3, <3>1, KeptIs DEF F
  <2>g. \A u : Has(s[n], u) => u \in F BY <2>a, <2>c
  <2>2. /\ Ordered(t, p.mem, p.end) /\ V \subseteq F \cup U
        /\ FreeUnits(t) = (F \cup U) \ V
    <3>1. CASE ~touches
      <4> DEFINE a == n - 1
      <4>1. N < O BY <2>b, <3>1
      <4>2. /\ rest \in FreeNode /\ rest.at = mem + N /\ rest.size > 0
            /\ End(rest) = mem + O
        <5>1. O - N \in Nat /\ O - N > 0 /\ mem + N \in Nat
              BY <1>1, <1>2, <1>4, <4>1
        <5>2. /\ rest.at = mem + N /\ rest.size = O - N
              /\ rest \in FreeNode
              BY <5>1 DEF Node, FreeNode
        <5>3. (mem + N) + (O - N) = mem + O BY <1>1, <1>2, <1>4
        <5> QED BY <5>1, <5>2, <5>3 DEF End
      <4> DEFINE x == rest
      <4>3. t = Spliced(s, a, x, n) BY <3>1 DEF Spliced, InsertAt
      <4>4. p.mem <= x.at /\ End(x) <= p.end
            BY <1>1, <1>2, <1>3, <1>4, <4>2
      <4>5. a > 0 => End(s[a]) < x.at
        <5>1. a > 0 => n > 1 BY <2>a, <1>7
        <5> QED BY <1>2, <1>4, <1>11, <4>2, <5>1
      <4>6. n <= Len(s) => End(x) < s[n].at
        <5>1. s[n].at # mem + O BY <1>15, <3>1
        <5> QED BY <1>1, <1>4, <2>a, <4>2, <5>1
      <4>7. a \in 0..Len(s) /\ n \in (a + 1)..(Len(s) + 1) BY <2>e DEF L
      <4> HIDE DEF t, a, x, rest
      <4>8. /\ Ordered(t, p.mem, p.end)
            /\ \A u : u \in FreeUnits(t) <=> Has(x, u) \/ Kept(s, a, n, u)
        <5>1. x \in FreeNode /\ x.size > 0 BY <4>2 DEF x
        <5> QED BY <1>3, <4>3, <4>4, <4>5, <4>6, <4>7, <5>1, SplicedNodes
      <4>9. \A u : Kept(s, a, n, u) <=> u \in F
        <5>1. \A k \in 1..L : k <= a \/ k >= n BY <1>7, <2>a DEF a
        <5> QED BY <2>c, <5>1 DEF Kept, L
      <4>10. \A u : Has(x, u) <=> u \in U /\ u \notin V
        <5>1. \A u : Has(x, u) <=> u \in (mem + N)..((mem + O) - 1)
              BY <4>2 DEF Has, x
        <5> QED BY <1>1, <1>2, <1>4, <4>1, <5>1
      <4>11. \A u : u \in V => u \in U BY <1>1, <1>2, <1>4, <4>1
      <4> QED BY <2>d, <4>8, <4>9, <4>10, <4>11
    <3>2. CASE touches /\ s[n].size = N - O
      <4> DEFINE a == n - 1
                 b == n + 1
      <4>1. t = Dropped(s, a, b) BY <3>2, RemoveIsDropped
      <4>2. a \in 0..Len(s) /\ b \in (a + 1)..(Len(s) + 1) BY <2>e DEF L
      <4> HIDE DEF t
      <4>3. /\ Ordered(t, p.mem, p.end)
            /\ \A u : u \in FreeUnits(t) <=> Kept(s, a, b, u)
        <5> HIDE DEF a, b
        <5> QED BY <1>3, <4>1, <4>2, DroppedNodes
      <4>4. s[n].at = mem + O /\ End(s[n]) = mem + N
        <5>1. s[n].at = mem + O /\ s[n].size = N - O BY <3>2
        <5> QED BY <1>1, <1>2, <1>4, <2>a, <5>1
      <4>5. \A u : Has(s[n], u) <=> u \in (mem + O)..((mem + N) - 1)
            BY <4>4 DEF Has
      <4>6. O < N BY <1>1, <1>2, <2>a, <3>2
      <4>7. \A u : u \in V <=> u \in U \/ Has(s[n], u)
            BY <1>1, <1>2, <1>4, <4>5, <4>6
      <4> QED BY <2>d, <2>f, <2>g, <4>3, <4>7
    <3>3. CASE touches /\ s[n].size # N - O
      <4> DEFINE a == n - 1
                 b == n + 1
                 e == End(s[n])
                 x == next
      <4>1. s[n].at = mem + O /\ s[n].size # N - O BY <3>3
      <4>2. N < O \/ s[n].size >= N - O BY <2>b
      <4>3. e \in Nat /\ mem + N < e /\ e = (mem + O) + s[n].size
            BY <1>1, <1>2, <1>4, <2>a, <4>1, <4>2
      <4>4. /\ x \in FreeNode /\ x.at = mem + N /\ x.size > 0 /\ End(x) = e
        <5> DEFINE z == s[n].size + O - N
        <5>1. z \in Nat /\ z > 0 /\ mem + N \in Nat /\ (mem + N) + z = e
              BY <1>1, <1>2, <1>4, <2>a, <4>3
        <5>2. x = Node(mem + N, z) OBVIOUS
        <5> HIDE DEF z, x, e
        <5>3. x.at = mem + N /\ x.size = z /\ x \in FreeNode
              BY <5>1, <5>2 DEF Node, FreeNode
        <5> QED BY <5>1, <5>3 DEF End
      <4>5. t = Spliced(s, a, x, b)
        <5>1. t = [s EXCEPT ![n] = x] BY <3>3
        <5> HIDE DEF t, x
        <5>2. n \in 1..Len(s) BY <2>a DEF L
        <5>3. s \in Seq(FreeNode) /\ x \in FreeNode BY <1>3, <4>4
        <5>4. [s EXCEPT ![n] = x] = Spliced(s, n - 1, x, n + 1)
              BY <5>2, <5>3, ExceptIsSpliced
        <5> QED BY <5>1, <5>4
      <4>6. a \in 0..Len(s) /\ b \in (a + 1)..(Len(s) + 1) BY <2>e DEF L
      <4>7. p.mem <= x.at /\ End(x) <= p.end
        <5> HIDE DEF x
        <5> QED BY <1>1, <1>2, <1>3, <1>4, <2>a, <4>4
      <4>8. a > 0 => End(s[a]) < x.at
        <5> HIDE DEF x
        <5>1. a > 0 => n > 1 BY <2>a, <1>7
        <5> QED BY <1>2, <1>4, <1>11, <4>4, <5>1
      <4>9. b <= Len(s) => End(x) < s[b].at
        <5> HIDE DEF x
        <5>1. b <= L => b \in 1..L /\ n < b BY <1>7, <2>a
        <5> QED BY <1>7, <2>a, <4>4, <5>1 DEF L
      <4> HIDE DEF t, x
      <4>10. /\ Ordered(t, p.mem, p.end)
             /\ \A u : u \in FreeUnits(t) <=> Has(x, u) \/ Kept(s, a, b, u)
        <5> HIDE DEF a, b
        <5> QED BY <1>3, <4>4, <4>5, <4>6, <4>7, <4>8, <4>9, SplicedNodes
      <4>11. \A u : Has(x, u) <=> u \in (mem + N)..(e - 1)
             BY <4>4 DEF Has
      <4>12. \A u : Has(s[n], u) <=> u \in (mem + O)..(e - 1)
             BY <4>1 DEF Has
      <4> HIDE DEF e
      <4>13. \A u : u \in U \/ Has(s[n], u) <=> u \in V \/ Has(x, u)
        <5>1. O <= e - mem /\ mem + O < e BY <1>1, <1>4, <2>a, <4>3
        <5> QED BY <1>1, <1>2, <1>4, <4>3, <4>11, <4>12, <5>1
      <4>14. \A u : u \in V => ~Has(x, u) BY <1>1, <1>2, <1>4, <4>3, <4>11
      <4> QED BY <2>d, <2>f, <2>g, <4>10, <4>13, <4>14
    <3> QED BY <3>1, <3>2, <3>3
  <2> HIDE DEF t
  <2>3. R(t) = Relisted(p, t, p.free + Rounded(old) - Rounded(new))
        BY DEF R, O, N
  <2>4. Moves(p, mem, old, mem, new, R(t))
        BY <2>2, <2>3, StaysMoves DEF F, U, V, s
  <2> HIDE DEF behind, stays
  <2> QED BY <1>4, <2>1, <2>4
<1> HIDE DEF behind, stays
<1> QED BY <1>13, <1>14, <1>15
-----------------------------------------------------------------------------
(* Puddles and blocks. *)

LEMMA BlockIs ==
    ASSUME NEW b \in Blocks
    PROVE  /\ b.mem \in Nat /\ b.size \in Nat /\ b.size > 0 /\ b.size \in Sizes
           /\ b.mem \in Of(b)
           /\ b = [mem |-> b.mem, size |-> b.size]
           /\ Of(b) = Units(b.mem, b.size)
<1>1. b.mem \in Nat /\ b.size \in Sizes /\ b = [mem |-> b.mem, size |-> b.size]
      BY DEF Blocks
<1>2. b.size \in Nat /\ b.size > 0 BY <1>1, MemoryAssumption
<1>3. Rounded(b.size) \in Nat /\ Rounded(b.size) > 0 BY <1>2, RoundedUp
<1>4. b.mem \in Units(b.mem, b.size) BY <1>1, <1>3 DEF Units
<1> QED BY <1>1, <1>2, <1>4 DEF Of

LEMMA UsedUnit ==
    ASSUME NEW B, NEW u PROVE u \in Used(B) <=> \E b \in B : u \in Of(b)
BY DEF Used

\* No two puddles share a unit.
LEMMA WholesApart ==
    ASSUME NEW p, NEW q, Sound(p), Sound(q), p.mem # q.mem
    PROVE  Whole(p) \cap Whole(q) = {}
<1>1. /\ p.mem \in Nat /\ q.mem \in Nat /\ p.end \in Nat /\ q.end \in Nat
      BY SoundIs
<1>2. Placed(p) /\ Placed(q) BY DEF Sound
<1>3. p.mem < q.mem => p.end <= q.mem BY <1>2 DEF Placed
<1>4. q.mem < p.mem => q.end <= p.mem BY <1>2 DEF Placed
<1> QED BY <1>1, <1>3, <1>4 DEF Whole

\* A block is in one puddle only.
LEMMA OnePuddle ==
    ASSUME NEW S, NEW B, Tiles(S, B), NEW p \in S, NEW q \in S, NEW u,
           u \in Whole(p), u \in Whole(q)
    PROVE  p = q
<1>1. Sound(p) /\ Sound(q) /\ (p.mem = q.mem => p = q) BY DEF Tiles
<1>2. p.mem = q.mem BY <1>1, WholesApart
<1> QED BY <1>1, <1>2

StaysBusy(S, B, p, T, C) ==
    \A b \in C : Busy(S, B) /\ Of(b) \subseteq Whole(p) => Busy(T, C)

\* In one puddle the blocks X go and the blocks Y come.
LEMMA Exchanged ==
    ASSUME NEW S, NEW B, Tiles(S, B), NEW p \in S,
           NEW q, Sound(q), q.mem = p.mem, q.end = p.end, ~q.large,
           NEW X \in SUBSET B, \A b \in X : Of(b) \subseteq Whole(p),
           NEW Y \in SUBSET Blocks,
           \A b, c \in Y : b # c => Of(b) \cap Of(c) = {},
           Used(Y) \subseteq FreeUnits(p.nodes) \cup Used(X),
           FreeUnits(q.nodes) =
              (FreeUnits(p.nodes) \cup Used(X)) \ Used(Y),
           NEW C, C = (B \ X) \cup Y, NEW T, T = (S \ {p}) \cup {q}
    PROVE  /\ Tiles(T, C)
           /\ StaysBusy(S, B, p, T, C)
<1>1. /\ \A r \in S : Sound(r)
      /\ \A r, w \in S : r.mem = w.mem => r = w
      /\ B \subseteq Blocks
      /\ \A b \in B : \E r \in S : Of(b) \subseteq Whole(r)
      /\ \A b, c \in B : b # c => Of(b) \cap Of(c) = {}
      /\ \A r \in S : FreeUnits(r.nodes) = Whole(r) \ Used(B)
      /\ \A r \in S : r.large => \E b \in B : Of(b) = Whole(r)
      BY DEF Tiles
<1>2. Whole(q) = Whole(p) BY DEF Whole
<1>3. \A r \in T : Sound(r) BY <1>1
<1>4. \A r, w \in T : r.mem = w.mem => r = w BY <1>1
<1>5. C \subseteq Blocks BY <1>1
<1>6. Used(X) \subseteq Whole(p) BY UsedUnit
<1>7. FreeUnits(p.nodes) = Whole(p) \ Used(B) BY <1>1
<1>8. Used(Y) \subseteq Whole(p) BY <1>6, <1>7
<1>9. \A b \in Y : Of(b) \subseteq Whole(p) BY <1>8, UsedUnit
\* a block that stays shares no unit with those that go or come
<1>10. \A b \in B \ X : Of(b) \cap Used(X) = {}
  <2> SUFFICES ASSUME NEW b \in B \ X, NEW u \in Of(b), u \in Used(X)
               PROVE  FALSE
      OBVIOUS
  <2>1. PICK c \in X : u \in Of(c) BY UsedUnit
  <2> QED BY <1>1, <2>1
<1>11. \A b \in B \ X : Of(b) \cap Used(Y) = {}
  <2> SUFFICES ASSUME NEW b \in B \ X, NEW u \in Of(b), u \in Used(Y)
               PROVE  FALSE
      OBVIOUS
  <2>1. u \in Used(B) BY UsedUnit
  <2> QED BY <1>7, <1>10, <2>1
<1>12. \A b \in Y : Of(b) \subseteq Used(Y) BY UsedUnit
<1>13. \A b, c \in C : b # c => Of(b) \cap Of(c) = {}
  <2> SUFFICES ASSUME NEW b \in C, NEW c \in C, b # c
               PROVE  Of(b) \cap Of(c) = {}
      OBVIOUS
  <2>1. CASE b \in B \ X /\ c \in B \ X BY <1>1, <2>1
  <2>2. CASE b \in B \ X /\ c \in Y BY <1>11, <1>12, <2>2
  <2>3. CASE b \in Y /\ c \in B \ X BY <1>11, <1>12, <2>3
  <2>4. CASE b \in Y /\ c \in Y BY <2>4
  <2> QED BY <2>1, <2>2, <2>3, <2>4
<1>14. \A b \in C : \E r \in T : Of(b) \subseteq Whole(r)
  <2> SUFFICES ASSUME NEW b \in C PROVE \E r \in T : Of(b) \subseteq Whole(r)
      OBVIOUS
  <2>1. CASE b \in Y BY <1>2, <1>9, <2>1
  <2>2. CASE b \in B BY <1>1, <1>2, <2>2
  <2> QED BY <2>1, <2>2
<1>15. \A u : u \in Used(C) <=> (u \in Used(B) /\ u \notin Used(X))
                                  \/ u \in Used(Y)
  <2> TAKE u
  <2>1. u \in Used(C) => (u \in Used(B) /\ u \notin Used(X)) \/ u \in Used(Y)
    <3> SUFFICES ASSUME u \in Used(C), u \notin Used(Y)
                 PROVE  u \in Used(B) /\ u \notin Used(X)
        OBVIOUS
    <3>1. PICK b \in C : u \in Of(b) BY UsedUnit
    <3>2. b \in B \ X BY <1>12, <3>1
    <3> QED BY <1>10, <3>1, <3>2, UsedUnit
  <2>2. (u \in Used(B) /\ u \notin Used(X)) => u \in Used(C)
    <3> SUFFICES ASSUME u \in Used(B), u \notin Used(X)
                 PROVE  u \in Used(C)
        OBVIOUS
    <3>1. PICK b \in B : u \in Of(b) BY UsedUnit
    <3>2. b \notin X BY <3>1, UsedUnit
    <3> QED BY <3>1, <3>2, UsedUnit
  <2>3. u \in Used(Y) => u \in Used(C)
    <3> SUFFICES ASSUME u \in Used(Y) PROVE u \in Used(C) OBVIOUS
    <3>1. PICK b \in Y : u \in Of(b) BY UsedUnit
    <3> QED BY <3>1, UsedUnit
  <2> QED BY <2>1, <2>2, <2>3
<1>16. \A r \in S : r # p => Whole(r) \cap Whole(p) = {}
       BY OnePuddle
<1>17. \A r \in T : FreeUnits(r.nodes) = Whole(r) \ Used(C)
  <2> SUFFICES ASSUME NEW r \in T
               PROVE  FreeUnits(r.nodes) = Whole(r) \ Used(C)
      OBVIOUS
  <2>1. CASE r = q
    <3>1. FreeUnits(q.nodes) = ((Whole(p) \ Used(B)) \cup Used(X)) \ Used(Y)
          BY <1>7
    <3>2. Used(X) \subseteq Used(B) BY UsedUnit
    <3> QED BY <1>2, <1>6, <1>15, <2>1, <3>1
  <2>2. CASE r # q
    <3>1. r \in S /\ r # p BY <2>2
    <3>2. FreeUnits(r.nodes) = Whole(r) \ Used(B) BY <1>1, <3>1
    <3> QED BY <1>6, <1>8, <1>15, <1>16, <3>1, <3>2
  <2> QED BY <2>1, <2>2
<1>18. \A r \in S : \A b \in B :
          r # p /\ Of(b) \subseteq Whole(r) => b \in C
  <2> SUFFICES ASSUME NEW r \in S, NEW b \in B, r # p,
                      Of(b) \subseteq Whole(r), b \in X
               PROVE  FALSE
      OBVIOUS
  <2>1. b.mem \in Of(b) BY <1>1, BlockIs
  <2> QED BY <1>16, <2>1
<1>19. \A r \in T : r.large => \E b \in C : Of(b) = Whole(r)
  <2> SUFFICES ASSUME NEW r \in T, r.large
               PROVE  \E b \in C : Of(b) = Whole(r)
      OBVIOUS
  <2>1. r \in S /\ r # p OBVIOUS
  <2>2. PICK b \in B : Of(b) = Whole(r) BY <1>1, <2>1
  <2> QED BY <1>18, <2>1, <2>2
<1>20. Tiles(T, C)
       BY <1>3, <1>4, <1>5, <1>13, <1>14, <1>17, <1>19 DEF Tiles
<1>21. ASSUME Busy(S, B), NEW c \in C, Of(c) \subseteq Whole(p)
       PROVE  Busy(T, C)
  <2> SUFFICES ASSUME NEW r \in T PROVE \E b \in C : Of(b) \subseteq Whole(r)
      BY DEF Busy
  <2>1. CASE r = q BY <1>2, <1>21, <2>1
  <2>2. CASE r # q
    <3>1. r \in S /\ r # p BY <2>2
    <3>2. PICK b \in B : Of(b) \subseteq Whole(r) BY <1>21, <3>1 DEF Busy
    <3> QED BY <1>18, <3>1, <3>2
  <2> QED BY <2>1, <2>2
<1> QED BY <1>20, <1>21 DEF StaysBusy
\* A puddle goes with the blocks X, which were all of its blocks.
LEMMA Flushed ==
    ASSUME NEW S, NEW B, Tiles(S, B), NEW p \in S,
           NEW X \in SUBSET B, \A b \in X : Of(b) \subseteq Whole(p),
           \A b \in B \ X : ~(Of(b) \subseteq Whole(p)),
           NEW C, C = B \ X, NEW T, T = S \ {p}
    PROVE  Tiles(T, C) /\ (Busy(S, B) => Busy(T, C))
<1>1. /\ \A r \in S : Sound(r)
      /\ \A r, w \in S : r.mem = w.mem => r = w
      /\ B \subseteq Blocks
      /\ \A b \in B : \E r \in S : Of(b) \subseteq Whole(r)
      /\ \A b, c \in B : b # c => Of(b) \cap Of(c) = {}
      /\ \A r \in S : FreeUnits(r.nodes) = Whole(r) \ Used(B)
      /\ \A r \in S : r.large => \E b \in B : Of(b) = Whole(r)
      BY DEF Tiles
<1>2. \A r \in T : \A b \in B : Of(b) \subseteq Whole(r) => b \in C
  <2> SUFFICES ASSUME NEW r \in T, NEW b \in X, Of(b) \subseteq Whole(r)
               PROVE  FALSE
      OBVIOUS
  <2>1. b.mem \in Of(b) BY <1>1, BlockIs
  <2> QED BY <2>1, OnePuddle
<1>3. \A r \in T : \A u \in Whole(r) : u \in Used(B) <=> u \in Used(C)
  <2> SUFFICES ASSUME NEW r \in T, NEW u \in Whole(r)
               PROVE  u \in Used(B) <=> u \in Used(C)
      OBVIOUS
  <2>1. ASSUME u \in Used(B) PROVE u \in Used(C)
    <3>1. PICK b \in B : u \in Of(b) BY <2>1, UsedUnit
    <3>2. PICK w \in S : Of(b) \subseteq Whole(w) BY <1>1
    <3>3. w = r BY <3>1, <3>2, OnePuddle
    <3>4. b \in C BY <1>2, <3>2, <3>3
    <3> QED BY <3>1, <3>4, UsedUnit
  <2>2. ASSUME u \in Used(C) PROVE u \in Used(B)
    <3>1. PICK b \in C : u \in Of(b) BY <2>2, UsedUnit
    <3> QED BY <3>1, UsedUnit
  <2> QED BY <2>1, <2>2
<1>4. \A r \in T : FreeUnits(r.nodes) = Whole(r) \ Used(C) BY <1>1, <1>3
<1>5. \A r \in T : r.large => \E b \in C : Of(b) = Whole(r)
  <2> SUFFICES ASSUME NEW r \in T, r.large
               PROVE  \E b \in C : Of(b) = Whole(r)
      OBVIOUS
  <2>1. PICK b \in B : Of(b) = Whole(r) BY <1>1
  <2> QED BY <1>2, <2>1
<1>6. \A b \in C : \E r \in T : Of(b) \subseteq Whole(r)
  <2> TAKE b \in C
  <2>1. PICK r \in S : Of(b) \subseteq Whole(r) BY <1>1
  <2>2. r # p BY <2>1
  <2> QED BY <2>1, <2>2
<1>7. Tiles(T, C) BY <1>1, <1>4, <1>5, <1>6 DEF Tiles
<1>8. ASSUME Busy(S, B) PROVE Busy(T, C)
  <2> SUFFICES ASSUME NEW r \in T PROVE \E b \in C : Of(b) \subseteq Whole(r)
      BY DEF Busy
  <2>1. PICK b \in B : Of(b) \subseteq Whole(r) BY <1>8 DEF Busy
  <2> QED BY <1>2, <2>1
<1> QED BY <1>7, <1>8

\* A puddle comes with a block.
LEMMA Added ==
    ASSUME NEW S, NEW B, Tiles(S, B),
           NEW q, Sound(q), \A p \in S : p.mem # q.mem,
           NEW c \in Blocks, Of(c) \subseteq Whole(q),
           FreeUnits(q.nodes) = Whole(q) \ Of(c),
           q.large => Of(c) = Whole(q),
           NEW C, C = B \cup {c}, NEW T, T = S \cup {q}
    PROVE  Tiles(T, C) /\ (Busy(S, B) => Busy(T, C)) /\ c \notin B
<1>1. /\ \A r \in S : Sound(r)
      /\ \A r, w \in S : r.mem = w.mem => r = w
      /\ B \subseteq Blocks
      /\ \A b \in B : \E r \in S : Of(b) \subseteq Whole(r)
      /\ \A b, d \in B : b # d => Of(b) \cap Of(d) = {}
      /\ \A r \in S : FreeUnits(r.nodes) = Whole(r) \ Used(B)
      /\ \A r \in S : r.large => \E b \in B : Of(b) = Whole(r)
      BY DEF Tiles
<1>2. \A r \in S : Whole(r) \cap Whole(q) = {} BY <1>1, WholesApart
<1>3. \A b \in B : Of(b) \cap Whole(q) = {} BY <1>1, <1>2
<1>4. Used(B) \cap Whole(q) = {} BY <1>3, UsedUnit
<1>5. \A u : u \in Used(C) <=> u \in Used(B) \/ u \in Of(c)
  <2> TAKE u
  <2>1. u \in Used(C) <=> \E b \in C : u \in Of(b) BY UsedUnit
  <2>2. u \in Used(B) <=> \E b \in B : u \in Of(b) BY UsedUnit
  <2> QED BY <2>1, <2>2
<1>6. \A r \in T : FreeUnits(r.nodes) = Whole(r) \ Used(C)
  <2> SUFFICES ASSUME NEW r \in T
               PROVE  FreeUnits(r.nodes) = Whole(r) \ Used(C)
      OBVIOUS
  <2>1. CASE r = q BY <1>4, <1>5, <2>1
  <2>2. CASE r # q
    <3>1. r \in S BY <2>2
    <3>2. FreeUnits(r.nodes) = Whole(r) \ Used(B) BY <1>1, <3>1
    <3>3. Whole(r) \cap Of(c) = {} BY <1>2, <3>1
    <3> QED BY <1>5, <3>2, <3>3
  <2> QED BY <2>1, <2>2
<1>7. \A b, d \in C : b # d => Of(b) \cap Of(d) = {} BY <1>1, <1>3
<1>8. \A b \in C : \E r \in T : Of(b) \subseteq Whole(r) BY <1>1
<1>9. \A r \in T : r.large => \E b \in C : Of(b) = Whole(r) BY <1>1
<1>10. \A r, w \in T : r.mem = w.mem => r = w BY <1>1
<1>11. Tiles(T, C) BY <1>1, <1>6, <1>7, <1>8, <1>9, <1>10 DEF Tiles
<1>12. Busy(S, B) => Busy(T, C) BY DEF Busy
<1>13. c \notin B
  <2>1. c.mem \in Of(c) BY BlockIs
  <2> QED BY <1>3, <2>1
<1> QED BY <1>11, <1>12, <1>13
-----------------------------------------------------------------------------
(* The list of puddles. *)

LEMMA LinedIs ==
    ASSUME NEW L, Lined(L)
    PROVE  /\ L \in Seq(Puddle) /\ Len(L) \in Nat /\ DOMAIN L = 1..Len(L)
           /\ \A i \in 1..Len(L) : /\ L[i] \in Puddle /\ L[i] \in ToSet(L)
                                   /\ L[i].large \in BOOLEAN
           /\ \A i, j \in 1..Len(L) : L[i].mem = L[j].mem => i = j
           /\ \A i, j \in 1..Len(L) : L[i].large /\ i < j => L[j].large
           /\ \A p : p \in ToSet(L) <=> \E i \in 1..Len(L) : p = L[i]
<1>1. L \in Seq(Puddle) BY DEF Lined
<1>2. Len(L) \in Nat /\ DOMAIN L = 1..Len(L) BY <1>1, LenProperties
<1>3. \A i \in 1..Len(L) : L[i] \in Puddle BY <1>1, ElementOfSeq
<1>4. \A p \in Puddle : p.large \in BOOLEAN BY DEF Puddle
<1> QED BY <1>1, <1>2, <1>3, <1>4 DEF Lined, ToSet

\* What makes a list lined, and its puddles.
LEMMA IsLined ==
    ASSUME NEW L \in Seq(Puddle),
           \A i, j \in 1..Len(L) : L[i].mem = L[j].mem => i = j,
           \A i, j \in 1..Len(L) : L[i].large /\ i < j => L[j].large
    PROVE  /\ Lined(L)
           /\ \A p : p \in ToSet(L) <=> \E i \in 1..Len(L) : p = L[i]
<1>1. DOMAIN L = 1..Len(L) BY LenProperties
<1> QED BY <1>1 DEF Lined, ToSet

\* A puddle in the place of another that has the same memory.
LEMMA LinedReplaced ==
    ASSUME NEW L, Lined(L), NEW i \in 1..Len(L),
           NEW q \in Puddle, q.mem = L[i].mem, q.large = L[i].large,
           NEW T, T = Replaced(L, i, q)
    PROVE  /\ Lined(T) /\ Len(T) = Len(L) /\ T[i] = q
           /\ ToSet(T) = (ToSet(L) \ {L[i]}) \cup {q}
<1>1. /\ L \in Seq(Puddle) /\ Len(L) \in Nat
      /\ \A k, j \in 1..Len(L) : L[k].mem = L[j].mem => k = j
      /\ \A k, j \in 1..Len(L) : L[k].large /\ k < j => L[j].large
      /\ \A p : p \in ToSet(L) <=> \E k \in 1..Len(L) : p = L[k]
      BY LinedIs
<1>2. /\ T \in Seq(Puddle) /\ Len(T) = Len(L)
      /\ \A k \in 1..Len(L) : T[k] = IF k = i THEN q ELSE L[k]
      BY <1>1, ExceptSeq DEF Replaced
<1>3. \A k \in 1..Len(L) : T[k].mem = L[k].mem /\ T[k].large = L[k].large
      BY <1>2
<1>4. /\ \A k, j \in 1..Len(T) : T[k].mem = T[j].mem => k = j
      /\ \A k, j \in 1..Len(T) : T[k].large /\ k < j => T[j].large
      BY <1>1, <1>2, <1>3
<1>5. Lined(T) /\ \A p : p \in ToSet(T) <=> \E k \in 1..Len(T) : p = T[k]
      BY <1>2, <1>4, IsLined
<1>6. \A p : p \in ToSet(T) <=> p \in (ToSet(L) \ {L[i]}) \cup {q}
  <2> TAKE p
  <2>1. ASSUME p \in ToSet(T) PROVE p \in (ToSet(L) \ {L[i]}) \cup {q}
    <3>1. PICK k \in 1..Len(T) : p = T[k] BY <1>5, <2>1
    <3>2. CASE k = i BY <1>2, <3>1, <3>2
    <3>3. CASE k # i
      <4>1. p = L[k] /\ p \in ToSet(L) BY <1>1, <1>2, <3>1, <3>3
      <4>2. p # L[i] BY <1>1, <1>2, <3>3, <4>1
      <4> QED BY <4>1, <4>2
    <3> QED BY <3>2, <3>3
  <2>2. ASSUME p \in ToSet(L), p # L[i] PROVE p \in ToSet(T)
    <3>1. PICK k \in 1..Len(L) : p = L[k] BY <1>1, <2>2
    <3>2. p = T[k] /\ k \in 1..Len(T) BY <1>2, <2>2, <3>1
    <3> QED BY <1>5, <3>2
  <2>3. q \in ToSet(T)
    <3>1. q = T[i] /\ i \in 1..Len(T) BY <1>2
    <3> QED BY <1>5, <3>1
  <2> QED BY <2>1, <2>2, <2>3
<1> QED BY <1>2, <1>5, <1>6

\* A puddle that moves up.
LEMMA LinedUp ==
    ASSUME NEW L, Lined(L), NEW i \in 1..Len(L), ~L[i].large,
           NEW T, T = Up(L, i)
    PROVE  Lined(T) /\ Len(T) = Len(L) /\ ToSet(T) = ToSet(L)
<1>1. /\ L \in Seq(Puddle) /\ Len(L) \in Nat
      /\ \A k \in 1..Len(L) : L[k] \in Puddle
      /\ \A k, j \in 1..Len(L) : L[k].mem = L[j].mem => k = j
      /\ \A k, j \in 1..Len(L) : L[k].large /\ k < j => L[j].large
      /\ \A p : p \in ToSet(L) <=> \E k \in 1..Len(L) : p = L[k]
      BY LinedIs
<1>2. CASE i = 1 BY <1>2 DEF Up
<1>3. CASE i # 1
  <2> DEFINE h == i - 1
             f(k) == IF k = h THEN i ELSE IF k = i THEN h ELSE k
             R == [L EXCEPT ![h] = L[i]]
  <2>1. h \in 1..Len(L) /\ h < i /\ h # i BY <1>1, <1>3
  <2>2. T = [R EXCEPT ![i] = L[h]] BY <1>3 DEF Up
  <2> HIDE DEF h
  <2>3. /\ R \in Seq(Puddle) /\ Len(R) = Len(L)
        /\ \A k \in 1..Len(L) : R[k] = IF k = h THEN L[i] ELSE L[k]
        BY <1>1, <2>1, ExceptSeq
  <2> HIDE DEF R
  <2>4. /\ T \in Seq(Puddle) /\ Len(T) = Len(L)
        /\ \A k \in 1..Len(L) : T[k] = IF k = i THEN L[h] ELSE R[k]
        BY <1>1, <2>1, <2>2, <2>3, ExceptSeq
  <2>5. \A k \in 1..Len(L) : f(k) \in 1..Len(L) /\ T[k] = L[f(k)]
        BY <2>1, <2>3, <2>4
  <2>6. \A k \in 1..Len(L) : f(f(k)) = k BY <2>1
  <2>7. \A k \in 1..Len(L) : T[k].large = L[k].large
    <3>1. ~L[h].large BY <1>1, <2>1
    <3>2. L[h].large = L[i].large
      <4>1. L[h].large \in BOOLEAN /\ L[i].large \in BOOLEAN
            BY <2>1, LinedIs
      <4> QED BY <3>1, <4>1
    <3> QED BY <2>1, <2>5, <3>2
  <2>8. \A k, j \in 1..Len(T) : T[k].large /\ k < j => T[j].large
        BY <1>1, <2>4, <2>7
  <2>9. \A k, j \in 1..Len(T) : T[k].mem = T[j].mem => k = j
    <3> SUFFICES ASSUME NEW k \in 1..Len(T), NEW j \in 1..Len(T),
                        T[k].mem = T[j].mem
                 PROVE  k = j
        OBVIOUS
    <3>1. /\ f(k) \in 1..Len(L) /\ f(j) \in 1..Len(L)
          /\ L[f(k)].mem = L[f(j)].mem
          BY <2>4, <2>5
    <3>2. f(f(k)) = k /\ f(f(j)) = j BY <2>4, <2>6
    <3> HIDE DEF f
    <3>3. f(k) = f(j) BY <1>1, <3>1
    <3> QED BY <3>2, <3>3
  <2>10. Lined(T) /\ \A p : p \in ToSet(T) <=> \E k \in 1..Len(T) : p = T[k]
         BY <2>4, <2>8, <2>9, IsLined
  <2>11. \A p : p \in ToSet(T) <=> p \in ToSet(L)
    <3> TAKE p
    <3>1. ASSUME p \in ToSet(T) PROVE p \in ToSet(L)
      <4>1. PICK k \in 1..Len(L) : p = T[k] BY <2>4, <2>10, <3>1
      <4>2. f(k) \in 1..Len(L) /\ p = L[f(k)] BY <2>5, <4>1
      <4> HIDE DEF f
      <4> QED BY <1>1, <4>2
    <3>2. ASSUME p \in ToSet(L) PROVE p \in ToSet(T)
      <4>1. PICK k \in 1..Len(L) : p = L[k] BY <1>1, <3>2
      <4>2. f(k) \in 1..Len(L) /\ f(f(k)) = k BY <2>5, <2>6
      <4>3. T[f(k)] = L[f(f(k))]
        <5> HIDE DEF f
        <5> QED BY <2>5, <4>2
      <4> HIDE DEF f
      <4>4. p = T[f(k)] /\ f(k) \in 1..Len(T) BY <2>4, <4>1, <4>2, <4>3
      <4> QED BY <2>10, <4>4
    <3> QED BY <3>1, <3>2
  <2> QED BY <2>4, <2>10, <2>11
<1> QED BY <1>2, <1>3
\* A puddle that is flushed.
LEMMA LinedRemoved ==
    ASSUME NEW L, Lined(L), NEW i \in 1..Len(L),
           NEW T, T = RemoveAt(L, i)
    PROVE  Lined(T) /\ ToSet(T) = ToSet(L) \ {L[i]}
<1>1. /\ L \in Seq(Puddle) /\ Len(L) \in Nat
      /\ \A k, j \in 1..Len(L) : L[k].mem = L[j].mem => k = j
      /\ \A k, j \in 1..Len(L) : L[k].large /\ k < j => L[j].large
      /\ \A p : p \in ToSet(L) <=> \E k \in 1..Len(L) : p = L[k]
      BY LinedIs
<1> DEFINE a == i - 1
           b == i + 1
           n == Len(L) - 1
           f(k) == IF k < i THEN k ELSE k + 1
<1>2. /\ a \in 0..Len(L) /\ b \in (a + 1)..(Len(L) + 1)
      /\ a + (Len(L) + 1 - b) = n /\ n \in Nat
      BY <1>1
<1>3. T \in Seq(Puddle) /\ DroppedIs(L, a, b, T)
  <2>1. T = Dropped(L, a, b) BY RemoveIsDropped
  <2> HIDE DEF a, b
  <2> QED BY <1>1, <1>2, <2>1, DroppedItems
<1>4. /\ Len(T) = n
      /\ \A k \in 1..n : T[k] = IF k <= a THEN L[k] ELSE L[k - (a + 1) + b]
  <2> HIDE DEF a, b, n
  <2> QED BY <1>2, <1>3 DEF DroppedIs
<1>5. \A k \in 1..n : f(k) \in 1..Len(L) /\ f(k) # i /\ T[k] = L[f(k)]
  <2> SUFFICES ASSUME NEW k \in 1..n
               PROVE  f(k) \in 1..Len(L) /\ f(k) # i /\ T[k] = L[f(k)]
      OBVIOUS
  <2>1. CASE k < i
    <3>1. k <= a /\ k \in 1..Len(L) /\ k # i BY <1>1, <2>1
    <3> QED BY <1>4, <2>1, <3>1
  <2>2. CASE ~(k < i)
    <3>1. /\ ~(k <= a) /\ k - (a + 1) + b = k + 1 /\ k + 1 \in 1..Len(L)
          /\ k + 1 # i
          BY <1>1, <2>2
    <3>2. T[k] = L[k - (a + 1) + b] BY <1>4, <3>1
    <3> QED BY <2>2, <3>1, <3>2
  <2> QED BY <2>1, <2>2
<1>6. \A k, j \in 1..n : /\ k < j => f(k) < f(j)
                         /\ f(k) = f(j) => k = j
      BY <1>2
<1>7. \A k \in 1..Len(L) : k # i => \E j \in 1..n : f(j) = k
  <2> SUFFICES ASSUME NEW k \in 1..Len(L), k # i PROVE \E j \in 1..n : f(j) = k
      OBVIOUS
  <2>1. CASE k < i
    <3>1. k \in 1..n /\ f(k) = k BY <1>1, <2>1
    <3> QED BY <3>1
  <2>2. CASE k > i
    <3>1. k - 1 \in 1..n /\ f(k - 1) = k BY <1>1, <2>2
    <3> HIDE DEF f
    <3> QED BY <3>1
  <2> QED BY <1>1, <2>1, <2>2
<1> HIDE DEF f, n, a, b
<1>8. \A k, j \in 1..Len(T) : T[k].large /\ k < j => T[j].large
  <2> SUFFICES ASSUME NEW k \in 1..n, NEW j \in 1..n, T[k].large, k < j
               PROVE  T[j].large
      BY <1>4
  <2>1. /\ f(k) \in 1..Len(L) /\ f(j) \in 1..Len(L) /\ f(k) < f(j)
        /\ L[f(k)].large /\ T[j] = L[f(j)]
        BY <1>5, <1>6
  <2> QED BY <1>1, <2>1
<1>9. \A k, j \in 1..Len(T) : T[k].mem = T[j].mem => k = j
  <2> SUFFICES ASSUME NEW k \in 1..n, NEW j \in 1..n, T[k].mem = T[j].mem
               PROVE  k = j
      BY <1>4
  <2>1. /\ f(k) \in 1..Len(L) /\ f(j) \in 1..Len(L)
        /\ L[f(k)].mem = L[f(j)].mem
        BY <1>5
  <2>2. f(k) = f(j) BY <1>1, <2>1
  <2> QED BY <1>6, <2>2
<1>10. Lined(T) /\ \A p : p \in ToSet(T) <=> \E k \in 1..Len(T) : p = T[k]
       BY <1>3, <1>8, <1>9, IsLined
<1>11. \A p : p \in ToSet(T) <=> p \in ToSet(L) \ {L[i]}
  <2> TAKE p
  <2>1. ASSUME p \in ToSet(T) PROVE p \in ToSet(L) \ {L[i]}
    <3>1. PICK k \in 1..n : p = T[k] BY <1>4, <1>10, <2>1
    <3>2. f(k) \in 1..Len(L) /\ f(k) # i /\ p = L[f(k)] BY <1>5, <3>1
    <3>3. p \in ToSet(L) BY <1>1, <3>2
    <3>4. p # L[i] BY <1>1, <3>2
    <3> QED BY <3>3, <3>4
  <2>2. ASSUME p \in ToSet(L), p # L[i] PROVE p \in ToSet(T)
    <3>1. PICK k \in 1..Len(L) : p = L[k] BY <1>1, <2>2
    <3>2. PICK j \in 1..n : f(j) = k BY <1>7, <2>2, <3>1
    <3>3. p = T[j] /\ j \in 1..Len(T) BY <1>4, <1>5, <3>1, <3>2
    <3> QED BY <1>10, <3>3
  <2> QED BY <2>1, <2>2
<1> QED BY <1>10, <1>11

\* A puddle in front of the others, or behind them.
LEMMA LinedFirst ==
    ASSUME NEW L, Lined(L), NEW q \in Puddle, ~q.large,
           \A p \in ToSet(L) : p.mem # q.mem,
           NEW T, T = <<q>> \o L
    PROVE  Lined(T) /\ ToSet(T) = ToSet(L) \cup {q}
<1>1. /\ L \in Seq(Puddle) /\ Len(L) \in Nat
      /\ \A k \in 1..Len(L) : L[k] \in ToSet(L)
      /\ \A k, j \in 1..Len(L) : L[k].mem = L[j].mem => k = j
      /\ \A k, j \in 1..Len(L) : L[k].large /\ k < j => L[j].large
      /\ \A p : p \in ToSet(L) <=> \E k \in 1..Len(L) : p = L[k]
      BY LinedIs
<1>2. /\ T \in Seq(Puddle) /\ Len(T) = 1 + Len(L) /\ T[1] = q
      /\ \A k \in 1..Len(T) : k # 1 => k - 1 \in 1..Len(L) /\ T[k] = L[k - 1]
  <2> DEFINE s == <<q>>
  <2>1. s \in Seq(Puddle) /\ Len(s) = 1 /\ s[1] = q OBVIOUS
  <2>2. T = s \o L OBVIOUS
  <2>a. s \in Seq(Puddle) /\ L \in Seq(Puddle) BY <1>1, <2>1
  <2> HIDE DEF s
  <2>3. /\ s \o L \in Seq(Puddle) /\ Len(s \o L) = Len(s) + Len(L)
        /\ \A k \in 1..(Len(s) + Len(L)) :
              (s \o L)[k] = IF k <= Len(s) THEN s[k] ELSE L[k - Len(s)]
        BY <2>a, ConcatProperties
  <2>4. T \in Seq(Puddle) /\ Len(T) = 1 + Len(L) BY <2>1, <2>2, <2>3
  <2>5. \A k \in 1..(1 + Len(L)) : T[k] = IF k <= 1 THEN s[k] ELSE L[k - 1]
        BY <2>1, <2>2, <2>3
  <2>6. \A k \in 1..(1 + Len(L)) : k # 1 => k - 1 \in 1..Len(L) /\ ~(k <= 1)
        BY <1>1
  <2>7. 1 \in 1..(1 + Len(L)) BY <1>1
  <2> QED BY <2>1, <2>4, <2>5, <2>6, <2>7
<1>3. \A k, j \in 1..Len(T) : T[k].large /\ k < j => T[j].large
  <2> SUFFICES ASSUME NEW k \in 1..Len(T), NEW j \in 1..Len(T),
                      T[k].large, k < j
               PROVE  T[j].large
      OBVIOUS
  <2>1. k # 1 /\ j # 1 BY <1>1, <1>2
  <2> DEFINE m == k - 1
             n == j - 1
  <2>2. /\ m \in 1..Len(L) /\ n \in 1..Len(L) /\ m < n
        /\ T[k] = L[m] /\ T[j] = L[n]
        BY <1>1, <1>2, <2>1
  <2> HIDE DEF m, n
  <2> QED BY <1>1, <2>2
<1>4. \A k, j \in 1..Len(T) : T[k].mem = T[j].mem => k = j
  <2> SUFFICES ASSUME NEW k \in 1..Len(T), NEW j \in 1..Len(T),
                      T[k].mem = T[j].mem
               PROVE  k = j
      OBVIOUS
  <2>1. CASE k = 1 /\ j = 1 BY <2>1
  <2>2. CASE k = 1 /\ j # 1
    <3>1. T[j] \in ToSet(L) BY <1>1, <1>2, <2>2
    <3> QED BY <1>2, <2>2, <3>1
  <2>3. CASE k # 1 /\ j = 1
    <3>1. T[k] \in ToSet(L) BY <1>1, <1>2, <2>3
    <3> QED BY <1>2, <2>3, <3>1
  <2>4. CASE k # 1 /\ j # 1
    <3> DEFINE m == k - 1
               n == j - 1
    <3>1. /\ m \in 1..Len(L) /\ n \in 1..Len(L) /\ L[m].mem = L[n].mem
          /\ k = m + 1 /\ j = n + 1
          BY <1>1, <1>2, <2>4
    <3> HIDE DEF m, n
    <3>2. m = n BY <1>1, <3>1
    <3> QED BY <3>1, <3>2
  <2> QED BY <2>1, <2>2, <2>3, <2>4
<1>5. Lined(T) /\ \A p : p \in ToSet(T) <=> \E k \in 1..Len(T) : p = T[k]
      BY <1>2, <1>3, <1>4, IsLined
<1>6. \A p : p \in ToSet(T) <=> p \in ToSet(L) \cup {q}
  <2> TAKE p
  <2>1. ASSUME p \in ToSet(T) PROVE p \in ToSet(L) \cup {q}
    <3>1. PICK k \in 1..Len(T) : p = T[k] BY <1>5, <2>1
    <3> QED BY <1>1, <1>2, <3>1
  <2>2. ASSUME p \in ToSet(L) PROVE p \in ToSet(T)
    <3>1. PICK k \in 1..Len(L) : p = L[k] BY <1>1, <2>2
    <3> DEFINE m == k + 1
    <3>2. m \in 1..Len(T) /\ m # 1 /\ m - 1 = k BY <1>1, <1>2
    <3> HIDE DEF m
    <3>3. p = T[m] BY <1>2, <3>1, <3>2
    <3> QED BY <1>5, <3>2, <3>3
  <2>3. q \in ToSet(T)
    <3>1. 1 \in 1..Len(T) BY <1>1, <1>2
    <3> QED BY <1>2, <1>5, <3>1
  <2> QED BY <2>1, <2>2, <2>3
<1> QED BY <1>5, <1>6

LEMMA LinedLast ==
    ASSUME NEW L, Lined(L), NEW q \in Puddle, q.large,
           \A p \in ToSet(L) : p.mem # q.mem,
           NEW T, T = Append(L, q)
    PROVE  Lined(T) /\ ToSet(T) = ToSet(L) \cup {q}
<1>1. /\ L \in Seq(Puddle) /\ Len(L) \in Nat
      /\ \A k \in 1..Len(L) : L[k] \in ToSet(L)
      /\ \A k, j \in 1..Len(L) : L[k].mem = L[j].mem => k = j
      /\ \A k, j \in 1..Len(L) : L[k].large /\ k < j => L[j].large
      /\ \A p : p \in ToSet(L) <=> \E k \in 1..Len(L) : p = L[k]
      BY LinedIs
<1> DEFINE n == Len(L) + 1
<1>2. /\ T \in Seq(Puddle) /\ Len(T) = n /\ T[n] = q
      /\ \A k \in 1..Len(L) : T[k] = L[k]
      BY <1>1, AppendProperties
<1>a. \A k \in 1..n : k # n => k \in 1..Len(L) BY <1>1
<1>3. \A k, j \in 1..Len(T) : T[k].large /\ k < j => T[j].large
  <2> SUFFICES ASSUME NEW k \in 1..n, NEW j \in 1..n, T[k].large, k < j
               PROVE  T[j].large
      BY <1>2
  <2>1. CASE j = n BY <1>2, <2>1
  <2>2. CASE j # n
    <3>1. j \in 1..Len(L) /\ k \in 1..Len(L) BY <1>1, <2>2
    <3> QED BY <1>1, <1>2, <3>1
  <2> QED BY <2>1, <2>2
<1> HIDE DEF n
<1>4. \A k, j \in 1..Len(T) : T[k].mem = T[j].mem => k = j
  <2> SUFFICES ASSUME NEW k \in 1..n, NEW j \in 1..n, T[k].mem = T[j].mem
               PROVE  k = j
      BY <1>2
  <2>1. CASE k = n /\ j = n BY <2>1
  <2>2. CASE k = n /\ j # n
    <3>1. T[j] \in ToSet(L) BY <1>1, <1>2, <1>a, <2>2
    <3> QED BY <1>2, <2>2, <3>1
  <2>3. CASE k # n /\ j = n
    <3>1. T[k] \in ToSet(L) BY <1>1, <1>2, <1>a, <2>3
    <3> QED BY <1>2, <2>3, <3>1
  <2>4. CASE k # n /\ j # n BY <1>1, <1>2, <1>a, <2>4
  <2> QED BY <2>1, <2>2, <2>3, <2>4
<1>5. Lined(T) /\ \A p : p \in ToSet(T) <=> \E k \in 1..Len(T) : p = T[k]
      BY <1>2, <1>3, <1>4, IsLined
<1>6. \A p : p \in ToSet(T) <=> p \in ToSet(L) \cup {q}
  <2> TAKE p
  <2>1. ASSUME p \in ToSet(T) PROVE p \in ToSet(L) \cup {q}
    <3>1. PICK k \in 1..n : p = T[k] BY <1>2, <1>5, <2>1
    <3> QED BY <1>1, <1>2, <1>a, <3>1
  <2>2. ASSUME p \in ToSet(L) PROVE p \in ToSet(T)
    <3>1. PICK k \in 1..Len(L) : p = L[k] BY <1>1, <2>2
    <3>2. k \in 1..Len(T) BY <1>1, <1>2 DEF n
    <3>3. p = T[k] BY <1>2, <3>1, <3>2
    <3> QED BY <1>5, <3>2, <3>3
  <2>3. q \in ToSet(T)
    <3>1. n \in 1..Len(T) BY <1>1, <1>2 DEF n
    <3> QED BY <1>2, <1>5, <3>1
  <2> QED BY <2>1, <2>2, <2>3
<1> QED BY <1>5, <1>6
-----------------------------------------------------------------------------
(* The pool. *)

\* exec_FreePool and exec_ReallocPool find the puddle of a block.
LEMMA HolderIs ==
    ASSUME NEW L, Lined(L), NEW B, Tiles(ToSet(L), B), NEW b \in B,
           NEW i, i = Holder(L, b.mem, b.size)
    PROVE  /\ i \in 1..Len(L) /\ Of(b) \subseteq Whole(L[i])
           /\ Sound(L[i]) /\ Taken(L[i], b.mem, b.size)
<1>1. /\ Len(L) \in Nat /\ DOMAIN L = 1..Len(L)
      /\ \A k \in 1..Len(L) : L[k] \in ToSet(L)
      /\ \A p : p \in ToSet(L) <=> \E k \in 1..Len(L) : p = L[k]
      BY LinedIs
<1>2. /\ b \in Blocks /\ \E p \in ToSet(L) : Of(b) \subseteq Whole(p)
      /\ \A p \in ToSet(L) : Sound(p)
      /\ \A p \in ToSet(L) : FreeUnits(p.nodes) = Whole(p) \ Used(B)
      BY DEF Tiles
<1>3. /\ b.mem \in Nat /\ b.size \in Nat /\ b.size > 0 /\ b.mem \in Of(b)
      /\ Of(b) = Units(b.mem, b.size)
      BY <1>2, BlockIs
<1> DEFINE I == {k \in DOMAIN L : /\ b.mem >= L[k].mem
                                  /\ b.mem + b.size <= L[k].end}
<1>4. PICK k \in 1..Len(L) : Of(b) \subseteq Whole(L[k]) BY <1>1, <1>2
<1>5. \A j \in 1..Len(L) :
         Of(b) \subseteq Whole(L[j]) => Taken(L[j], b.mem, b.size)
  <2> SUFFICES ASSUME NEW j \in 1..Len(L), Of(b) \subseteq Whole(L[j])
               PROVE  Taken(L[j], b.mem, b.size)
      OBVIOUS
  <2>1. FreeUnits(L[j].nodes) = Whole(L[j]) \ Used(B) BY <1>1, <1>2
  <2>2. Of(b) \subseteq Used(B) BY UsedUnit
  <2> QED BY <1>3, <2>1, <2>2 DEF Taken
<1>6. k \in I
  <2>1. Sound(L[k]) /\ Taken(L[k], b.mem, b.size) BY <1>1, <1>2, <1>4, <1>5
  <2>2. L[k].mem <= b.mem /\ b.mem + Rounded(b.size) <= L[k].end
        BY <2>1, TakenIs
  <2>3. b.size <= Rounded(b.size) /\ Rounded(b.size) \in Nat
        BY <1>3, RoundedUp
  <2>4. L[k].end \in Nat /\ L[k].mem \in Nat BY <2>1, SoundIs
  <2> QED BY <1>1, <1>3, <2>2, <2>3, <2>4
<1>7. \A j \in I : j = k
  <2> SUFFICES ASSUME NEW j \in I PROVE j = k OBVIOUS
  <2>1. /\ j \in 1..Len(L) /\ L[j].mem <= b.mem
        /\ b.mem + b.size <= L[j].end /\ L[j] \in ToSet(L)
        BY <1>1
  <2>2. L[j].end \in Nat /\ L[j].mem \in Nat BY <1>2, <2>1, SoundIs
  <2>3. b.mem \in Whole(L[j]) BY <1>3, <2>1, <2>2 DEF Whole
  <2>4. b.mem \in Whole(L[k]) BY <1>3, <1>4
  <2>5. L[j] = L[k] BY <1>1, <2>1, <2>3, <2>4, OnePuddle
  <2> QED BY <2>1, <2>5, LinedIs
<1>8. i \in I
  <2>1. I \in SUBSET Nat /\ I # {} BY <1>1, <1>6
  <2>2. i = First(I) BY DEF Holder
  <2> HIDE DEF I
  <2> QED BY <2>1, <2>2, FirstIsLeast
<1>9. i = k BY <1>7, <1>8
<1> QED BY <1>1, <1>2, <1>4, <1>5, <1>9

\* In one puddle of the list the blocks X go and the blocks Y come.
LEMMA Served ==
    ASSUME NEW L, NEW B, PoolOK(L, B), NEW i \in 1..Len(L),
           NEW q, Sound(q), SamePlace(L[i], q), ~q.large,
           NEW X \in SUBSET B, \A b \in X : Of(b) \subseteq Whole(L[i]),
           NEW Y \in SUBSET Blocks,
           \A b, c \in Y : b # c => Of(b) \cap Of(c) = {},
           Used(Y) \subseteq FreeUnits(L[i].nodes) \cup Used(X),
           FreeUnits(q.nodes) =
              (FreeUnits(L[i].nodes) \cup Used(X)) \ Used(Y),
           NEW C, C = (B \ X) \cup Y,
           "FIXED" \in flags \/ \E b \in C : Of(b) \subseteq Whole(L[i]),
           NEW T, T = Replaced(L, i, q)
    PROVE  PoolOK(T, C)
<1>1. Lined(L) /\ Tiles(ToSet(L), B) BY DEF PoolOK
<1>2. L[i] \in ToSet(L) BY <1>1, LinedIs
<1>3. q.mem = L[i].mem /\ q.end = L[i].end /\ q.large = L[i].large
      BY DEF SamePlace
<1>4. q \in Puddle BY DEF Sound
<1>5. /\ Lined(T) /\ Len(T) = Len(L) /\ T[i] = q
      /\ ToSet(T) = (ToSet(L) \ {L[i]}) \cup {q}
      BY <1>1, <1>3, <1>4, LinedReplaced
<1> DEFINE S == ToSet(L)
           p == L[i]
           W == ToSet(T)
<1>6. Tiles(W, C) /\ StaysBusy(S, B, p, W, C)
  <2>1. /\ Tiles(S, B) /\ p \in S /\ q.mem = p.mem /\ q.end = p.end
        /\ \A b \in X : Of(b) \subseteq Whole(p)
        /\ Used(Y) \subseteq FreeUnits(p.nodes) \cup Used(X)
        /\ FreeUnits(q.nodes) = (FreeUnits(p.nodes) \cup Used(X)) \ Used(Y)
        /\ W = (S \ {p}) \cup {q}
        BY <1>1, <1>2, <1>3, <1>5
  <2>2. /\ Sound(q) /\ ~q.large /\ X \in SUBSET B /\ Y \in SUBSET Blocks
        /\ \A b, c \in Y : b # c => Of(b) \cap Of(c) = {}
        /\ C = (B \ X) \cup Y
        OBVIOUS
  <2> HIDE DEF S, p, W
  <2> QED BY <2>1, <2>2, Exchanged
<1>7. CASE "FIXED" \in flags
  <2>1. Len(L) = 1 /\ ~L[1].large BY <1>7 DEF PoolOK
  <2>2. i = 1 BY <2>1
  <2> QED BY <1>5, <1>6, <1>7, <2>1, <2>2 DEF PoolOK
<1>8. CASE "FIXED" \notin flags
  <2>1. Busy(S, B) BY <1>8 DEF PoolOK
  <2>2. Busy(W, C) BY <1>6, <1>8, <2>1 DEF StaysBusy
  <2> QED BY <1>5, <1>6, <1>8, <2>2 DEF PoolOK
<1> QED BY <1>7, <1>8

\* A block goes back, and its puddle with it if it was the last one there.
LEMMA ReturnedOK ==
    ASSUME NEW L, NEW B, PoolOK(L, B), NEW b \in B,
           NEW T, T = Returned(L, b.mem, b.size),
           NEW C, C = B \ {b}
    PROVE  PoolOK(T, C)
<1> DEFINE S == ToSet(L)
           i == Holder(L, b.mem, b.size)
           p == L[i]
           q == StaticFree(p, b.mem, b.size)
           U == Of(b)
           X == {b}
<1>1. Lined(L) /\ Tiles(S, B) BY DEF PoolOK
<1>2. /\ i \in 1..Len(L) /\ U \subseteq Whole(p) /\ Sound(p)
      /\ Taken(p, b.mem, b.size)
  <2> HIDE DEF i
  <2>1. i = Holder(L, b.mem, b.size) BY DEF i
  <2> QED BY <1>1, <2>1, HolderIs
<1>3. Gives(p, b.mem, b.size, q) BY <1>2, FreeGives
<1>4. b \in Blocks /\ b.mem \in U /\ U = Units(b.mem, b.size) BY <1>1, BlockIs DEF Tiles
<1>5. /\ Sound(q) /\ SamePlace(p, q)
      /\ FreeUnits(q.nodes) = FreeUnits(p.nodes) \cup U
      BY <1>3, <1>4 DEF Gives
<1>6. p \in S BY <1>1, <1>2, LinedIs
<1>7. Used(X) = U /\ Used({}) = {}
  <2>1. \A u : u \in Used(X) <=> u \in U BY UsedUnit
  <2>2. \A u : u \notin Used({}) BY UsedUnit
  <2> QED BY <2>1, <2>2
<1>8. /\ T = IF "FIXED" \in flags THEN Replaced(L, i, q)
             ELSE IF q.free = q.end - q.mem THEN RemoveAt(L, i)
             ELSE Up(Replaced(L, i, q), i)
      BY DEF Returned
<1> HIDE DEF q
<1>9. /\ FreeUnits(p.nodes) = Whole(p) \ Used(B)
      /\ p.large => \E c \in B : Of(c) = Whole(p)
      /\ \A c \in B : c # b => Of(c) \cap U = {}
      BY <1>1, <1>6 DEF Tiles
<1>10. /\ q.mem \in Nat /\ q.end \in Nat /\ q.mem < q.end
       /\ q.free = Cardinality(FreeUnits(q.nodes))
       /\ FreeUnits(q.nodes) \subseteq Whole(q)
       /\ q.large \in BOOLEAN
  <2>1. Placed(q) BY <1>5 DEF Sound
  <2> QED BY <1>5, <2>1, SoundIs DEF Placed
<1>11. IsFiniteSet(Whole(q)) /\ Cardinality(Whole(q)) = q.end - q.mem
  <2> DEFINE a == q.mem
             e == q.end - 1
  <2>1. /\ a \in Int /\ e \in Int /\ ~(a > e) /\ e - a + 1 = q.end - q.mem
        BY <1>10
  <2>2. Whole(q) = a..e BY DEF Whole
  <2> HIDE DEF a, e
  <2> QED BY <2>1, <2>2, FS_Interval
<1>12. Whole(q) = Whole(p) BY <1>5 DEF SamePlace, Whole
\* all free: no other block is left
<1>13. q.free = q.end - q.mem <=> FreeUnits(q.nodes) = Whole(q)
       BY <1>10, <1>11, FS_Subset
<1>14. FreeUnits(q.nodes) = Whole(q)
          => \A c \in C : ~(Of(c) \subseteq Whole(p))
  <2> SUFFICES ASSUME FreeUnits(q.nodes) = Whole(q),
                      NEW c \in C, Of(c) \subseteq Whole(p)
               PROVE  FALSE
      OBVIOUS
  <2>1. c.mem \in Of(c)
    <3>1. c \in Blocks BY <1>1 DEF Tiles
    <3> QED BY <3>1, BlockIs
  <2>2. c.mem \in Used(B) /\ c.mem \notin U BY <1>9, <2>1, UsedUnit
  <2>3. c.mem \notin FreeUnits(q.nodes) BY <1>5, <1>9, <2>2
  <2> QED BY <1>12, <2>1, <2>3
<1>15. FreeUnits(q.nodes) # Whole(q)
          => \E c \in C : Of(c) \subseteq Whole(p)
  <2> SUFFICES ASSUME FreeUnits(q.nodes) # Whole(q)
               PROVE  \E c \in C : Of(c) \subseteq Whole(p)
      OBVIOUS
  <2>1. PICK u \in Whole(p) : u \notin FreeUnits(q.nodes) BY <1>10, <1>12
  <2>2. u \in Used(B) /\ u \notin U BY <1>5, <1>9, <2>1
  <2>3. PICK c \in B : u \in Of(c) BY <2>2, UsedUnit
  <2>4. c \in C BY <2>2, <2>3
  <2>5. PICK r \in S : Of(c) \subseteq Whole(r) BY <1>1 DEF Tiles
  <2>6. r = p BY <1>1, <1>6, <2>1, <2>3, <2>5, OnePuddle
  <2> QED BY <2>4, <2>5, <2>6
\* a LARGE puddle was one block
<1>16. p.large => FreeUnits(q.nodes) = Whole(q)
  <2> SUFFICES ASSUME p.large PROVE FreeUnits(q.nodes) = Whole(q) OBVIOUS
  <2>1. PICK c \in B : Of(c) = Whole(p) BY <1>9
  <2>2. c = b BY <1>2, <1>4, <1>9, <2>1
  <2> QED BY <1>5, <1>10, <1>12, <2>1, <2>2
<1>17. C = (B \ X) \cup {} /\ X \in SUBSET B OBVIOUS
<1>18. ASSUME "FIXED" \in flags \/ FreeUnits(q.nodes) # Whole(q)
       PROVE  PoolOK(Replaced(L, i, q), C)
  <2>1. ~q.large
    <3>1. CASE "FIXED" \in flags
      <4>1. Len(L) = 1 /\ ~L[1].large BY <3>1 DEF PoolOK
      <4>2. i = 1 BY <1>2, <4>1
      <4>3. ~p.large /\ q.large = p.large BY <1>5, <4>1, <4>2 DEF SamePlace
      <4> QED BY <4>3
    <3>2. CASE FreeUnits(q.nodes) # Whole(q)
      <4>1. ~p.large /\ q.large = p.large BY <1>5, <1>16, <3>2 DEF SamePlace
      <4> QED BY <4>1
    <3> QED BY <1>18, <3>1, <3>2
  <2> DEFINE Y == {}
             V == Replaced(L, i, q)
  <2>2. "FIXED" \in flags \/ \E c \in C : Of(c) \subseteq Whole(L[i])
        BY <1>15, <1>18
  <2>3. /\ Y \in SUBSET Blocks
        /\ \A c, d \in Y : c # d => Of(c) \cap Of(d) = {}
        /\ Used(Y) \subseteq FreeUnits(L[i].nodes) \cup Used(X)
        /\ FreeUnits(q.nodes) =
              (FreeUnits(L[i].nodes) \cup Used(X)) \ Used(Y)
        /\ C = (B \ X) \cup Y
        BY <1>5, <1>7, <1>17
  <2>4. /\ i \in 1..Len(L) /\ SamePlace(L[i], q) /\ X \in SUBSET B
        /\ \A c \in X : Of(c) \subseteq Whole(L[i])
        BY <1>2, <1>5, <1>17
  <2>5. V = Replaced(L, i, q) OBVIOUS
  <2> HIDE DEF i, X, Y, V
  <2>6. PoolOK(V, C) BY <1>5, <2>1, <2>2, <2>3, <2>4, <2>5, Served
  <2> QED BY <2>6 DEF V
<1>19. CASE "FIXED" \in flags BY <1>8, <1>18, <1>19
<1>20. CASE "FIXED" \notin flags /\ FreeUnits(q.nodes) = Whole(q)
  <2>1. T = RemoveAt(L, i) BY <1>8, <1>13, <1>20
  <2>2. Lined(T) /\ ToSet(T) = S \ {p}
    <3> HIDE DEF i
    <3> QED BY <1>1, <1>2, <2>1, LinedRemoved
  <2>3. Busy(S, B) BY <1>20 DEF PoolOK
  <2>4. /\ \A c \in X : Of(c) \subseteq Whole(p)
        /\ \A c \in B \ X : ~(Of(c) \subseteq Whole(p))
        /\ X \in SUBSET B /\ C = B \ X
        BY <1>2, <1>14, <1>20
  <2> DEFINE W == ToSet(T)
  <2>5. W = S \ {p} BY <2>2
  <2> HIDE DEF i, p, S, X, W
  <2>6. Tiles(W, C) /\ Busy(W, C) BY <1>1, <1>6, <2>3, <2>4, <2>5, Flushed
  <2> QED BY <1>20, <2>2, <2>6 DEF PoolOK, W
<1>21. CASE "FIXED" \notin flags /\ FreeUnits(q.nodes) # Whole(q)
  <2> DEFINE R == Replaced(L, i, q)
  <2>1. PoolOK(R, C) BY <1>18, <1>21
  <2>2. T = Up(R, i) BY <1>8, <1>13, <1>21
  <2>3. R[i] = q /\ Len(R) = Len(L)
    <3>1. /\ q \in Puddle /\ q.mem = L[i].mem /\ q.large = L[i].large
          BY <1>5 DEF Sound, SamePlace
    <3> HIDE DEF i
    <3> QED BY <1>1, <1>2, <3>1, LinedReplaced
  <2>4. ~q.large
    <3>1. ~p.large /\ q.large = p.large BY <1>5, <1>16, <1>21 DEF SamePlace
    <3> QED BY <3>1
  <2> HIDE DEF R, i
  <2>5. Lined(T) /\ Len(T) = Len(R) /\ ToSet(T) = ToSet(R)
        BY <1>2, <2>1, <2>2, <2>3, <2>4, LinedUp DEF PoolOK
  <2> QED BY <1>21, <2>1, <2>5 DEF PoolOK
<1> QED BY <1>19, <1>20, <1>21
\* tmem_init: a puddle with nothing in it.
LEMMA HeadIs ==
    ASSUME NEW place \in Places, NEW size \in Nat, NEW whole,
           whole = (size \div Align) * Align, whole > 0,
           \A r \in Places : place < r => place + whole <= r,
           NEW large \in BOOLEAN, NEW h, h = MemHead(place, size, large)
    PROVE  /\ Sound(h) /\ h.mem = place /\ h.end = place + whole
           /\ h.large = large /\ h.free = whole
           /\ FreeUnits(h.nodes) = Whole(h)
           /\ Len(h.nodes) = 1 /\ h.nodes[1].at = place
           /\ h.nodes[1].size = whole
<1>1. place \in Nat /\ place > 0 BY MemoryAssumption DEF TNULL
<1>2. whole \in Nat BY DEF Align
<1> DEFINE x == Node(place, whole)
           s == <<x>>
<1>3. h = [mem |-> place, end |-> place + whole, free |-> whole,
           nodes |-> s, large |-> large]
      BY DEF MemHead
<1>4. /\ x \in FreeNode /\ x.at = place /\ x.size = whole
      /\ End(x) = place + whole
      BY <1>1, <1>2 DEF Node, FreeNode, End
<1> HIDE DEF x
<1>5. /\ s \in Seq(FreeNode) /\ Len(s) = 1 /\ s[1] = x /\ DOMAIN s = 1..1
      BY <1>4
<1> HIDE DEF s
<1>6. /\ h.mem = place /\ h.end = place + whole /\ h.large = large
      /\ h.free = whole /\ h.nodes = s /\ h \in Puddle
      BY <1>1, <1>2, <1>3, <1>5 DEF Puddle
<1>7. Ordered(s, h.mem, h.end)
  <2>1. \A i \in DOMAIN s : i = 1 BY <1>5
  <2>2. /\ s[1].size > 0 /\ h.mem <= s[1].at /\ End(s[1]) <= h.end
        BY <1>1, <1>2, <1>4, <1>5, <1>6
  <2>3. ~(1 < 1) OBVIOUS
  <2> QED BY <1>5, <2>1, <2>2, <2>3 DEF Ordered
<1>8. FreeUnits(s) = Whole(h)
  <2>1. \A u : u \in FreeUnits(s) <=> Has(s[1], u)
    <3>1. \A i : i \in DOMAIN s <=> i = 1 BY <1>5
    <3> QED BY <3>1, FreeUnit
  <2>2. \A u : Has(s[1], u) <=> u \in Whole(h)
        BY <1>4, <1>5, <1>6 DEF Has, Whole
  <2> QED BY <2>1, <2>2
<1>9. Cardinality(Whole(h)) = whole
  <2> DEFINE e == (place + whole) - 1
  <2>1. /\ place \in Int /\ e \in Int /\ ~(place > e) /\ e - place + 1 = whole
        BY <1>1, <1>2
  <2>2. Whole(h) = place..e BY <1>6 DEF Whole
  <2> HIDE DEF e
  <2> QED BY <2>1, <2>2, FS_Interval
<1>10. h.free = Held(h) BY <1>6, <1>8, <1>9 DEF Held
<1>11. Placed(h) BY <1>1, <1>2, <1>6 DEF Placed
<1> QED BY <1>4, <1>5, <1>6, <1>7, <1>8, <1>10, <1>11 DEF Sound

\* It serves a block that is no longer than it is.
LEMMA HeadServes ==
    ASSUME NEW place \in Places, NEW large \in BOOLEAN,
           NEW whole \in Nat, (whole \div Align) * Align = whole,
           \A r \in Places : place < r => place + whole <= r,
           NEW size \in Nat, size > 0, Rounded(size) <= whole,
           NEW got, got = StaticAlloc(MemHead(place, whole, large), size),
           NEW q, q = got.puddle
    PROVE  /\ got.mem = place /\ Sound(q) /\ q.mem = place
           /\ q.large = large /\ Whole(q) = place..(place + whole - 1)
           /\ Units(place, size) \subseteq Whole(q)
           /\ FreeUnits(q.nodes) = Whole(q) \ Units(place, size)
           /\ Rounded(size) = whole => Units(place, size) = Whole(q)
<1> DEFINE h == MemHead(place, whole, large)
           R == Rounded(size)
           s == h.nodes
<1>1. R \in Nat /\ R > 0 BY RoundedUp
<1>2. place \in Nat /\ place > 0 /\ place # TNULL
      BY MemoryAssumption DEF TNULL
<1>3. /\ Sound(h) /\ h.mem = place /\ h.end = place + whole
      /\ h.large = large /\ h.free = whole
      /\ FreeUnits(h.nodes) = Whole(h)
      /\ Len(h.nodes) = 1 /\ h.nodes[1].at = place
      /\ h.nodes[1].size = whole
  <2>1. whole > 0 BY <1>1
  <2> HIDE DEF h
  <2>2. h = MemHead(place, whole, large) BY DEF h
  <2> QED BY <2>1, <2>2, HeadIs
<1>4. got = StaticAlloc(h, size) OBVIOUS
<1> HIDE DEF h, R
<1>5. s \in Seq(FreeNode) BY <1>3, SoundIs
<1>6. 1 \in Fits(s, R)
  <2>1. 1 \in DOMAIN s /\ s[1].size >= R BY <1>3, <1>5 DEF R
  <2> HIDE DEF s
  <2> QED BY <2>1 DEF Fits
<1>7. Chosen(s, R) = 1
  <2>1. Chosen(s, R) \in 1..Len(s)
    <3>1. Fits(s, R) # {} BY <1>6
    <3> HIDE DEF s
    <3> QED BY <1>1, <1>5, <3>1, ChosenFits
  <2> QED BY <1>3, <2>1
<1>8. got.mem = place
  <2>1. ~(h.free < R \/ Fits(s, R) = {}) BY <1>1, <1>3, <1>6 DEF R
  <2>2. got.mem = s[Chosen(s, R)].at BY <1>4, <2>1 DEF StaticAlloc, R
  <2> QED BY <1>3, <1>7, <2>2
<1>9. Takes(h, place, size, q) BY <1>2, <1>3, <1>4, <1>8, AllocTakes
<1>10. Whole(q) = Whole(h) BY <1>9 DEF Takes, SamePlace, Whole
<1>11. Whole(h) = place..(place + whole - 1)
       BY <1>2, <1>3 DEF Whole
<1>12. Rounded(size) = whole => Units(place, size) = Whole(q)
       BY <1>10, <1>11 DEF Units
<1> QED BY <1>3, <1>8, <1>9, <1>10, <1>11, <1>12 DEF Takes, SamePlace

\* A pool as the operations see it.
Pools(pool, B) ==
    /\ pool \in [list : Seq(Puddle), pud : Nat, thres : Nat]
    /\ 0 < pool.thres /\ pool.thres <= pool.pud
    /\ PoolOK(pool.list, B)

LEMMA AdaptedOK ==
    ASSUME NEW pool, NEW B, Pools(pool, B), NEW size \in Nat, size > 0
    PROVE  Pools(Adapted(pool, size), B) /\ Adapted(pool, size).list = pool.list
<1> DEFINE a == pool.thres
           b == pool.pud
           t == a + (size - a \div 4) \div 4
           p == b + (t - b \div 8) \div 8
           m == IF t > p THEN t ELSE p
<1>1. a \in Nat /\ b \in Nat /\ a > 0 /\ a <= b BY DEF Pools
<1> HIDE DEF a, b
<1>2. t \in Nat /\ t > 0 BY <1>1
<1> HIDE DEF t
<1>3. p \in Int BY <1>1, <1>2
<1> HIDE DEF p
<1>4. m \in Nat /\ t <= m BY <1>2, <1>3
<1>5. CASE "AUTO" \notin flags BY <1>5 DEF Adapted
<1>6. CASE "AUTO" \in flags
  <2>1. Adapted(pool, size) = [pool EXCEPT !.thres = t, !.pud = m]
        BY <1>6 DEF Adapted, t, p, a, b
  <2>2. pool \in [list : Seq(Puddle), pud : Nat, thres : Nat] BY DEF Pools
  <2> HIDE DEF m
  <2>3. /\ Adapted(pool, size) \in [list : Seq(Puddle), pud : Nat, thres : Nat]
        /\ Adapted(pool, size).list = pool.list
        /\ Adapted(pool, size).thres = t /\ Adapted(pool, size).pud = m
        BY <1>2, <1>4, <2>1, <2>2
  <2> QED BY <1>2, <1>4, <2>3 DEF Pools
<1> QED BY <1>5, <1>6
LEMMA BlockOf ==
    ASSUME NEW mem, NEW size
    PROVE  /\ mem # TNULL => /\ Block(mem, size) = {[mem |-> mem, size |-> size]}
                             /\ Used(Block(mem, size)) = Units(mem, size)
           /\ mem = TNULL => Block(mem, size) = {}
<1>1. CASE mem = TNULL BY <1>1 DEF Block
<1>2. CASE mem # TNULL
  <2> DEFINE c == [mem |-> mem, size |-> size]
  <2>1. Block(mem, size) = {c} BY <1>2 DEF Block
  <2>2. Of(c) = Units(mem, size) BY DEF Of
  <2> HIDE DEF c
  <2>3. \A u : u \in Used({c}) <=> u \in Of(c) BY UsedUnit
  <2>4. Used({c}) = Units(mem, size) BY <2>2, <2>3
  <2> QED BY <1>2, <2>1, <2>4 DEF c
<1> QED BY <1>1, <1>2

\* A new block shares no unit with those there are.
Fresh(B, mem, size) == mem # TNULL => [mem |-> mem, size |-> size] \notin B

\* A puddle of the list serves, or refuses.
LEMMA AllocHere ==
    ASSUME NEW L, NEW B, PoolOK(L, B), NEW i \in 1..Len(L), ~L[i].large,
           NEW size \in Sizes,
           NEW got, got = StaticAlloc(L[i], size),
           NEW T, T = Replaced(L, i, got.puddle),
           NEW C, C = B \cup Block(got.mem, size)
    PROVE  PoolOK(T, C) /\ Fresh(B, got.mem, size)
<1> DEFINE p == L[i]
           q == got.puddle
           m == got.mem
           Y == Block(m, size)
           X == {}
<1>1. Lined(L) /\ Tiles(ToSet(L), B) BY DEF PoolOK
<1>2. p \in ToSet(L) /\ Sound(p)
  <2>1. p \in ToSet(L) BY <1>1, LinedIs
  <2> QED BY <1>1, <2>1 DEF Tiles
<1>3. FreeUnits(p.nodes) = Whole(p) \ Used(B) BY <1>1, <1>2 DEF Tiles
<1>4. size \in Nat /\ size > 0 BY MemoryAssumption
<1>5. CASE m = TNULL
  <2>1. q = p /\ C = B
    <3>1. Y = {} BY <1>5, BlockOf
    <3>2. q = p BY <1>2, <1>4, <1>5, AllocRefused
    <3> QED BY <3>1, <3>2
  <2>2. L \in Seq(Puddle) BY <1>1, LinedIs
  <2>3. T = L
    <3>1. /\ T \in Seq(Puddle) /\ Len(T) = Len(L)
          /\ \A k \in 1..Len(L) : T[k] = IF k = i THEN q ELSE L[k]
          BY <1>1, <2>1, <2>2, LinedIs, ExceptSeq DEF Replaced
    <3>2. \A k \in 1..Len(L) : T[k] = L[k] BY <2>1, <3>1
    <3> QED BY <2>2, <3>1, <3>2, SeqEqual
  <2> QED BY <1>5, <2>1, <2>3 DEF Fresh
<1>6. CASE m # TNULL
  <2>1. Takes(p, m, size, q) BY <1>2, <1>4, <1>6, AllocTakes
  <2>2. /\ Sound(q) /\ SamePlace(L[i], q) /\ m \in Nat
        /\ Units(m, size) \subseteq FreeUnits(p.nodes)
        /\ FreeUnits(q.nodes) = FreeUnits(p.nodes) \ Units(m, size)
        BY <2>1 DEF Takes
  <2>3. ~q.large BY <2>2 DEF SamePlace
  <2> DEFINE c == [mem |-> m, size |-> size]
  <2>4. Y = {c} /\ Used(Y) = Units(m, size) BY <1>6, BlockOf
  <2>5. c \in Blocks /\ Of(c) = Units(m, size) BY <2>2 DEF Blocks, Of
  <2>6. Used(X) = {}
    <3>1. \A u : u \notin Used({}) BY UsedUnit
    <3> QED BY <3>1
  <2>7. c \notin B
    <3> SUFFICES ASSUME c \in B PROVE FALSE OBVIOUS
    <3>1. c.mem \in Of(c) BY <2>5, BlockIs
    <3>2. c.mem \in Used(B) BY <3>1, UsedUnit
    <3>3. c.mem \in FreeUnits(p.nodes) BY <2>2, <2>5, <3>1
    <3> QED BY <1>3, <3>2, <3>3
  <2>8. c \in C /\ Of(c) \subseteq Whole(L[i]) BY <1>3, <2>2, <2>4, <2>5
  <2> HIDE DEF c
  <2>9. /\ Y \in SUBSET Blocks
        /\ \A b, d \in Y : b # d => Of(b) \cap Of(d) = {}
        /\ Used(Y) \subseteq FreeUnits(L[i].nodes) \cup Used(X)
        /\ FreeUnits(q.nodes) =
              (FreeUnits(L[i].nodes) \cup Used(X)) \ Used(Y)
        /\ C = (B \ X) \cup Y
        /\ X \in SUBSET B /\ \A b \in X : Of(b) \subseteq Whole(L[i])
        /\ "FIXED" \in flags \/ \E b \in C : Of(b) \subseteq Whole(L[i])
        BY <2>2, <2>4, <2>5, <2>6, <2>8
  <2>10. T = Replaced(L, i, q) OBVIOUS
  <2>11. PoolOK(T, C)
    <3> HIDE DEF X, Y, q
    <3> QED BY <2>2, <2>3, <2>9, <2>10, Served
  <2> QED BY <2>7, <2>11 DEF Fresh, c
<1> QED BY <1>5, <1>6

\* A puddle that is no longer than the largest TAlloc was asked for ends
\* before the next place.
LEMMA RoomThere ==
    ASSUME NEW place \in Places, NEW w \in Nat,
           NEW s \in Sizes \cup {FixedSize, MaxPud}, w <= Rounded(s)
    PROVE  \A r \in Places : place < r => place + w <= r
<1>1. \A r \in Places : place < r => place + Rounded(s) <= r
      BY PlacesAssumption
<1>2. s \in Nat BY MemoryAssumption, PlacesAssumption
<1>3. Rounded(s) \in Nat BY <1>2, RoundedUp
<1>4. place \in Nat /\ \A r \in Places : r \in Nat BY MemoryAssumption
<1> QED BY <1>1, <1>3, <1>4

\* A new puddle is large enough for the block it was asked for.
LEMMA AllocNew ==
    ASSUME NEW pool, NEW B, Pools(pool, B), "FIXED" \notin flags,
           pool.pud <= MaxPud, NEW size \in Sizes,
           NEW place \in {TNULL} \cup Places,
           \A p \in ToSet(pool.list) : p.mem # place,
           NEW got, got = NewPuddle(pool, size, place),
           NEW C, C = B \cup Block(got.mem, size)
    PROVE  /\ Pools(got.pool, C) /\ Fresh(B, got.mem, size)
<1> DEFINE large == size > Rounded(pool.thres)
           w == IF large THEN Rounded(size) ELSE Rounded(pool.pud)
           sa == StaticAlloc(MemHead(place, w, large), size)
           L == pool.list
           q == sa.puddle
           c == [mem |-> place, size |-> size]
           T == IF large THEN Append(L, q) ELSE <<q>> \o L
<1>1. /\ pool \in [list : Seq(Puddle), pud : Nat, thres : Nat]
      /\ 0 < pool.thres /\ pool.thres <= pool.pud /\ PoolOK(L, B)
      BY DEF Pools
<1>2. size \in Nat /\ size > 0 BY MemoryAssumption
<1>3. CASE place = TNULL
  <2>1. got.pool = pool /\ got.mem = TNULL BY <1>3 DEF NewPuddle
  <2>2. C = B BY <2>1, BlockOf
  <2> QED BY <2>1, <2>2 DEF Fresh
<1>4. CASE place # TNULL
  <2>1. place \in Places /\ large \in BOOLEAN BY <1>4
  <2>2. /\ got.mem = sa.mem
        /\ got.pool = [pool EXCEPT !.list = T]
        BY <1>4 DEF NewPuddle
  <2>3. pool.thres \in Nat /\ pool.pud \in Nat BY <1>1
  <2>4. /\ w \in Nat /\ (w \div Align) * Align = w /\ Rounded(size) <= w
        /\ large => Rounded(size) = w
        /\ \A r \in Places : place < r => place + w <= r
    <3>1. CASE large
      <4>1. w = Rounded(size) BY <3>1
      <4> HIDE DEF w
      <4>2. w \in Nat /\ (w \div Align) * Align = w BY <1>2, <4>1, RoundedUp
      <4> QED BY <2>1, <4>1, <4>2, RoomThere
    <3>2. CASE ~large
      <4>1. w = Rounded(pool.pud) BY <3>2
      <4> HIDE DEF w
      <4>2. w \in Nat /\ (w \div Align) * Align = w BY <2>3, <4>1, RoundedUp
      <4>3. Rounded(size) <= Rounded(pool.pud)
        <5> DEFINE a == pool.thres
                   b == pool.pud
        <5>1. a \in Nat /\ b \in Nat /\ a <= b /\ size <= Rounded(a)
          <6>1. Rounded(pool.thres) \in Nat BY <2>3, RoundedUp
          <6> QED BY <1>1, <1>2, <2>3, <3>2, <6>1
        <5> HIDE DEF a, b
        <5>2. a <= Rounded(b) /\ Rounded(b) \in Nat
          <6>1. b <= Rounded(b) /\ Rounded(b) \in Nat BY <5>1, RoundedUp
          <6> QED BY <5>1, <6>1
        <5>3. Rounded(a) <= Rounded(b) /\ Rounded(size) <= Rounded(a)
              BY <1>2, <5>1, <5>2, RoundedUp
        <5>4. Rounded(a) \in Nat /\ Rounded(size) \in Nat
              BY <1>2, <5>1, RoundedUp
        <5>5. Rounded(size) <= Rounded(b) BY <5>2, <5>3, <5>4
        <5> QED BY <5>5 DEF b
      <4>4. w <= Rounded(MaxPud)
        <5>1. MaxPud \in Nat BY PlacesAssumption
        <5>2. MaxPud <= Rounded(MaxPud) /\ Rounded(MaxPud) \in Nat
              BY <5>1, RoundedUp
        <5> DEFINE b == pool.pud
        <5>3. b \in Nat /\ b <= Rounded(MaxPud) BY <2>3, <5>1, <5>2
        <5> HIDE DEF b
        <5>4. Rounded(b) <= Rounded(MaxPud) BY <5>1, <5>3, RoundedUp
        <5> QED BY <4>1, <5>4 DEF b
      <4>5. \A r \in Places : place < r => place + w <= r
            BY <2>1, <4>2, <4>4, RoomThere
      <4> QED BY <3>2, <4>1, <4>2, <4>3, <4>5
    <3> QED BY <3>1, <3>2
  <2>5. /\ sa.mem = place /\ Sound(q) /\ q.mem = place
        /\ q.large = large /\ Units(place, size) \subseteq Whole(q)
        /\ FreeUnits(q.nodes) = Whole(q) \ Units(place, size)
        /\ Rounded(size) = w => Units(place, size) = Whole(q)
    <3> HIDE DEF w, large, sa
    <3>1. sa = StaticAlloc(MemHead(place, w, large), size) BY DEF sa
    <3>2. q = sa.puddle OBVIOUS
    <3> HIDE DEF q
    <3> QED BY <1>2, <2>1, <2>4, <3>1, <3>2, HeadServes
  <2> HIDE DEF sa, q, w, large
  <2>6. C = B \cup {c} BY <1>4, <2>2, <2>5, BlockOf
  <2>7. c \in Blocks /\ Of(c) = Units(place, size)
    <3>1. place \in Nat BY <2>1, MemoryAssumption
    <3> QED BY <3>1 DEF Blocks, Of
  <2>8. /\ Lined(L) /\ Tiles(ToSet(L), B) /\ Busy(ToSet(L), B)
        BY <1>1 DEF PoolOK
  <2>9. \A p \in ToSet(L) : p.mem # q.mem BY <2>5
  <2> DEFINE W == ToSet(L) \cup {q}
  <2>10. Tiles(W, C) /\ Busy(W, C) /\ c \notin B
    <3> DEFINE S == ToSet(L)
    <3>1. /\ Tiles(S, B) /\ Busy(S, B) /\ Sound(q) /\ c \in Blocks
          /\ \A p \in S : p.mem # q.mem
          /\ Of(c) \subseteq Whole(q)
          /\ FreeUnits(q.nodes) = Whole(q) \ Of(c)
          /\ q.large => Of(c) = Whole(q)
          /\ C = B \cup {c} /\ W = S \cup {q}
          BY <2>4, <2>5, <2>6, <2>7, <2>8, <2>9
    <3> HIDE DEF S, W, c
    <3> QED BY <3>1, Added
  <2>11. Lined(T) /\ ToSet(T) = W
    <3>0. q \in Puddle BY <2>5 DEF Sound
    <3>1. CASE large
      <4>1. T = Append(L, q) BY <3>1
      <4> HIDE DEF T, L
      <4> QED BY <2>5, <2>8, <2>9, <3>0, <3>1, <4>1, LinedLast
    <3>2. CASE ~large
      <4>1. T = <<q>> \o L BY <3>2
      <4> HIDE DEF T, L
      <4> QED BY <2>5, <2>8, <2>9, <3>0, <3>2, <4>1, LinedFirst
    <3> QED BY <3>1, <3>2
  <2> HIDE DEF T, W
  <2>12. PoolOK(T, C) BY <2>10, <2>11 DEF PoolOK
  <2>13. T \in Seq(Puddle) BY <2>11 DEF Lined
  <2>14. /\ got.pool \in [list : Seq(Puddle), pud : Nat, thres : Nat]
         /\ got.pool.list = T /\ got.pool.thres = pool.thres
         /\ got.pool.pud = pool.pud
         BY <1>1, <2>2, <2>13
  <2> QED BY <1>1, <2>2, <2>5, <2>10, <2>12, <2>14 DEF Pools, Fresh
<1> QED BY <1>3, <1>4
\* The pool with another list.
LEMMA PoolsWith ==
    ASSUME NEW pool, NEW B, Pools(pool, B), NEW T, NEW C, PoolOK(T, C)
    PROVE  /\ Pools([pool EXCEPT !.list = T], C)
           /\ [pool EXCEPT !.list = T].list = T
<1>1. /\ pool \in [list : Seq(Puddle), pud : Nat, thres : Nat]
      /\ 0 < pool.thres /\ pool.thres <= pool.pud
      BY DEF Pools
<1>2. T \in Seq(Puddle) BY DEF PoolOK, Lined
<1> DEFINE n == [pool EXCEPT !.list = T]
<1>3. /\ n \in [list : Seq(Puddle), pud : Nat, thres : Nat]
      /\ n.list = T /\ n.thres = pool.thres /\ n.pud = pool.pud
      BY <1>1, <1>2
<1> HIDE DEF n
<1>4. Pools(n, C) BY <1>1, <1>3 DEF Pools
<1> QED BY <1>3, <1>4 DEF n

LEMMA FromOK ==
    ASSUME NEW pool, NEW B, Pools(pool, B), NEW i \in 1..Len(pool.list),
           ~pool.list[i].large, NEW size \in Sizes,
           NEW got, got = From(pool, i, StaticAlloc(pool.list[i], size)),
           NEW C, C = B \cup Block(got.mem, size)
    PROVE  Pools(got.pool, C) /\ Fresh(B, got.mem, size)
<1> DEFINE L == pool.list
           sa == StaticAlloc(L[i], size)
           T == Replaced(L, i, sa.puddle)
<1>1. got.mem = sa.mem /\ got.pool = [pool EXCEPT !.list = T] BY DEF From
<1>2. PoolOK(L, B) BY DEF Pools
<1> HIDE DEF T
<1>3. PoolOK(T, C) /\ Fresh(B, sa.mem, size)
  <2>1. ~L[i].large /\ C = B \cup Block(sa.mem, size) /\ i \in 1..Len(L)
        BY <1>1
  <2>2. T = Replaced(L, i, sa.puddle) BY DEF T
  <2> DEFINE g == sa
  <2>3. g = StaticAlloc(L[i], size) OBVIOUS
  <2> HIDE DEF g, L
  <2> QED BY <1>2, <2>1, <2>2, <2>3, AllocHere
<1> QED BY <1>1, <1>3, PoolsWith

\* exec_AllocPool keeps the pool in order and adds a block, or none.
LEMMA AllocOK ==
    ASSUME NEW old, NEW B, Pools(old, B), NEW size \in Sizes,
           NEW place \in {TNULL} \cup Places,
           \A p \in ToSet(old.list) : p.mem # place,
           NEW got, got = AllocPool(old, size, place),
           got.pool.pud <= MaxPud,
           NEW C, C = B \cup Block(got.mem, size)
    PROVE  Pools(got.pool, C) /\ Fresh(B, got.mem, size)
<1> DEFINE pool == Adapted(old, size)
           serving == Serving(pool.list, size)
           i == First(serving)
<1>1. size \in Nat /\ size > 0 BY MemoryAssumption
<1>2. Pools(pool, B) /\ pool.list = old.list BY <1>1, AdaptedOK
<1>3. CASE "FIXED" \in flags
  <2>1. got = From(old, 1, StaticAlloc(old.list[1], size))
        BY <1>3 DEF AllocPool
  <2>2. Len(old.list) = 1 /\ ~old.list[1].large BY <1>3 DEF Pools, PoolOK
  <2>3. 1 \in 1..Len(old.list) BY <2>2
  <2> QED BY <2>1, <2>2, <2>3, FromOK
<1>4. CASE "FIXED" \notin flags /\ size <= Rounded(pool.thres) /\ serving # {}
  <2>1. got = From(pool, i, StaticAlloc(pool.list[i], size))
        BY <1>4 DEF AllocPool
  <2>2. Len(pool.list) \in Nat /\ DOMAIN pool.list = 1..Len(pool.list)
        BY <1>2, LenProperties DEF Pools
  <2>3. i \in serving
    <3>1. serving \in SUBSET Nat
      <4> HIDE DEF pool
      <4> QED BY <2>2 DEF Serving, Asked
    <3> HIDE DEF serving
    <3> QED BY <1>4, <3>1, FirstIsLeast
  <2>4. i \in 1..Len(pool.list) /\ ~pool.list[i].large
    <3>1. i \in Asked(pool.list)
      <4> HIDE DEF i, pool
      <4> QED BY <2>3 DEF Serving
    <3> HIDE DEF i, pool, serving
    <3>2. i \in 1..Len(pool.list) /\ \A j \in 1..i : ~pool.list[j].large
          BY <2>2, <3>1 DEF Asked
    <3>3. i \in 1..i BY <2>2, <3>2
    <3> QED BY <3>2, <3>3
  <2> HIDE DEF i, pool, serving
  <2> QED BY <1>2, <2>1, <2>4, FromOK
<1>5. CASE "FIXED" \notin flags /\ ~(size <= Rounded(pool.thres) /\ serving # {})
  <2>1. got = NewPuddle(pool, size, place) BY <1>5 DEF AllocPool
  <2>2. pool.pud <= MaxPud
    <3>1. got.pool.pud = pool.pud
      <4>1. pool \in [list : Seq(Puddle), pud : Nat, thres : Nat]
            BY <1>2 DEF Pools
      <4> HIDE DEF pool
      <4> QED BY <2>1, <4>1 DEF NewPuddle
    <3> QED BY <3>1
  <2>3. \A p \in ToSet(pool.list) : p.mem # place BY <1>2
  <2> HIDE DEF pool, serving
  <2> QED BY <1>2, <1>5, <2>1, <2>2, <2>3, AllocNew
<1> QED BY <1>3, <1>4, <1>5
\* A puddle of the list reallocates a block of its own, and is LARGE no more.
LEMMA ReallocHere ==
    ASSUME NEW L, NEW B, PoolOK(L, B), NEW b \in B,
           NEW i \in 1..Len(L), Of(b) \subseteq Whole(L[i]),
           NEW new \in Sizes, NEW to, NEW q, to # TNULL,
           Moves(L[i], b.mem, b.size, to, new, q),
           NEW R, R = Replaced(L, i, q),
           NEW T, T = IF "FIXED" \in flags THEN R ELSE Regular(R, i),
           NEW C, C = (B \ {b}) \cup Block(to, new)
    PROVE  PoolOK(T, C)
<1> DEFINE S == ToSet(L)
           p == L[i]
           X == {b}
           Y == Block(to, new)
           c == [mem |-> to, size |-> new]
<1>1. Lined(L) /\ Tiles(S, B) BY DEF PoolOK
<1>2. /\ p \in S /\ Len(L) \in Nat
      /\ \A r \in S : r.mem = p.mem => r = p
      /\ p.large \in BOOLEAN
  <2>1. p \in S /\ Len(L) \in Nat /\ p.large \in BOOLEAN BY <1>1, LinedIs
  <2> QED BY <1>1, <2>1 DEF Tiles
<1>3. /\ Sound(q) /\ SamePlace(p, q) /\ to \in Nat
      /\ Units(to, new) \subseteq
            FreeUnits(p.nodes) \cup Units(b.mem, b.size)
      /\ FreeUnits(q.nodes) =
            (FreeUnits(p.nodes) \cup Units(b.mem, b.size)) \ Units(to, new)
      BY DEF Moves
<1>4. Y = {c} /\ Used(Y) = Units(to, new) BY BlockOf
<1>5. Used(X) = Units(b.mem, b.size)
  <2>1. b \in Blocks BY <1>1 DEF Tiles
  <2>2. Of(b) = Units(b.mem, b.size) BY <2>1, BlockIs
  <2>3. \A u : u \in Used(X) <=> u \in Of(b) BY UsedUnit
  <2> QED BY <2>2, <2>3
<1>6. c \in Blocks /\ Of(c) = Units(to, new) BY <1>3 DEF Blocks, Of
<1>7. FreeUnits(p.nodes) \subseteq Whole(p) BY <1>1, <1>2 DEF Tiles
<1>8. c \in C /\ Of(c) \subseteq Whole(p)
  <2>1. Units(b.mem, b.size) \subseteq Whole(p)
    <3>1. b \in Blocks BY <1>1 DEF Tiles
    <3> QED BY <3>1, BlockIs
  <2> QED BY <1>3, <1>4, <1>6, <1>7, <2>1
<1> HIDE DEF c
<1>9. /\ X \in SUBSET B /\ \A d \in X : Of(d) \subseteq Whole(p)
      /\ Y \in SUBSET Blocks
      /\ \A d, e \in Y : d # e => Of(d) \cap Of(e) = {}
      /\ Used(Y) \subseteq FreeUnits(p.nodes) \cup Used(X)
      /\ FreeUnits(q.nodes) = (FreeUnits(p.nodes) \cup Used(X)) \ Used(Y)
      /\ C = (B \ X) \cup Y
      /\ \E d \in C : Of(d) \subseteq Whole(p)
      BY <1>3, <1>4, <1>5, <1>6, <1>8
<1> HIDE DEF X, Y
<1>10. q.mem = p.mem /\ q.end = p.end /\ q.large = p.large /\ q \in Puddle
       BY <1>3 DEF SamePlace, Sound
<1>11. /\ Lined(R) /\ Len(R) = Len(L) /\ R[i] = q
       /\ ToSet(R) = (S \ {p}) \cup {q}
       BY <1>1, <1>10, LinedReplaced
<1>12. CASE ~p.large
  <2>1. PoolOK(R, C)
    <3>1. /\ i \in 1..Len(L) /\ SamePlace(L[i], q) /\ ~q.large
          /\ "FIXED" \in flags \/ \E d \in C : Of(d) \subseteq Whole(L[i])
          BY <1>3, <1>9, <1>10, <1>12
    <3>2. Sound(q) /\ R = Replaced(L, i, q) BY <1>3
    <3>3. PoolOK(L, B) OBVIOUS
    <3> QED BY <1>9, <3>1, <3>2, <3>3, Served
  <2>2. Regular(R, i) = R
    <3>1. ~R[i].large BY <1>10, <1>11, <1>12
    <3> HIDE DEF p
    <3> QED BY <3>1 DEF Regular
  <2> QED BY <2>1, <2>2
<1>13. CASE p.large
  <2>1. "FIXED" \notin flags
    <3>1. "FIXED" \in flags => Len(L) = 1 /\ ~L[1].large BY DEF PoolOK
    <3>2. Len(L) = 1 => i = 1 OBVIOUS
    <3> QED BY <1>13, <3>1, <3>2
  <2>2. Busy(S, B) BY <2>1 DEF PoolOK
  <2> DEFINE z == [q EXCEPT !.large = FALSE]
             D == RemoveAt(R, i)
             W == (S \ {p}) \cup {z}
  <2>3. /\ z.mem = p.mem /\ z.end = p.end /\ ~z.large /\ z.nodes = q.nodes
        /\ z.free = q.free /\ z \in Puddle
        BY <1>10 DEF Puddle
  <2>4. T = <<z>> \o D
    <3>1. R[i].large BY <1>10, <1>11, <1>13
    <3>2. Regular(R, i) = <<[R[i] EXCEPT !.large = FALSE]>> \o D
      <4> HIDE DEF p
      <4> QED BY <3>1 DEF Regular
    <3> QED BY <1>11, <2>1, <3>2
  <2> HIDE DEF z
  <2>5. Sound(z)
    <3>1. /\ Placed(q) /\ Ordered(q.nodes, q.mem, q.end)
          /\ q.free = Cardinality(FreeUnits(q.nodes))
          BY <1>3 DEF Sound, Held
    <3>2. Placed(z) BY <1>10, <2>3, <3>1 DEF Placed
    <3>3. z.mem = q.mem /\ z.end = q.end BY <1>10, <2>3
    <3> QED BY <2>3, <3>1, <3>2, <3>3 DEF Sound, Held
  <2>6. Lined(D) /\ ToSet(D) = S \ {p}
    <3>1. Lined(D) /\ ToSet(D) = ToSet(R) \ {R[i]}
      <4>1. D = RemoveAt(R, i) /\ i \in 1..Len(R) BY <1>11
      <4> HIDE DEF D
      <4> QED BY <1>11, <4>1, LinedRemoved
    <3>2. q \notin S \ {p} BY <1>2, <1>10
    <3> QED BY <1>11, <3>1, <3>2
  <2> HIDE DEF D
  <2>7. Lined(T) /\ ToSet(T) = W
    <3>1. \A r \in ToSet(D) : r.mem # z.mem BY <1>2, <2>3, <2>6
    <3>2. Lined(T) /\ ToSet(T) = ToSet(D) \cup {z}
          BY <2>3, <2>4, <2>6, <3>1, LinedFirst
    <3> QED BY <2>6, <3>2
  <2>8. Tiles(W, C) /\ StaysBusy(S, B, p, W, C)
    <3>1. /\ Sound(z) /\ z.mem = p.mem /\ z.end = p.end /\ ~z.large
          /\ FreeUnits(z.nodes) =
                (FreeUnits(p.nodes) \cup Used(X)) \ Used(Y)
          /\ Tiles(S, B) /\ p \in S /\ W = (S \ {p}) \cup {z}
          BY <1>1, <1>2, <1>9, <2>3, <2>5
    <3> HIDE DEF S, p, W
    <3> QED BY <1>9, <3>1, Exchanged
  <2>9. Busy(W, C) BY <1>9, <2>2, <2>8 DEF StaysBusy
  <2> HIDE DEF W
  <2> QED BY <2>1, <2>7, <2>8, <2>9 DEF PoolOK
<1> QED BY <1>2, <1>12, <1>13

LEMMA AllocShape ==
    ASSUME NEW pool, NEW size, NEW place
    PROVE  LET got == AllocPool(pool, size, place)
           IN  got = [pool |-> got.pool, mem |-> got.mem]
BY Zenon DEF AllocPool, NewPuddle, From
\* exec_ReallocPool keeps the pool in order and changes one block, or none.
LEMMA ReallocOK ==
    ASSUME NEW pool, NEW B, Pools(pool, B), NEW b \in B, NEW new \in Sizes,
           NEW place \in {TNULL} \cup Places,
           \A p \in ToSet(pool.list) : p.mem # place,
           NEW got, got = ReallocPool(pool, b.mem, b.size, new, place),
           got.pool.pud <= MaxPud,
           NEW C, C = IF got.mem = TNULL THEN B
                      ELSE (B \ {b}) \cup Block(got.mem, new)
    PROVE  Pools(got.pool, C)
<1> DEFINE L == pool.list
           i == Holder(L, b.mem, b.size)
           p == L[i]
           same == StaticRealloc(p, b.mem, b.size, new)
           q == same.puddle
           R == Replaced(L, i, q)
           T == IF "FIXED" \in flags THEN R ELSE Regular(R, i)
           here == From(pool, i, same)
           other == AllocPool(pool, new, place)
<1>1. /\ PoolOK(L, B) /\ Lined(L) /\ Tiles(ToSet(L), B)
      /\ pool \in [list : Seq(Puddle), pud : Nat, thres : Nat]
      BY DEF Pools, PoolOK
<1>2. new \in Nat /\ new > 0 BY MemoryAssumption
<1>3. got = IF "FIXED" \in flags THEN here
            ELSE IF same.mem # TNULL
            THEN [here EXCEPT !.pool.list = Regular(@, i)]
            ELSE IF other.mem = TNULL THEN other
            ELSE [other EXCEPT !.pool.list = Returned(@, b.mem, b.size)]
      BY DEF ReallocPool
<1>4. here = [pool |-> [pool EXCEPT !.list = R], mem |-> same.mem]
      BY DEF From
<1>5. /\ i \in 1..Len(L) /\ Of(b) \subseteq Whole(p) /\ Sound(p)
      /\ Taken(p, b.mem, b.size)
  <2> DEFINE k == i
  <2>1. k = Holder(L, b.mem, b.size) OBVIOUS
  <2> HIDE DEF k
  <2>2. /\ k \in 1..Len(L) /\ Of(b) \subseteq Whole(L[k]) /\ Sound(L[k])
        /\ Taken(L[k], b.mem, b.size)
        BY <1>1, <2>1, HolderIs
  <2> QED BY <2>2 DEF k
<1>6. IF same.mem = TNULL THEN q = p
      ELSE Moves(p, b.mem, b.size, same.mem, new, q)
  <2> DEFINE g == same
  <2>1. g = StaticRealloc(p, b.mem, b.size, new) OBVIOUS
  <2> HIDE DEF g, p
  <2>2. IF g.mem = TNULL THEN g.puddle = p
        ELSE Moves(p, b.mem, b.size, g.mem, new, g.puddle)
        BY <1>2, <1>5, <2>1, ReallocMoves
  <2> QED BY <2>2 DEF g
<1>7. CASE same.mem # TNULL
  <2>1. /\ got.mem = same.mem /\ got.pool = [pool EXCEPT !.list = T]
    <3>1. CASE "FIXED" \in flags
      <4> HIDE DEF here, same, q, R, i
      <4> QED BY <1>3, <1>4, <3>1
    <3>2. CASE "FIXED" \notin flags
      <4>1. got = [here EXCEPT !.pool.list = Regular(@, i)]
            BY <1>3, <1>7, <3>2
      <4> DEFINE v == [pool EXCEPT !.list = R]
      <4>2. v.list = R BY <1>1
      <4> HIDE DEF here, same, q, R, i
      <4>3. here = [pool |-> v, mem |-> same.mem] BY <1>4
      <4> HIDE DEF v
      <4>4. got = [pool |-> [v EXCEPT !.list = Regular(v.list, i)],
                   mem |-> same.mem]
            BY <4>1, <4>3
      <4>5. [v EXCEPT !.list = Regular(R, i)] =
               [pool EXCEPT !.list = Regular(R, i)]
            BY <1>1 DEF v
      <4> QED BY <3>2, <4>2, <4>4, <4>5
    <3> QED BY <3>1, <3>2
  <2>2. C = (B \ {b}) \cup Block(same.mem, new) BY <1>7, <2>1
  <2>3. PoolOK(T, C)
    <3> DEFINE to == same.mem
               k == i
               P == T
    <3>1. /\ Moves(L[k], b.mem, b.size, to, new, q) /\ to # TNULL
          /\ k \in 1..Len(L) /\ Of(b) \subseteq Whole(L[k])
          /\ R = Replaced(L, k, q)
          /\ P = IF "FIXED" \in flags THEN R ELSE Regular(R, k)
          /\ C = (B \ {b}) \cup Block(to, new)
          BY <1>5, <1>6, <1>7, <2>2
    <3> HIDE DEF k, to, q, R, P, L
    <3>2. PoolOK(P, C) BY <1>1, <3>1, ReallocHere
    <3> QED BY <3>2 DEF P
  <2> HIDE DEF T
  <2> QED BY <2>1, <2>3, PoolsWith
<1>8. CASE same.mem = TNULL /\ "FIXED" \in flags
  <2>1. got.mem = TNULL /\ got.pool = [pool EXCEPT !.list = R]
    <3> HIDE DEF here, same, q, R, i
    <3> QED BY <1>3, <1>4, <1>8
  <2>2. R = L
    <3>1. q = p /\ L \in Seq(Puddle) BY <1>1, <1>6, <1>8 DEF Lined
    <3> DEFINE k == i
               P == [L EXCEPT ![k] = q]
    <3>2. k \in 1..Len(L) /\ q = L[k] BY <1>5, <3>1
    <3>3. q \in Puddle
      <4> HIDE DEF k, q
      <4> QED BY <3>1, <3>2, ElementOfSeq
    <3> HIDE DEF k, q, L
    <3>4. /\ P \in Seq(Puddle) /\ Len(P) = Len(L)
          /\ \A j \in 1..Len(L) : P[j] = IF j = k THEN q ELSE L[j]
          BY <3>1, <3>2, <3>3, ExceptSeq
    <3>5. \A j \in 1..Len(L) : P[j] = L[j] BY <3>2, <3>4
    <3> HIDE DEF P
    <3>6. P = L BY <3>1, <3>4, <3>5, SeqEqual
    <3> QED BY <3>6 DEF P, k, Replaced
  <2> HIDE DEF R
  <2>3. PoolOK(R, C) BY <1>1, <2>1, <2>2
  <2> QED BY <2>1, <2>3, PoolsWith
<1>9. CASE same.mem = TNULL /\ "FIXED" \notin flags
  <2> DEFINE D == B \cup Block(other.mem, new)
  <2>a. got = IF other.mem = TNULL THEN other
              ELSE [other EXCEPT !.pool.list = Returned(@, b.mem, b.size)]
        BY <1>3, <1>9
  <2>b. other = [pool |-> other.pool, mem |-> other.mem] BY AllocShape
  <2> DEFINE o == other.pool
             V == Returned(o.list, b.mem, b.size)
  <2>c. /\ got.mem = other.mem
        /\ other.mem = TNULL => got.pool = o
        /\ other.mem # TNULL => got.pool = [o EXCEPT !.list = V]
    <3> HIDE DEF other
    <3> QED BY <2>a, <2>b
  <2>d. Pools(o, D) /\ Fresh(B, other.mem, new)
    <3> DEFINE g == other
    <3>1. g = AllocPool(pool, new, place) OBVIOUS
    <3>2. g.pool.pud <= MaxPud
      <4>1. CASE g.mem = TNULL BY <2>c, <4>1
      <4>2. CASE g.mem # TNULL
        <5>1. got.pool = [o EXCEPT !.list = V] BY <2>c, <4>2
        <5>2. got.pool.pud = o.pud
          <6> HIDE DEF o, V, other
          <6> QED BY <5>1
        <5> QED BY <5>2
      <4> QED BY <4>1, <4>2
    <3> HIDE DEF g
    <3>3. /\ Pools(g.pool, B \cup Block(g.mem, new)) /\ Fresh(B, g.mem, new)
          BY <3>1, <3>2, AllocOK
    <3> QED BY <3>3 DEF g
  <2> HIDE DEF other
  <2>1. CASE other.mem = TNULL
    <3>1. C = B /\ D = B BY <2>1, <2>c, BlockOf
    <3> QED BY <2>1, <2>c, <2>d, <3>1
  <2>2. CASE other.mem # TNULL
    <3>1. C = D \ {b}
      <4> DEFINE c == [mem |-> other.mem, size |-> new]
      <4>1. Block(other.mem, new) = {c} BY <2>2, BlockOf
      <4>2. c \notin B BY <2>2, <2>d DEF Fresh
      <4>3. C = (B \ {b}) \cup Block(other.mem, new) BY <2>2, <2>c
      <4> HIDE DEF c
      <4> QED BY <4>1, <4>2, <4>3
    <3>2. PoolOK(o.list, D) /\ b \in D BY <2>d DEF Pools
    <3> DEFINE M == o.list
               W == V
    <3>3. W = Returned(M, b.mem, b.size) /\ PoolOK(M, D) BY <3>2
    <3> HIDE DEF D, M, W, o
    <3>4. PoolOK(W, C) BY <3>1, <3>2, <3>3, ReturnedOK
    <3>5. got.pool = [o EXCEPT !.list = W] BY <2>2, <2>c DEF W
    <3>6. Pools(o, D) BY <2>d
    <3> QED BY <3>4, <3>5, <3>6, PoolsWith
  <2> QED BY <2>1, <2>2
<1> QED BY <1>7, <1>8, <1>9
-----------------------------------------------------------------------------
(* The steps. *)

\* An empty pool, or one puddle with nothing in it.
LEMMA InitOK == Init => MemInv
<1> SUFFICES ASSUME Init PROVE MemInv OBVIOUS
<1>1. blocks = {} /\ pudsize = PudSize /\ thressize = ThresSize BY DEF Init
<1>2. /\ thressize \in Nat /\ pudsize \in Nat
      /\ 0 < thressize /\ thressize <= pudsize
      BY <1>1, MemoryAssumption
<1>3. PoolOK(list, {})
  <2>1. \A u : u \notin Used({}) BY UsedUnit
  <2>2. CASE "FIXED" \notin flags
    <3>1. list = << >> BY <2>2 DEF Init
    <3>2. list \in Seq(Puddle) /\ Len(list) = 0 /\ DOMAIN list = {} BY <3>1
    <3>3. ToSet(list) = {} BY <3>2 DEF ToSet
    <3>4. Lined(list) BY <3>2 DEF Lined
    <3>5. Tiles(ToSet(list), {}) BY <3>3 DEF Tiles
    <3> QED BY <2>2, <3>3, <3>4, <3>5 DEF PoolOK, Busy
  <2>3. CASE "FIXED" \in flags
    <3> DEFINE place == First(Places)
               whole == (FixedSize \div Align) * Align
               h == MemHead(place, FixedSize, FALSE)
    <3>1. list = <<h>> BY <2>3 DEF Init
    <3>2. place \in Places
      <4>1. Places \in SUBSET Nat /\ Places # {}
            BY MemoryAssumption, PlacesAssumption
      <4> QED BY <4>1, FirstIsLeast
    <3>3. /\ FixedSize \in Nat /\ whole \in Nat /\ whole > 0
          /\ whole <= Rounded(FixedSize)
          BY MemoryAssumption DEF Align, Rounded
    <3>4. \A r \in Places : place < r => place + whole <= r
      <4> HIDE DEF place, whole
      <4>1. FixedSize \in Sizes \cup {FixedSize, MaxPud} OBVIOUS
      <4> QED BY <3>2, <3>3, <4>1, RoomThere
    <3>5. /\ Sound(h) /\ ~h.large /\ FreeUnits(h.nodes) = Whole(h)
      <4> DEFINE g == h
                 no == FALSE
      <4>1. g = MemHead(place, FixedSize, no) /\ no \in BOOLEAN OBVIOUS
      <4> HIDE DEF g, place, no
      <4>2. /\ Sound(g) /\ g.large = no /\ FreeUnits(g.nodes) = Whole(g)
            BY <3>2, <3>3, <3>4, <4>1, HeadIs
      <4> QED BY <4>2 DEF g, no
    <3> HIDE DEF h
    <3>6. h \in Puddle BY <3>5 DEF Sound
    <3>7. /\ list \in Seq(Puddle) /\ Len(list) = 1 /\ list[1] = h
          /\ DOMAIN list = 1..1
          BY <3>1, <3>6
    <3>8. \A k : k \in DOMAIN list <=> k = 1 BY <3>7
    <3>9. ToSet(list) = {h} BY <3>7, <3>8 DEF ToSet
    <3>10. Lined(list)
      <4>1. ~(1 < 1) OBVIOUS
      <4> QED BY <3>7, <3>8, <4>1 DEF Lined
    <3>11. Tiles(ToSet(list), {}) BY <2>1, <3>5, <3>9 DEF Tiles
    <3> QED BY <2>3, <3>5, <3>7, <3>10, <3>11 DEF PoolOK
  <2> QED BY <2>2, <2>3
<1> QED BY <1>1, <1>2, <1>3 DEF MemInv

LEMMA PoolIs ==
    ASSUME MemInv PROVE Pools(Pool, blocks) /\ Pool.list = list
<1>1. list \in Seq(Puddle) BY DEF MemInv, PoolOK, Lined
<1>2. /\ Pool.list = list /\ Pool.pud = pudsize /\ Pool.thres = thressize
      /\ Pool \in [list : Seq(Puddle), pud : Nat, thres : Nat]
      BY <1>1 DEF MemInv, Pool
<1> QED BY <1>2 DEF MemInv, Pools

\* TAlloc gives no memory of another puddle's.
LEMMA GivenIsFree ==
    ASSUME MemInv, NEW place \in Given
    PROVE  /\ place \in {TNULL} \cup Places
           /\ \A p \in ToSet(list) : p.mem # place
<1>1. place \in {TNULL} \cup (Places \ {list[i].mem : i \in DOMAIN list})
      BY DEF Given
<1>2. ASSUME NEW p \in ToSet(list) PROVE p.mem # place
  <2>1. Sound(p) BY DEF MemInv, PoolOK, Tiles
  <2>2. p.mem \in Nat /\ p.mem > 0 BY <2>1, SoundIs
  <2>3. p.mem \in {list[i].mem : i \in DOMAIN list} BY DEF ToSet
  <2> QED BY <1>1, <2>2, <2>3 DEF TNULL
<1> QED BY <1>1, <1>2

LEMMA BecomesOK ==
    ASSUME NEW pool, NEW C, Pools(pool, C), Becomes(pool), blocks' = C
    PROVE  MemInv'
<1>1. /\ list' = pool.list /\ pudsize' = pool.pud /\ thressize' = pool.thres
      /\ flags' = flags
      BY DEF Becomes
<1>2. /\ pool.pud \in Nat /\ pool.thres \in Nat
      /\ 0 < pool.thres /\ pool.thres <= pool.pud /\ PoolOK(pool.list, C)
      BY DEF Pools
<1> QED BY <1>1, <1>2 DEF MemInv, PoolOK

LEMMA AllocStep == MemInv /\ Alloc => MemInv'
<1> SUFFICES ASSUME MemInv, Alloc PROVE MemInv' OBVIOUS
<1>1. PICK size \in Sizes, place \in Given :
         LET got == AllocPool(Pool, size, place)
         IN  /\ Becomes(got.pool)
             /\ blocks' = blocks \cup Block(got.mem, size)
      BY DEF Alloc
<1> DEFINE pool == Pool
           got == AllocPool(pool, size, place)
           C == blocks \cup Block(got.mem, size)
<1>2. Pools(pool, blocks) /\ pool.list = list BY PoolIs
<1>3. Becomes(got.pool) /\ blocks' = C BY <1>1
<1>4. got.pool.pud <= MaxPud BY <1>3 DEF Becomes
<1>5. place \in {TNULL} \cup Places BY GivenIsFree
<1>6. \A p \in ToSet(pool.list) : p.mem # place BY <1>2, GivenIsFree
<1> DEFINE g == got
<1>7. g = AllocPool(pool, size, place) /\ g.pool.pud <= MaxPud BY <1>4
<1> HIDE DEF g, pool
<1>8. Pools(g.pool, blocks \cup Block(g.mem, size))
      BY <1>2, <1>5, <1>6, <1>7, AllocOK
<1>9. Pools(got.pool, C) BY <1>8 DEF g
<1> HIDE DEF got, C
<1> QED BY <1>3, <1>9, BecomesOK

LEMMA FreeStep == MemInv /\ Free => MemInv'
<1> SUFFICES ASSUME MemInv, Free PROVE MemInv' OBVIOUS
<1>1. PICK b \in blocks : /\ list' = Returned(list, b.mem, b.size)
                          /\ blocks' = blocks \ {b}
                          /\ UNCHANGED <<flags, pudsize, thressize>>
      BY DEF Free
<1> DEFINE T == Returned(list, b.mem, b.size)
           C == blocks \ {b}
<1>2. PoolOK(T, C)
  <2>1. T = Returned(list, b.mem, b.size) /\ C = blocks \ {b} OBVIOUS
  <2>2. PoolOK(list, blocks) BY DEF MemInv
  <2> HIDE DEF T, C
  <2> QED BY <2>1, <2>2, ReturnedOK
<1>3. list' = T /\ blocks' = C BY <1>1
<1> HIDE DEF T, C
<1> QED BY <1>1, <1>2, <1>3 DEF MemInv, PoolOK

LEMMA ReallocStep == MemInv /\ Realloc => MemInv'
<1> SUFFICES ASSUME MemInv, Realloc PROVE MemInv' OBVIOUS
<1>1. PICK b \in blocks, size \in Sizes, place \in Given :
         LET got == ReallocPool(Pool, b.mem, b.size, size, place)
         IN  /\ Becomes(got.pool)
             /\ blocks' = IF got.mem = TNULL THEN blocks
                          ELSE (blocks \ {b}) \cup Block(got.mem, size)
      BY DEF Realloc
<1> DEFINE pool == Pool
           g == ReallocPool(pool, b.mem, b.size, size, place)
           C == IF g.mem = TNULL THEN blocks
                ELSE (blocks \ {b}) \cup Block(g.mem, size)
<1>2. Pools(pool, blocks) /\ pool.list = list BY PoolIs
<1>3. Becomes(g.pool) /\ blocks' = C BY <1>1
<1>4. g.pool.pud <= MaxPud BY <1>3 DEF Becomes
<1>5. place \in {TNULL} \cup Places BY GivenIsFree
<1>6. \A p \in ToSet(pool.list) : p.mem # place BY <1>2, GivenIsFree
<1>7. /\ g = ReallocPool(pool, b.mem, b.size, size, place)
      /\ C = IF g.mem = TNULL THEN blocks
             ELSE (blocks \ {b}) \cup Block(g.mem, size)
      OBVIOUS
<1> HIDE DEF g, pool, C
<1>8. Pools(g.pool, C) BY <1>2, <1>4, <1>5, <1>6, <1>7, ReallocOK
<1> QED BY <1>3, <1>8, BecomesOK

\* Every step keeps the invariant.
LEMMA MemInvHolds == Spec => []MemInv
<1>1. Init => MemInv BY InitOK
<1>2. MemInv /\ [Next]_vars => MemInv'
  <2>1. MemInv /\ UNCHANGED vars => MemInv' BY DEF vars, MemInv, PoolOK
  <2> QED BY <2>1, AllocStep, FreeStep, ReallocStep DEF Next
<1> QED BY <1>1, <1>2, PTL DEF Spec

-----------------------------------------------------------------------------
(* What the invariant says of the properties. *)

LEMMA WithinIs ==
    ASSUME NEW p, Sound(p), NEW b \in Blocks
    PROVE  (p.mem <= b.mem /\ b.mem + Rounded(b.size) <= p.end)
              <=> Of(b) \subseteq Whole(p)
<1> DEFINE r == Rounded(b.size)
           m == b.mem
<1>1. m \in Nat /\ Of(b) = Units(b.mem, b.size) /\ b.size \in Nat /\ b.size > 0
      BY BlockIs
<1>2. r \in Nat /\ r > 0 BY <1>1, RoundedUp
<1>3. p.mem \in Nat /\ p.end \in Nat BY SoundIs
<1>4. Of(b) = m..(m + r - 1) BY <1>1 DEF Units
<1> HIDE DEF r, m
<1>5. ASSUME p.mem <= m, m + r <= p.end PROVE Of(b) \subseteq Whole(p)
      BY <1>1, <1>2, <1>3, <1>4, <1>5 DEF Whole
<1>6. ASSUME Of(b) \subseteq Whole(p) PROVE p.mem <= m /\ m + r <= p.end
  <2>1. m \in m..(m + r - 1) /\ m + r - 1 \in m..(m + r - 1)
        BY <1>1, <1>2 DEF m
  <2>2. m \in Whole(p) /\ m + r - 1 \in Whole(p) BY <1>4, <1>6, <2>1
  <2> QED BY <1>1, <1>2, <1>3, <2>2 DEF Whole, m
<1> QED BY <1>5, <1>6 DEF r, m

LEMMA InvTiles == MemInv => MemoryIsTiled
<1> SUFFICES ASSUME MemInv PROVE MemoryIsTiled OBVIOUS
<1> DEFINE S == ToSet(list)
<1>1. Lined(list) /\ Tiles(S, blocks) BY DEF MemInv, PoolOK
<1>2. /\ Len(list) \in Nat /\ DOMAIN list = 1..Len(list)
      /\ \A i \in 1..Len(list) : list[i] \in S
      /\ \A p : p \in S <=> \E i \in 1..Len(list) : p = list[i]
      BY <1>1, LinedIs
<1>3. /\ \A p \in S : Sound(p)
      /\ blocks \subseteq Blocks
      /\ \A b \in blocks : \E p \in S : Of(b) \subseteq Whole(p)
      /\ \A b, c \in blocks : b # c => Of(b) \cap Of(c) = {}
      /\ \A p \in S : FreeUnits(p.nodes) = Whole(p) \ Used(blocks)
      BY <1>1 DEF Tiles
<1> HIDE DEF S
<1>4. \A p \in S : \A b \in blocks : b \in Within(p) <=> Of(b) \subseteq Whole(p)
  <2> SUFFICES ASSUME NEW p \in S, NEW b \in blocks
               PROVE  b \in Within(p) <=> Of(b) \subseteq Whole(p)
      OBVIOUS
  <2>1. Sound(p) /\ b \in Blocks BY <1>3
  <2>2. (p.mem <= b.mem /\ b.mem + Rounded(b.size) <= p.end)
           <=> Of(b) \subseteq Whole(p)
        BY <2>1, WithinIs
  <2> QED BY <2>2 DEF Within
<1>5. \A b \in blocks : \E i \in DOMAIN list : b \in Within(list[i])
      BY <1>2, <1>3, <1>4
<1>6. ASSUME NEW i \in DOMAIN list, NEW u \in list[i].mem..(list[i].end - 1)
      PROVE  Covers(list[i], u) = 1
  <2> DEFINE p == list[i]
             A == {n \in DOMAIN p.nodes :
                     p.nodes[n].at <= u /\ u < End(p.nodes[n])}
             B == {b \in Within(p) :
                     b.mem <= u /\ u < b.mem + Rounded(b.size)}
  <2>1. /\ p \in S /\ Sound(p)
        /\ FreeUnits(p.nodes) = Whole(p) \ Used(blocks)
        BY <1>2, <1>3
  <2>2. u \in Whole(p) BY DEF Whole
  <2>3. /\ p.mem \in Nat /\ p.end \in Nat /\ Ordered(p.nodes, p.mem, p.end)
        BY <2>1, SoundIs
  <2>4. Covers(list[i], u) = Cardinality(A) + Cardinality(B) BY DEF Covers
  <2> HIDE DEF p
  <2>5. u \in Nat BY <2>2, <2>3 DEF Whole
  <2>6. DOMAIN p.nodes = 1..Len(p.nodes)
        /\ \A n \in 1..Len(p.nodes) : /\ p.nodes[n].at \in Nat
                                      /\ End(p.nodes[n]) \in Nat
    <3> DEFINE s == p.nodes
    <3>1. Ordered(s, p.mem, p.end) BY <2>3
    <3> HIDE DEF s
    <3>2. DOMAIN s = 1..Len(s) /\ \A n \in 1..Len(s) :
                                     s[n].at \in Nat /\ End(s[n]) \in Nat
          BY <2>3, <3>1, OrderedIs
    <3> QED BY <3>2 DEF s
  <2>7. \A n \in 1..Len(p.nodes) : n \in A <=> Has(p.nodes[n], u)
        BY <2>5, <2>6 DEF Has
  <2>8. \A b : b \in B <=> b \in blocks /\ Of(b) \subseteq Whole(p) /\ u \in Of(b)
    <3> TAKE b
    <3>1. b \in B => b \in blocks BY DEF Within
    <3>2. ASSUME b \in blocks
          PROVE  (b.mem <= u /\ u < b.mem + Rounded(b.size)) <=> u \in Of(b)
      <4>1. b \in Blocks BY <1>3, <3>2
      <4>2. /\ b.mem \in Nat /\ b.size \in Nat
            /\ Of(b) = Units(b.mem, b.size)
            BY <4>1, BlockIs
      <4>3. Rounded(b.size) \in Nat BY <4>2, RoundedUp
      <4> QED BY <2>5, <4>2, <4>3 DEF Units
    <3> QED BY <1>4, <2>1, <3>1, <3>2
  <2>9. CASE u \in FreeUnits(p.nodes)
    <3>1. PICK n \in 1..Len(p.nodes) : Has(p.nodes[n], u)
          BY <2>6, <2>9, FreeUnit
    <3>2. A = {n}
      <4>1. n \in A BY <2>7, <3>1
      <4>2. \A k \in A : k \in 1..Len(p.nodes) /\ Has(p.nodes[k], u)
            BY <2>6, <2>7
      <4> DEFINE s == p.nodes
      <4>3. /\ Ordered(s, p.mem, p.end) /\ n \in 1..Len(s) /\ Has(s[n], u)
            /\ \A k \in A : k \in 1..Len(s) /\ Has(s[k], u)
            BY <2>3, <3>1, <4>2
      <4> HIDE DEF s, A
      <4>4. \A k \in A : k = n BY <2>3, <4>3, NodesApart
      <4> QED BY <4>1, <4>4
    <3>3. B = {}
      <4>1. u \notin Used(blocks) BY <2>1, <2>9 DEF p
      <4>2. \A b \in blocks : u \notin Of(b) BY <4>1, UsedUnit
      <4> QED BY <2>8, <4>2
    <3> HIDE DEF A, B
    <3>4. Cardinality(A) = 1 /\ Cardinality(B) = 0
          BY <3>2, <3>3, FS_Singleton, FS_EmptySet
    <3> QED BY <2>4, <3>4
  <2>10. CASE u \notin FreeUnits(p.nodes)
    <3>1. A = {} BY <2>6, <2>7, <2>10, FreeUnit
    <3>2. u \in Used(blocks) BY <2>1, <2>2, <2>10 DEF p
    <3>3. PICK b \in blocks : u \in Of(b) BY <3>2, UsedUnit
    <3>4. Of(b) \subseteq Whole(p)
      <4>1. PICK r \in S : Of(b) \subseteq Whole(r) BY <1>3
      <4>2. r = p BY <1>1, <2>1, <2>2, <3>3, <4>1, OnePuddle DEF S
      <4> QED BY <4>1, <4>2
    <3>5. B = {b}
      <4>1. b \in B BY <2>8, <3>3, <3>4
      <4>2. \A c \in B : c = b BY <1>3, <2>8, <3>3
      <4> QED BY <4>1, <4>2
    <3> HIDE DEF A, B
    <3>6. Cardinality(A) = 0 /\ Cardinality(B) = 1
          BY <3>1, <3>5, FS_Singleton, FS_EmptySet
    <3> QED BY <2>4, <3>6
  <2> QED BY <2>9, <2>10
<1>7. ASSUME NEW i \in DOMAIN list, NEW n \in 1..(Len(list[i].nodes) - 1)
      PROVE  End(list[i].nodes[n]) < list[i].nodes[n + 1].at
  <2> DEFINE s == list[i].nodes
             m == n + 1
  <2>1. /\ list[i].mem \in Nat /\ list[i].end \in Nat
        /\ Ordered(s, list[i].mem, list[i].end)
    <3>1. Sound(list[i]) BY <1>2, <1>3
    <3> QED BY <3>1, SoundIs
  <2>a. n \in 1..(Len(s) - 1) OBVIOUS
  <2> HIDE DEF s
  <2>2. /\ Len(s) \in Nat
        /\ \A k, l \in 1..Len(s) : k < l => End(s[k]) < s[l].at
        BY <2>1, OrderedIs
  <2>3. n \in 1..Len(s) /\ m \in 1..Len(s) /\ n < m BY <2>a, <2>2
  <2> HIDE DEF m
  <2>4. End(s[n]) < s[m].at BY <2>2, <2>3
  <2> QED BY <2>4 DEF s, m
<1>8. ASSUME NEW i \in DOMAIN list PROVE list[i].free = Held(list[i])
      BY <1>2, <1>3 DEF Sound
<1> QED BY <1>5, <1>6, <1>7, <1>8 DEF MemoryIsTiled

LEMMA InvUsed == MemInv => PuddlesAreUsed
<1> SUFFICES ASSUME MemInv, "FIXED" \notin flags, NEW i \in DOMAIN list
             PROVE  Within(list[i]) # {}
    BY DEF PuddlesAreUsed
<1> DEFINE S == ToSet(list)
<1>1. Lined(list) /\ Tiles(S, blocks) /\ Busy(S, blocks)
      BY DEF MemInv, PoolOK
<1>2. list[i] \in S BY DEF ToSet
<1>3. PICK b \in blocks : Of(b) \subseteq Whole(list[i])
      BY <1>1, <1>2 DEF Busy
<1>4. Sound(list[i]) /\ b \in Blocks BY <1>1, <1>2 DEF Tiles
<1>5. list[i].mem <= b.mem /\ b.mem + Rounded(b.size) <= list[i].end
      BY <1>3, <1>4, WithinIs
<1> QED BY <1>5 DEF Within

LEMMA InvLast == MemInv => LargeOnesLast
BY DEF MemInv, PoolOK, Lined, LargeOnesLast

-----------------------------------------------------------------------------
(* The theorems. *)

\* Every unit of a pool is in one free node or in one block in use, however
\* the calls of exec_AllocPool, exec_FreePool and exec_ReallocPool follow
\* each other; the free nodes stay in order and merged, and tmh_Free counts
\* them.
THEOREM MemoryStaysTiled == Spec => []MemoryIsTiled
BY MemInvHolds, InvTiles, PTL

\* A pool that is not fixed never keeps a puddle without a block, so that all
\* its memory goes back with the last block (exec_FreePool).
THEOREM PuddlesStayUsed == Spec => []PuddlesAreUsed
BY MemInvHolds, InvUsed, PTL

\* The LARGE puddles stay behind the others, so that the search for free
\* memory, which stops at the first of them, has seen every puddle that could
\* serve (exec_AllocPool, TNodeUp).
THEOREM LargeOnesStayLast == Spec => []LargeOnesLast
BY MemInvHolds, InvLast, PTL

-----------------------------------------------------------------------------
(* The waits. *)

USE SyncAssumption


TaskPlaces == {"idle", "put", "timed", "aborting", "selfreply", "reclaim",
               "clear", "closing", "joining", "closed", "owns", "queued",
               "asking"}
DevPlaces == {"sleep", "woken", "reading", "replying", "gone"}

\* Where a time request may be on its way, and where a SINGLE may be pending.
Timing == {"put", "timed", "aborting"}
Waiting == Timing \cup {"selfreply", "reclaim", "clear", "queued", "asking"}

Once(seq) == \A i, j \in 1..Len(seq) : seq[i] = seq[j] => i = j

Types ==
    /\ pc \in [Tasks \cup {Dev} -> TaskPlaces \cup DevPlaces]
    /\ sig \in [Tasks \cup {Dev} -> SUBSET {"SINGLE", "USER", "ABORT"}]
    /\ answers \in [{"device", "kernel"} -> Tasks \cup {None}]
    /\ asked \in Seq(Tasks) /\ waiters \in Seq(Tasks)
    /\ due \subseteq reqlist
    /\ ioport \subseteq Tasks /\ reqlist \subseteq Tasks
    /\ synced \subseteq Tasks
    /\ Once(asked) /\ Once(waiters)

\* A request of a task is in one place, and only while the task waits for it;
\* a SINGLE is pending only for a task that waits.
Requests(t) ==
    /\ t \in ioport => pc[t] \in Timing /\ t \notin reqlist \cup synced
    /\ t \in reqlist => pc[t] \in Timing /\ t \notin synced
    /\ t \in synced => pc[t] \in Timing \cup {"reclaim", "asking"}
    /\ "SINGLE" \in sig[t] => pc[t] \in Waiting

\* The device answers under DevLock, which an abortion needs.
Device1 ==
    /\ pc[Dev] \in {"reading", "replying"} => devlock = Dev
    /\ answers["device"] # None => /\ pc[answers["device"]] \in Timing
                                   /\ pc[Dev] = "replying"

\* A task that asks the kernel is signalled after its message was put back.
Asks(t) ==
    /\ t \in In(asked) => /\ pc[t] = "asking" /\ t \notin synced
                          /\ "SINGLE" \notin sig[t]
    /\ answers["kernel"] = t => /\ pc[t] = "asking" /\ t \in synced
                                /\ "SINGLE" \notin sig[t]

\* An owner goes on, or has been signalled to.
Locks(t) ==
    /\ pc[t] = "owns" => owner = t
    /\ owner = t => pc[t] \in {"owns", "queued"}
    /\ t \in In(waiters) => pc[t] = "queued" /\ owner # t
    /\ pc[t] = "queued" /\ "SINGLE" \in sig[t] => owner = t

SyncInv == /\ Types /\ Device1
           /\ \A t \in Tasks : Requests(t) /\ Asks(t) /\ Locks(t)

-----------------------------------------------------------------------------
(* Queues without repetitions. *)

LEMMA InAppend ==
    ASSUME NEW S, NEW seq \in Seq(S), NEW x \in S, Once(seq), x \notin In(seq)
    PROVE  /\ Append(seq, x) \in Seq(S) /\ Once(Append(seq, x))
           /\ In(Append(seq, x)) = In(seq) \cup {x}
<1>1. Len(seq) \in Nat /\ Len(Append(seq, x)) = Len(seq) + 1 OBVIOUS
<1>2. \A i \in 1..(Len(seq) + 1) :
         Append(seq, x)[i] = IF i <= Len(seq) THEN seq[i] ELSE x
      OBVIOUS
<1>3. In(Append(seq, x)) = In(seq) \cup {x} BY <1>1, <1>2 DEF In
<1>4. \A i \in 1..Len(seq) : seq[i] # x BY DEF In
<1>5. Once(Append(seq, x)) BY <1>1, <1>2, <1>4 DEF Once
<1> QED BY <1>3, <1>5

LEMMA InTail ==
    ASSUME NEW S, NEW seq \in Seq(S), seq # << >>, Once(seq)
    PROVE  /\ Tail(seq) \in Seq(S) /\ Once(Tail(seq))
           /\ Head(seq) \in In(seq) /\ Head(seq) \in S
           /\ In(Tail(seq)) = In(seq) \ {Head(seq)}
<1>1. Len(seq) \in Nat /\ Len(seq) > 0 /\ Head(seq) = seq[1] OBVIOUS
<1>2. Tail(seq) \in Seq(S) /\ Len(Tail(seq)) = Len(seq) - 1 OBVIOUS
<1>3. \A i \in 1..(Len(seq) - 1) : Tail(seq)[i] = seq[i + 1] OBVIOUS
<1>4. Once(Tail(seq)) BY <1>1, <1>2, <1>3 DEF Once
<1>5. \A x \in In(Tail(seq)) : x \in In(seq) /\ x # Head(seq)
      BY <1>1, <1>2, <1>3 DEF In, Once
<1>6. ASSUME NEW x \in In(seq), x # Head(seq) PROVE x \in In(Tail(seq))
  <2>1. PICK i \in 1..Len(seq) : seq[i] = x BY <1>6 DEF In
  <2>2. i - 1 \in 1..(Len(seq) - 1) BY <1>1, <1>6, <2>1
  <2>3. Tail(seq)[i - 1] = x BY <1>3, <2>1, <2>2
  <2> QED BY <1>2, <2>2, <2>3 DEF In
<1>7. Head(seq) \in In(seq) /\ Head(seq) \in S BY <1>1 DEF In
<1> QED BY <1>2, <1>4, <1>5, <1>6, <1>7

-----------------------------------------------------------------------------
(* The invariant. *)

LEMMA SyncStart == SyncInit => SyncInv
<1> SUFFICES ASSUME SyncInit PROVE SyncInv OBVIOUS
<1>1. In(asked) = {} /\ In(waiters) = {} BY DEF SyncInit, In
<1>2. Types
  <2>1. asked \in Seq(Tasks) /\ waiters \in Seq(Tasks) BY DEF SyncInit
  <2>2. Once(asked) /\ Once(waiters) BY DEF SyncInit, Once
  <2>3. pc \in [Tasks \cup {Dev} -> TaskPlaces \cup DevPlaces]
        BY DEF SyncInit, TaskPlaces, DevPlaces
  <2> QED BY <2>1, <2>2, <2>3 DEF SyncInit, Types
<1>3. \A t \in Tasks : pc[t] = "idle" /\ sig[t] = {} BY DEF SyncInit
<1>4. pc[Dev] = "sleep" BY DEF SyncInit
<1> QED BY <1>1, <1>2, <1>3, <1>4
        DEF SyncInit, SyncInv, Device1, Requests, Asks, Locks, Timing

\* What a task does by itself in its calls.
LEMMA ProceedKeeps ==
    ASSUME SyncInv, NEW t \in Tasks, Proceed(t)
    PROVE  SyncInv'
<1> USE DEF SyncInv, Types, Device1, Requests, Asks, Locks, Goto, At, Signal,
            Take, Pending, Timing, Waiting, TaskPlaces, DevPlaces, timer, lock, In,
            Once
<1>1. CASE PutSignal(t) BY <1>1 DEF PutSignal
<1>2. CASE Woken(t) BY <1>2 DEF Woken
<1>3. CASE AbortIO(t)
  <2>0. devlock = None BY <1>3 DEF AbortIO
  <2>1. answers["device"] = None /\ pc[Dev] \notin {"reading", "replying"}
        BY <2>0 DEF None, Dev
  <2>5. In(asked)' = In(asked) /\ In(waiters)' = In(waiters)
        /\ Once(asked)' /\ Once(waiters)'
        BY <1>3 DEF AbortIO
  <2>6. t # Dev OBVIOUS
  <2> HIDE DEF In, Once
  <2>2. CASE t \in synced BY <1>3, <2>1, <2>2, <2>5, <2>6 DEF AbortIO
  <2>3. CASE t \notin synced /\ t \in reqlist BY <1>3, <2>1, <2>3, <2>5, <2>6 DEF AbortIO
  <2>4. CASE t \notin synced \cup reqlist BY <1>3, <2>1, <2>4, <2>5, <2>6 DEF AbortIO
  <2> QED BY <2>2, <2>3, <2>4
<1>4. CASE SelfReply(t) BY <1>4 DEF SelfReply
<1>5. CASE Reclaim(t) BY <1>5 DEF Reclaim
<1>6. CASE Clear(t) BY <1>6 DEF Clear
<1>7. CASE AbortDev(t) BY <1>7 DEF AbortDev
<1>8. CASE DevJoined(t) BY <1>8 DEF DevJoined
<1>9. CASE Locked(t) BY <1>9 DEF Locked
<1>10. CASE GotReply(t) BY <1>10 DEF GotReply
<1> QED BY <1>1, <1>2, <1>3, <1>4, <1>5, <1>6, <1>7, <1>8, <1>9, <1>10
        DEF Proceed

\* What a task begins, what comes to it, and the end of a lock.
LEMMA CallsKeep ==
    ASSUME SyncInv, NEW t \in Tasks,
           Poke(t) \/ Expire(t) \/ PutIO(t) \/ Lock(t) \/ Ask(t) \/ Close(t)
           \/ Unlock(t)
    PROVE  SyncInv'
<1> USE DEF SyncInv, Types, Device1, Requests, Asks, Locks, Goto, At, Signal,
            Take, Pending, Timing, Waiting, TaskPlaces, DevPlaces, timer, lock
<1>1. CASE Poke(t) BY <1>1 DEF Poke
<1>2. CASE Expire(t) BY <1>2 DEF Expire
<1>3. CASE PutIO(t) BY <1>3 DEF PutIO
<1>4. CASE Close(t)
  <2>1. UNCHANGED <<sig, ioport, reqlist, due, synced, asked, answers, owner,
                    nest, waiters>> /\ pc[t] = "idle" /\ devlock = None
        BY <1>4 DEF Close
  <2>2. \E p \in {"closing", "closed"} : pc' = [pc EXCEPT ![t] = p]
        BY <1>4 DEF Close
  <2>3. In(asked)' = In(asked) /\ In(waiters)' = In(waiters)
        /\ Once(asked)' /\ Once(waiters)'
        BY <2>1 DEF In, Once
  <2>4. answers["device"] = None /\ pc[Dev] \notin {"reading", "replying"}
        BY <2>1 DEF None, Dev
  <2>5. t # Dev OBVIOUS
  <2>6. PICK p \in {"closing", "closed"} : pc' = [pc EXCEPT ![t] = p] BY <2>2
  <2>7. pc'[Dev] = pc[Dev] /\ pc'[t] = p BY <2>5, <2>6
  <2>8. Types' /\ Device1' BY <2>1, <2>3, <2>4, <2>6, <2>7
  <2>9. \A u \in Tasks : Requests(u)' /\ Asks(u)' /\ Locks(u)'
        BY <2>1, <2>3, <2>6, <2>7
  <2> QED BY <2>8, <2>9
<1>5. CASE Ask(t)
  <2>1. t \notin In(asked) BY <1>5 DEF Ask
  <2>2. /\ asked' \in Seq(Tasks) /\ Once(asked')
        /\ In(asked') = In(asked) \cup {t}
        BY <1>5, <2>1, InAppend DEF Ask
  <2>3. In(waiters)' = In(waiters) /\ In(asked)' = In(asked')
        /\ Once(waiters)' /\ Once(asked)'
        BY <1>5, <2>2 DEF Ask, In, Once
  <2> QED BY <1>5, <2>2, <2>3 DEF Ask
<1>6. CASE Lock(t)
  <2>1. In(asked)' = In(asked) /\ Once(asked)' BY <1>6 DEF Lock, In, Once
  <2>2. CASE owner \notin {None, t}
    <3>1. pc[t] = "idle" /\ t \notin In(waiters) BY <1>6, <2>2 DEF Lock
    <3>2. waiters' = Append(waiters, t) BY <1>6, <2>2 DEF Lock
    <3>3. /\ waiters' \in Seq(Tasks) /\ Once(waiters')
          /\ In(waiters') = In(waiters) \cup {t}
          BY <3>1, <3>2, InAppend
    <3> QED BY <1>6, <2>1, <2>2, <3>1, <3>3 DEF Lock
  <2>3. CASE owner \in {None, t}
    <3>1. In(waiters)' = In(waiters) /\ Once(waiters)' /\ waiters' = waiters
          BY <1>6, <2>3 DEF Lock, In, Once
    <3> QED BY <1>6, <2>1, <2>3, <3>1 DEF Lock
  <2> QED BY <2>2, <2>3
<1>7. CASE Unlock(t)
  <2>0. asked' = asked BY <1>7 DEF Unlock
  <2>1. In(asked)' = In(asked) /\ Once(asked)' BY <2>0 DEF In, Once
  <2>2. CASE nest = 1 /\ waiters # <<>>
    <3>1. waiters' = Tail(waiters) BY <1>7, <2>2 DEF Unlock
    <3>2. /\ waiters' \in Seq(Tasks) /\ Once(waiters')
          /\ Head(waiters) \in In(waiters) /\ Head(waiters) \in Tasks
          /\ In(waiters') = In(waiters) \ {Head(waiters)}
          BY <2>2, <3>1, InTail
    <3>3. /\ owner' = Head(waiters) /\ pc' = [pc EXCEPT ![t] = "idle"]
          /\ sig' = [sig EXCEPT ![Head(waiters)] = @ \cup {"SINGLE"}]
          /\ pc[t] = "owns" /\ owner = t
          BY <1>7, <2>2 DEF Unlock
    <3> HIDE DEF In
    <3> QED BY <1>7, <2>1, <3>2, <3>3 DEF Unlock
  <2>3. CASE ~(nest = 1 /\ waiters # <<>>)
    <3>1. In(waiters)' = In(waiters) /\ Once(waiters)' /\ waiters' = waiters
          BY <1>7, <2>3 DEF Unlock, In, Once
    <3>2. waiters = << >> => In(waiters) = {} BY DEF In
    <3> QED BY <1>7, <2>1, <2>3, <3>1, <3>2 DEF Unlock
  <2> QED BY <2>2, <2>3
<1> QED BY <1>1, <1>2, <1>3, <1>4, <1>5, <1>6, <1>7

\* The device and the kernel.
LEMMA ServersKeep ==
    ASSUME SyncInv, Device \/ KernelStep
    PROVE  SyncInv'
<1> USE DEF SyncInv, Types, Device1, Requests, Asks, Locks, Goto, At, Signal,
            Take, Pending, Timing, Waiting, TaskPlaces, DevPlaces, timer, lock
<1>1. CASE DevWake BY <1>1 DEF DevWake, In, Once
<1>2. CASE DevLock BY <1>2 DEF DevLock, In, Once
<1>3. CASE DevRead BY <1>3 DEF DevRead, In, Once
<1>4. CASE DevSignal BY <1>4 DEF DevSignal, In, Once
<1>5. CASE DevUnlock BY <1>5 DEF DevUnlock, In, Once
<1>6. ASSUME NEW t \in Tasks, DevReply(t) PROVE SyncInv'
      BY <1>6 DEF DevReply, In, Once
<1>7. CASE Reply
  <2>1. In(waiters)' = In(waiters) /\ Once(waiters)' BY <1>7 DEF Reply, lock, In, Once
  <2>2. /\ asked' \in Seq(Tasks) /\ Once(asked')
        /\ Head(asked) \in In(asked) /\ Head(asked) \in Tasks
        /\ In(asked') = In(asked) \ {Head(asked)}
        BY <1>7, InTail DEF Reply
  <2> QED BY <1>7, <2>1, <2>2 DEF Reply
<1>8. CASE ReplySignal BY <1>8 DEF ReplySignal, In, Once
<1> QED BY <1>1, <1>2, <1>3, <1>4, <1>5, <1>6, <1>7, <1>8 DEF Device, KernelStep

LEMMA SyncStep == SyncInv /\ [SyncNext]_syncVars => SyncInv'
<1> SUFFICES ASSUME SyncInv, [SyncNext]_syncVars PROVE SyncInv' OBVIOUS
<1>1. CASE UNCHANGED syncVars
      BY <1>1 DEF syncVars, SyncInv, Types, Device1, Requests, Asks, Locks, In,
                  Once, timer, lock
<1>2. CASE SyncNext BY <1>2, ProceedKeeps, CallsKeep, ServersKeep DEF SyncNext
<1> QED BY <1>1, <1>2

LEMMA SyncHolds == SyncSpec => []SyncInv
BY SyncStart, SyncStep, PTL DEF SyncSpec

\* exec_Lock and exec_Unlock, for any number of tasks: the task that goes on
\* as the owner of a lock is its owner, though a SINGLE of any origin would
\* let it go on.
THEOREM LockHasOneOwner == SyncSpec => []OneOwner
<1>1. SyncInv => OneOwner BY DEF SyncInv, Locks, OneOwner, At
<1> QED BY <1>1, SyncHolds, PTL

\* exec_WaitTime, exec_Lock and exec_sendmsg, for any number of tasks: a task
\* that returned from one of them has no SINGLE pending, no request with the
\* device and no message in its sync port, and none is on its way.
THEOREM NothingIsLeft == SyncSpec => []NothingLeft
<1>1. SyncInv => NothingLeft
  <2> SUFFICES ASSUME SyncInv, NEW t \in Tasks,
                      pc[t] \in {"idle", "owns", "closed"}
               PROVE  /\ "SINGLE" \notin sig[t]
                      /\ t \notin reqlist \cup synced \cup ioport \cup In(asked)
                      /\ \A by \in DOMAIN answers : answers[by] # t
      BY DEF NothingLeft
  <2>1. DOMAIN answers = {"device", "kernel"} BY DEF SyncInv, Types
  <2> QED BY <2>1 DEF SyncInv, Requests, Asks, Device1, Timing, Waiting
<1> QED BY <1>1, SyncHolds, PTL

=============================================================================
