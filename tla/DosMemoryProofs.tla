-------------------------- MODULE DosMemoryProofs --------------------------
(***************************************************************************)
(* Lemmas about the chain of memory control blocks: what each operator of  *)
(* DosMemory does to a well-formed chain.                                  *)
(*                                                                         *)
(* A chain is well-formed (Chained) when its blocks tile memory from       *)
(* FirstMCB to Top and the block over the video memory belongs to DOS.     *)
(* The choices of the model (the end of a run of free blocks, the block    *)
(* that fits best, the largest size) exist because a set of naturals has a *)
(* least element; the library states that for any well-founded relation.   *)
(* The loop of DOS_CompressMemory is proved to come to the closed form of  *)
(* the model: no other chain has all of it joined.                         *)
(***************************************************************************)
EXTENDS DosKernel, WellFoundedInduction, TLAPS

-----------------------------------------------------------------------------
(* Least and greatest elements.                                            *)

\* A nonempty set of natural numbers has a least element.
LEMMA LeastExists ==
    ASSUME NEW S \in SUBSET Nat, S # {}
    PROVE  \E n \in S : \A m \in S : n <= m
<1> DEFINE Less == OpToRel(<, Nat)
<1>1. IsWellFoundedOn(Less, Nat)
    BY NatLessThanWellFounded
<1>2. \A m, n \in Nat : <<m, n>> \in Less <=> m < n
    BY DEF OpToRel
<1> HIDE DEF Less
<1>3. PICK n \in S : \A m \in S : <<m, n>> \notin Less
    BY <1>1, WFMin, Zenon
<1>4. \A m \in S : n <= m
    <2> TAKE m \in S
    <2>1. ~(m < n)
        BY <1>2, <1>3
    <2> QED BY <2>1
<1> QED BY <1>4

\* A nonempty set of numbers with an upper bound has a greatest element.
LEMMA GreatestExists ==
    ASSUME NEW b \in Nat, NEW S \in SUBSET (0..b), S # {}
    PROVE  \E n \in S : \A m \in S : m <= n
<1> DEFINE T == {b - n : n \in S}
<1>1. T \in SUBSET Nat /\ T # {}
    <2>1. \A n \in S : b - n \in Nat
        OBVIOUS
    <2> QED BY <2>1
<1>2. PICK t \in T : \A u \in T : t <= u
    <2> HIDE DEF T
    <2> QED BY <1>1, LeastExists
<1>3. PICK n \in S : t = b - n
    OBVIOUS
<1>4. \A m \in S : b - n <= b - m
    BY <1>2, <1>3
<1>5. \A m \in S : m <= n
    <2> TAKE m \in S
    <2> b - n <= b - m
        BY <1>4
    <2> QED OBVIOUS
<1> QED BY <1>5

\* A nonempty set has an element of least rank, whatever natural number the
\* rank of an element is.
LEMMA LeastRank ==
    ASSUME NEW S, S # {}, NEW r \in [S -> Nat]
    PROVE  \E v \in S : \A w \in S : r[v] <= r[w]
<1> DEFINE T == {r[v] : v \in S}
<1>1. T \in SUBSET Nat /\ T # {}
    OBVIOUS
<1>2. PICK t \in T : \A u \in T : t <= u
    <2> HIDE DEF T
    <2> QED BY <1>1, LeastExists
<1> QED BY <1>2

-----------------------------------------------------------------------------
(* The shape of a well-formed chain.                                       *)

\* A well-formed chain: typed, tiling memory, the video memory locked.
Chained(c, link) ==
    /\ Heads(c) \subseteq Segments
    /\ c \in [Heads(c) -> Fields]
    /\ Tiles(c, link)
    /\ c[UmbStart].psp = MCB_DOS

\* What the lemmas need to know of one header.
LEMMA HeadFacts ==
    ASSUME NEW c, NEW link, Chained(c, link), NEW h \in Heads(c)
    PROVE  /\ FirstMCB \in Nat /\ UmbStart \in Nat /\ Top \in Nat
           /\ h \in Nat /\ FirstMCB <= h /\ h < Top
           /\ c[h] \in Fields
           /\ c[h].type \in {"M", "Z"} /\ c[h].psp \in Nat /\ c[h].size \in Nat
           /\ EndOf(c, h) = h + c[h].size + 1
           /\ EndOf(c, h) \in Nat /\ h < EndOf(c, h)
           /\ EndOf(c, h) = Top \/ EndOf(c, h) \in Heads(c)
           /\ EndOf(c, h) <= Top
<1>1. h \in Segments /\ c[h] \in Fields
    BY DEF Chained, Heads
<1>2. EndOf(c, h) = Top \/ EndOf(c, h) \in Heads(c)
    BY DEF Chained, Tiles
<1> QED BY <1>1, <1>2, MemoryAssumption DEF Segments, Fields, EndOf, Chained

\* Two blocks do not overlap.
LEMMA Apart ==
    ASSUME NEW c, NEW link, Chained(c, link),
           NEW g \in Heads(c), NEW h \in Heads(c), g < h
    PROVE  EndOf(c, g) <= h
BY DEF Chained, Tiles

\* Every block but the first begins where another ends.
LEMMA Predecessor ==
    ASSUME NEW c, NEW link, Chained(c, link), NEW h \in Heads(c), h # FirstMCB
    PROVE  \E g \in Heads(c) : g < h /\ EndOf(c, g) = h
<1> DEFINE S == {g \in Heads(c) : g < h}
<1>1. h \in Nat /\ h > FirstMCB /\ h < Top
    BY HeadFacts
<1>2. S \in SUBSET (0..Top) /\ S # {}
    <2>1. FirstMCB \in S
        BY <1>1 DEF Chained, Tiles
    <2>2. \A g \in S : g \in 0..Top
        BY HeadFacts
    <2> QED BY <2>1, <2>2
<1>3. PICK g \in S : \A x \in S : x <= g
    <2> HIDE DEF S
    <2> QED BY <1>2, GreatestExists, MemoryAssumption
<1>4. g \in Nat /\ EndOf(c, g) \in Nat /\ g < EndOf(c, g) /\ EndOf(c, g) <= h
    BY HeadFacts, Apart
<1>5. EndOf(c, g) \in Heads(c)
    BY HeadFacts, <1>4, <1>1
<1>6. EndOf(c, g) = h
    <2>1. CASE EndOf(c, g) < h
        <3>1. EndOf(c, g) <= g
            BY <1>3, <1>5, <2>1
        <3> QED BY <3>1, <1>4
    <2> QED BY <2>1, <1>1, <1>4
<1> QED BY <1>6

\* No two blocks end at the same place.
LEMMA SamePredecessor ==
    ASSUME NEW c, NEW link, Chained(c, link),
           NEW g \in Heads(c), NEW h \in Heads(c), EndOf(c, g) = EndOf(c, h)
    PROVE  g = h
BY HeadFacts, Apart

\* The headers of the two chains: linked, all of them are met; not linked,
\* those of the area the search starts in.
LEMMA ChainIs ==
    ASSUME NEW c, NEW link \in BOOLEAN, Chained(c, link), NEW s \in Heads(c),
           NEW h \in Heads(c)
    PROVE  h \in Chain(c, s) <=> /\ s <= h
                                 /\ link \/ h < UmbStart \/ s >= UmbStart
<1>1. UmbStart \in Heads(c) /\ UmbStart \in Nat /\ Top \in Nat /\ UmbStart < Top
    BY MemoryAssumption DEF Chained, Tiles
<1>2. s \in Nat /\ h \in Nat
    BY HeadFacts
<1>3. \A g \in Heads(c) : c[g].type = "Z" <=>
            EndOf(c, g) = Top \/ (EndOf(c, g) = UmbStart /\ ~link)
    BY DEF Chained, Tiles
<1>4. \A g \in Heads(c) : c[g].type = "M" <=> ~(c[g].type = "Z")
    BY HeadFacts
<1>5. ASSUME s <= h, ~link, h >= UmbStart, s < UmbStart
      PROVE  h \notin Chain(c, s)
    <2>1. UmbStart # FirstMCB
        BY MemoryAssumption
    <2>2. PICK g \in Heads(c) : g < UmbStart /\ EndOf(c, g) = UmbStart
        BY <1>1, <2>1, Predecessor
    <2>3. g \in Nat /\ s <= g
        <3>1. g \in Nat
            BY HeadFacts
        <3>2. CASE g < s
            <4>1. EndOf(c, g) <= s
                BY <3>2, Apart
            <4> QED BY <4>1, <2>2, <1>1, <1>2, <1>5
        <3> QED BY <3>1, <3>2, <1>2
    <2>4. c[g].type # "M"
        BY <2>2, <1>3, <1>4, <1>5
    <2> QED BY <2>2, <2>3, <2>4, <1>1, <1>2, <1>5 DEF Chain
<1>6. ASSUME s <= h, link \/ h < UmbStart \/ s >= UmbStart
      PROVE  h \in Chain(c, s)
    <2> SUFFICES ASSUME NEW g \in Heads(c), s <= g, g < h
                 PROVE  c[g].type = "M"
        BY <1>6 DEF Chain
    <2>1. g \in Nat /\ EndOf(c, g) \in Nat /\ EndOf(c, g) <= h /\ h < Top /\ g < EndOf(c, g)
        BY HeadFacts, Apart
    <2> QED BY <2>1, <1>1, <1>2, <1>3, <1>4, <1>6
<1> QED BY <1>1, <1>2, <1>5, <1>6 DEF Chain

-----------------------------------------------------------------------------
(* DOS_CompressMemory.                                                     *)

\* The two ends of memory and the block over the video memory.
LEMMA Ends ==
    ASSUME NEW c, NEW link, Chained(c, link)
    PROVE  /\ FirstMCB \in Heads(c) /\ UmbStart \in Heads(c)
           /\ FirstMCB \in Nat /\ UmbStart \in Nat /\ Top \in Nat
           /\ FirstMCB < UmbStart /\ UmbStart < Top
           /\ ~IsFree(c, UmbStart)
BY MemoryAssumption DEF Chained, Tiles, IsFree, MCB_FREE, MCB_DOS

\* A run of free blocks has an end: its last block is free, as all the blocks
\* before it are, and what follows it is not.
LEMMA RunEndExists ==
    ASSUME NEW c, NEW link \in BOOLEAN, Chained(c, link), NEW h \in Heads(c), IsFree(c, h)
    PROVE  /\ RunEnd(c, h) \in Chain(c, h)
           /\ \A g \in Chain(c, h) : g <= RunEnd(c, h) => IsFree(c, g)
           /\ \A g \in Chain(c, h) : g = EndOf(c, RunEnd(c, h)) => ~IsFree(c, g)
<1> DEFINE S == {e \in Chain(c, h) : \A g \in Chain(c, h) : g <= e => IsFree(c, g)}
<1>1. \A g \in Chain(c, h) : g \in Heads(c) /\ g \in 0..Top /\ h <= g /\ EndOf(c, g) > g
    BY HeadFacts DEF Chain
<1>2. h \in Nat /\ h \in Chain(c, h)
    <2>1. h \in Nat /\ \A g \in Heads(c) : g \in Nat
        BY HeadFacts
    <2> QED BY <2>1 DEF Chain
<1>3. S \in SUBSET (0..Top) /\ h \in S
    <2>1. \A g \in Chain(c, h) : g <= h => g = h
        BY <1>1, <1>2
    <2> QED BY <1>1, <1>2, <2>1
<1>4. PICK e \in S : \A g \in S : g <= e
    <2> HIDE DEF S
    <2> QED BY <1>3, GreatestExists, MemoryAssumption
<1>5. ASSUME NEW g \in Chain(c, h), g = EndOf(c, e), IsFree(c, g)
      PROVE  FALSE
    <2>1. ASSUME NEW x \in Chain(c, h), x <= g
          PROVE  IsFree(c, x)
        <3>1. CASE x < g
            <4>1. x <= e
                <5>1. CASE e < x
                    <6>1. EndOf(c, e) <= x
                        BY <5>1, <1>1, Apart
                    <6> QED BY <6>1, <3>1, <1>1, <1>5
                <5> QED BY <5>1, <1>1
            <4> QED BY <4>1
        <3> QED BY <3>1, <2>1, <1>1, <1>5
    <2>2. g \in S
        BY <2>1
    <2>3. g <= e /\ g > e /\ g \in Nat /\ e \in Nat
        BY <2>2, <1>1, <1>4, <1>5
    <2> QED BY <2>3
<1>6. \E x \in Chain(c, h) :
            /\ \A g \in Chain(c, h) : g <= x => IsFree(c, g)
            /\ \A g \in Chain(c, h) : g = EndOf(c, x) => ~IsFree(c, g)
    BY <1>5
<1> QED BY <1>6 DEF RunEnd

\* The last of the blocks that compression puts together at h.
LastOf(c, h) ==
    IF h \in Chain(c, FirstMCB) /\ IsFree(c, h) THEN RunEnd(c, h) ELSE h

\* A run of free blocks, or a block that compression leaves alone, ends where
\* a block starts that stays; the blocks inside it are those that go.
LEMMA LastFacts ==
    ASSUME NEW c, NEW link \in BOOLEAN, Chained(c, link), NEW h \in Heads(c) \ Joined(c)
    PROVE  /\ LastOf(c, h) \in Heads(c) /\ h <= LastOf(c, h)
           /\ \A g \in Heads(c) : h < g /\ g <= LastOf(c, h) => g \in Joined(c)
           /\ EndOf(c, LastOf(c, h)) \in Heads(c) =>
                 /\ EndOf(c, LastOf(c, h)) \notin Joined(c)
                 /\ h \in Chain(c, FirstMCB) /\ IsFree(c, h) =>
                       ~IsFree(c, EndOf(c, LastOf(c, h)))
<1> DEFINE e == LastOf(c, h)
           next == EndOf(c, e)
<1>1. h \in Heads(c) /\ h \in Nat
    BY HeadFacts
<1>2. CASE h \in Chain(c, FirstMCB) /\ IsFree(c, h)
    <2>1. e = RunEnd(c, h)
        BY <1>2 DEF LastOf
    <2>2. /\ e \in Chain(c, h)
          /\ \A g \in Chain(c, h) : g <= e => IsFree(c, g)
          /\ \A g \in Chain(c, h) : g = next => ~IsFree(c, g)
        BY <2>1, <1>1, <1>2, RunEndExists
    <2> HIDE DEF e
    <2>3. e \in Heads(c) /\ e \in Nat /\ h <= e /\ (link \/ e < UmbStart \/ h >= UmbStart)
        <3>1. e \in Heads(c)
            BY <2>2 DEF Chain
        <3> QED BY <3>1, <2>2, <1>1, ChainIs, HeadFacts
    <2>4. link \/ h < UmbStart
        BY <1>1, <1>2, ChainIs, Ends
    <2>5. ASSUME NEW g \in Heads(c), h < g, g <= e
          PROVE  g \in Joined(c)
        <3>1. g \in Nat /\ FirstMCB <= g /\ FirstMCB <= h /\ g # FirstMCB
            BY <2>5, <1>1, HeadFacts
        <3>2. PICK p \in Heads(c) : p < g /\ EndOf(c, p) = g
            BY <3>1, Predecessor
        <3>3. p \in Nat /\ h <= p /\ FirstMCB <= p
            <4>1. p \in Nat /\ FirstMCB <= p
                BY HeadFacts
            <4>2. CASE p < h
                <5>1. EndOf(c, p) <= h
                    BY <1>1, <4>2, Apart
                <5> QED BY <5>1, <3>2, <2>5, <1>1, <3>1
            <4> QED BY <4>1, <4>2, <1>1
        <3>4. g \in Chain(c, h) /\ p \in Chain(c, h)
            BY <3>1, <3>2, <3>3, <2>3, <2>5, <1>1, ChainIs, Ends
        <3>5. IsFree(c, g) /\ IsFree(c, p)
            BY <3>4, <2>2, <2>5, <3>1, <3>2, <3>3, <2>3
        <3>6. g \in Chain(c, FirstMCB) /\ p \in Chain(c, FirstMCB)
            BY <3>1, <3>2, <3>3, <2>3, <2>4, <2>5, <1>1, ChainIs, Ends
        <3> QED BY <3>2, <3>5, <3>6 DEF Joined
    <2>6. ASSUME next \in Heads(c)
          PROVE  ~IsFree(c, next)
        <3>1. next \in Nat /\ e < next
            BY <2>3, HeadFacts
        <3>2. CASE next \in Chain(c, h)
            BY <3>2, <2>2
        <3>3. CASE next \notin Chain(c, h)
            <4>1. ~link /\ next >= UmbStart /\ h < UmbStart
                BY <3>1, <3>3, <2>3, <2>6, <1>1, ChainIs, Ends
            <4>2. next <= UmbStart
                BY <4>1, <2>3, Apart, Ends
            <4>3. next = UmbStart
                BY <4>1, <4>2, <3>1, Ends
            <4> QED BY <4>3, Ends
        <3> QED BY <3>2, <3>3
    <2>7. next \in Heads(c) => next \notin Joined(c)
        BY <2>6 DEF Joined
    <2> QED BY <2>3, <2>5, <2>6, <2>7 DEF e
<1>3. CASE ~(h \in Chain(c, FirstMCB) /\ IsFree(c, h))
    <2>1. e = h
        BY <1>3 DEF LastOf
    <2>2. next = EndOf(c, h)
        BY <2>1
    <2>3. ASSUME next \in Heads(c), next \in Joined(c)
          PROVE  FALSE
        <3>1. PICK g \in Chain(c, FirstMCB) : IsFree(c, g) /\ EndOf(c, g) = next
            BY <2>3 DEF Joined
        <3>2. g \in Heads(c)
            BY DEF Chain
        <3>3. g = h
            BY <3>1, <3>2, <2>2, <1>1, SamePredecessor
        <3> QED BY <3>1, <3>3, <1>3
    <2>4. \A g \in Heads(c) : g \in Nat
        BY HeadFacts
    <2> QED BY <1>1, <1>3, <2>1, <2>2, <2>3, <2>4
<1> QED BY <1>2, <1>3

\* The headers that compression leaves: the blocks that are joined go, and a
\* block reaches to the end of the last one joined to it.
LEMMA CompressIs ==
    ASSUME NEW c, NEW link \in BOOLEAN, Chained(c, link)
    PROVE  /\ Heads(Compress(c)) = Heads(c) \ Joined(c)
           /\ \A h \in Heads(c) \ Joined(c) :
                 Compress(c)[h] = [type |-> c[LastOf(c, h)].type, psp |-> c[h].psp,
                                   size |-> EndOf(c, LastOf(c, h)) - h - 1]
<1>1. Heads(Compress(c)) = Heads(c) \ Joined(c)
    BY DEF Compress, Heads
<1>2. ASSUME NEW h \in Heads(c) \ Joined(c)
      PROVE  Compress(c)[h] = [type |-> c[LastOf(c, h)].type, psp |-> c[h].psp,
                               size |-> EndOf(c, LastOf(c, h)) - h - 1]
    <2>1. h \in Nat /\ c[h] \in Fields /\ c[h].size \in Nat /\ EndOf(c, h) = h + c[h].size + 1
        BY HeadFacts
    <2>2. c[h] = [type |-> c[h].type, psp |-> c[h].psp, size |-> c[h].size]
        BY <2>1 DEF Fields
    <2>3. Compress(c)[h] =
            IF h \in Chain(c, FirstMCB) /\ IsFree(c, h)
              THEN [c[h] EXCEPT !.size = EndOf(c, RunEnd(c, h)) - h - 1,
                                !.type = c[RunEnd(c, h)].type]
              ELSE c[h]
        BY <1>2 DEF Compress
    <2>4. CASE h \in Chain(c, FirstMCB) /\ IsFree(c, h)
        BY <2>2, <2>3, <2>4 DEF LastOf
    <2>5. CASE ~(h \in Chain(c, FirstMCB) /\ IsFree(c, h))
        <3>1. EndOf(c, h) - h - 1 = c[h].size
            BY <2>1
        <3> QED BY <2>2, <2>3, <2>5, <3>1 DEF LastOf
    <2> QED BY <2>4, <2>5
<1> QED BY <1>1, <1>2

\* What compression keeps: the chain stays well-formed, headers keep their
\* owner, blocks that are not free are left alone, and compressing again
\* would find nothing to join.
LEMMA CompressFacts ==
    ASSUME NEW c, NEW link \in BOOLEAN, Chained(c, link)
    PROVE  /\ Chained(Compress(c), link)
           /\ Heads(Compress(c)) \subseteq Heads(c)
           /\ \A h \in Heads(Compress(c)) : Compress(c)[h].psp = c[h].psp
           /\ \A h \in Heads(c) : ~IsFree(c, h) =>
                 h \in Heads(Compress(c)) /\ Compress(c)[h] = c[h]
           /\ Joined(Compress(c)) = {}
<1> DEFINE d == Compress(c)
           e(h) == LastOf(c, h)
<1>1. Heads(d) = Heads(c) \ Joined(c)
    BY CompressIs
<1>2. ASSUME NEW h \in Heads(d)
      PROVE  /\ d[h] \in Fields /\ d[h].psp = c[h].psp /\ d[h].type = c[e(h)].type
             /\ EndOf(d, h) = EndOf(c, e(h))
             /\ h \in Segments /\ h \in Nat /\ h \in Heads(c)
             /\ e(h) \in Heads(c) /\ e(h) \in Nat /\ h <= e(h)
             /\ e(h) < EndOf(c, e(h)) /\ EndOf(c, e(h)) \in Nat
    <2>1. h \in Heads(c) \ Joined(c)
        BY <1>1
    <2>2. e(h) \in Heads(c) /\ h <= e(h)
        BY <2>1, LastFacts
    <2>3. d[h] = [type |-> c[e(h)].type, psp |-> c[h].psp, size |-> EndOf(c, e(h)) - h - 1]
        BY <2>1, CompressIs
    <2>4. /\ h \in Nat /\ c[h].psp \in Nat /\ c[e(h)].type \in {"M", "Z"}
          /\ e(h) \in Nat /\ EndOf(c, e(h)) \in Nat /\ e(h) < EndOf(c, e(h))
        BY <2>1, <2>2, HeadFacts
    <2>5. h \in Segments
        BY <2>1 DEF Chained
    <2> HIDE DEF d, e
    <2>6. EndOf(c, e(h)) - h - 1 \in Nat
        BY <2>2, <2>4
    <2>7. d[h] \in Fields /\ d[h].psp = c[h].psp /\ d[h].type = c[e(h)].type
          /\ d[h].size = EndOf(c, e(h)) - h - 1
        BY <2>3, <2>4, <2>6 DEF Fields
    <2>8. EndOf(d, h) = EndOf(c, e(h))
        BY <2>4, <2>7 DEF EndOf
    <2> QED BY <2>1, <2>2, <2>4, <2>5, <2>7, <2>8
<1>3. \A h \in Heads(c) : ~IsFree(c, h) => h \in Heads(d) /\ d[h] = c[h]
    <2> SUFFICES ASSUME NEW h \in Heads(c), ~IsFree(c, h)
                 PROVE  h \in Heads(d) /\ d[h] = c[h]
        OBVIOUS
    <2>1. h \in Heads(d)
        BY <1>1 DEF Joined
    <2>2. c[h] \in Fields
        BY HeadFacts
    <2> QED BY <2>1, <2>2, <1>1 DEF Compress
<1>4. FirstMCB \in Heads(d) /\ UmbStart \in Heads(d)
    <2>1. FirstMCB \notin Joined(c)
        <3>1. \A g \in Chain(c, FirstMCB) : EndOf(c, g) # FirstMCB
            BY HeadFacts DEF Chain
        <3> QED BY <3>1 DEF Joined
    <2> QED BY <2>1, <1>1, <1>3, Ends
<1>5. Tiles(d, link)
    <2>1. ASSUME NEW h \in Heads(d)
          PROVE  /\ EndOf(d, h) = Top \/ EndOf(d, h) \in Heads(d)
                 /\ \A g \in Heads(d) : h < g => EndOf(d, h) <= g
                 /\ d[h].type = "Z" <=> EndOf(d, h) = Top \/ (EndOf(d, h) = UmbStart /\ ~link)
        <3>1. h \in Heads(c) \ Joined(c)
            BY <1>1
        <3>2. e(h) \in Heads(c)
            BY <1>2
        <3>3. EndOf(c, e(h)) = Top \/ EndOf(c, e(h)) \in Heads(c)
            BY <3>2, HeadFacts
        <3>4. EndOf(d, h) = Top \/ EndOf(d, h) \in Heads(d)
            BY <1>1, <1>2, <3>1, <3>3, LastFacts
        <3>5. ASSUME NEW g \in Heads(d), h < g
              PROVE  EndOf(d, h) <= g
            <4>1. g \in Heads(c) /\ g \notin Joined(c)
                BY <1>1
            <4>2. e(h) < g
                <5>1. CASE g <= e(h)
                    BY <5>1, <3>1, <3>5, <4>1, LastFacts
                <5> QED BY <5>1, <1>2
            <4>3. EndOf(c, e(h)) <= g
                BY <3>2, <4>1, <4>2, Apart
            <4> QED BY <4>3, <1>2
        <3>6. c[e(h)].type = "Z" <=>
                 EndOf(c, e(h)) = Top \/ (EndOf(c, e(h)) = UmbStart /\ ~link)
            BY <3>2 DEF Chained, Tiles
        <3>7. d[h].type = c[e(h)].type /\ EndOf(d, h) = EndOf(c, e(h))
            BY <1>2
        <3> HIDE DEF d, e
        <3> QED BY <3>4, <3>5, <3>6, <3>7
    <2> HIDE DEF d
    <2> QED BY <2>1, <1>4 DEF Tiles
<1>6. Chained(d, link)
    <2>1. d \in [Heads(d) -> Fields]
        <3>1. d = [h \in Heads(d) |-> d[h]]
            BY <1>1 DEF Compress, Heads
        <3> HIDE DEF d
        <3> QED BY <3>1, <1>2
    <2>2. d[UmbStart].psp = MCB_DOS
        BY <1>2, <1>4 DEF Chained
    <2> HIDE DEF d
    <2> QED BY <2>1, <2>2, <1>2, <1>5 DEF Chained
<1>7. Joined(d) = {}
    <2> SUFFICES ASSUME NEW h \in Chain(d, FirstMCB), NEW g \in Chain(d, FirstMCB),
                        IsFree(d, h), IsFree(d, g), EndOf(d, g) = h
                 PROVE  FALSE
        BY DEF Joined
    <2>1. g \in Heads(d) /\ h \in Heads(d)
        BY DEF Chain
    <2>2. g \in Heads(c) \ Joined(c) /\ h \in Heads(c)
        BY <1>1, <2>1
    <2>3. IsFree(c, g) /\ IsFree(c, h)
        BY <1>2, <2>1 DEF IsFree
    <2>4. g \in Chain(c, FirstMCB)
        BY <1>4, <1>6, <2>1, <2>2, ChainIs, Ends
    <2>5. ~IsFree(c, EndOf(c, e(g)))
        BY <2>2, <2>3, <2>4, <1>2, <2>1, LastFacts
    <2> QED BY <2>1, <2>3, <2>5, <1>2
<1> QED BY <1>1, <1>2, <1>3, <1>6, <1>7

\* DOS_CompressMemory leaves a chain it has compressed as it is.
LEMMA CompressTwice ==
    ASSUME NEW c, NEW link \in BOOLEAN, Chained(c, link)
    PROVE  Compress(Compress(c)) = Compress(c)
<1> DEFINE d == Compress(c)
<1>1. Chained(d, link) /\ Joined(d) = {}
    BY CompressFacts
<1> HIDE DEF d
<1>2. Heads(Compress(d)) = Heads(d)
    BY <1>1, CompressIs
<1>3. ASSUME NEW h \in Heads(d)
      PROVE  Compress(d)[h] = d[h]
    <2>1. LastOf(d, h) \in Heads(d) /\ h <= LastOf(d, h)
          /\ \A g \in Heads(d) : ~(h < g /\ g <= LastOf(d, h))
        BY <1>1, LastFacts
    <2>2. LastOf(d, h) = h
        <3>1. h \in Nat /\ LastOf(d, h) \in Nat
            BY <1>1, <2>1, HeadFacts
        <3> QED BY <2>1, <3>1
    <2>3. Compress(d)[h] = [type |-> d[h].type, psp |-> d[h].psp,
                            size |-> EndOf(d, h) - h - 1]
        BY <1>1, <2>2, CompressIs
    <2>4. h \in Nat /\ d[h] \in Fields /\ d[h].size \in Nat /\ EndOf(d, h) = h + d[h].size + 1
        BY <1>1, HeadFacts
    <2>5. EndOf(d, h) - h - 1 = d[h].size
        BY <2>4
    <2> QED BY <2>3, <2>4, <2>5 DEF Fields
<1>4. d = [h \in Heads(d) |-> d[h]] /\ Compress(d) = [h \in Heads(Compress(d)) |-> Compress(d)[h]]
    BY <1>1 DEF Chained, Compress, Heads
<1> QED BY <1>2, <1>3, <1>4 DEF d

-----------------------------------------------------------------------------
(* The steps the functions are made of.                                    *)

\* The fields of a header, as names of their own: the provers take them as they
\* are, without looking into functions and records.
PspAt(c, h) == c[h].psp
SizeAt(c, h) == c[h].size

\* Apart from the blocks at S, the same blocks are allocated in c and in d: to
\* the same owner, and none is shorter or longer.
Same(c, d, S) ==
    /\ \A h \in Heads(c) \ S : ~IsFree(c, h) =>
          h \in Heads(d) /\ PspAt(d, h) = PspAt(c, h) /\ SizeAt(d, h) = SizeAt(c, h)
    /\ \A h \in Heads(d) \ S : ~IsFree(d, h) =>
          h \in Heads(c) /\ PspAt(d, h) = PspAt(c, h)

\* What HeadFacts says of the size and the owner.
LEMMA FieldFacts ==
    ASSUME NEW c, NEW link, Chained(c, link), NEW h \in Heads(c)
    PROVE  /\ h \in Nat /\ h < Top /\ Top \in Nat
           /\ PspAt(c, h) \in Nat /\ SizeAt(c, h) \in Nat
           /\ EndOf(c, h) = h + SizeAt(c, h) + 1
BY HeadFacts DEF PspAt, SizeAt

\* A header is free by its owner.
LEMMA FreeIs ==
    ASSUME NEW c, NEW h
    PROVE  IsFree(c, h) <=> PspAt(c, h) = MCB_FREE
BY DEF IsFree, PspAt

\* Two changes one after the other.
LEMMA SameTransitive ==
    ASSUME NEW c, NEW d, NEW e, NEW S, NEW T, NEW U,
           Same(c, d, S), Same(d, e, T), S \subseteq U, T \subseteq U
    PROVE  Same(c, e, U)
<1>1. ASSUME NEW h \in Heads(c) \ U, ~IsFree(c, h)
      PROVE  h \in Heads(e) /\ PspAt(e, h) = PspAt(c, h) /\ SizeAt(e, h) = SizeAt(c, h)
    <2>1. h \in Heads(d) /\ PspAt(d, h) = PspAt(c, h) /\ SizeAt(d, h) = SizeAt(c, h)
        BY <1>1 DEF Same
    <2> QED BY <1>1, <2>1, FreeIs DEF Same
<1>2. ASSUME NEW h \in Heads(e) \ U, ~IsFree(e, h)
      PROVE  h \in Heads(c) /\ PspAt(e, h) = PspAt(c, h)
    <2>1. h \in Heads(d) /\ PspAt(e, h) = PspAt(d, h)
        BY <1>2 DEF Same
    <2> QED BY <1>2, <2>1, FreeIs DEF Same
<1> QED BY <1>1, <1>2 DEF Same

\* Compression leaves a well-formed chain, and touches no allocated block.
LEMMA CompressChained ==
    ASSUME NEW c, NEW link \in BOOLEAN, Chained(c, link)
    PROVE  Chained(Compress(c), link)
BY CompressFacts

\* See CompressFacts.
LEMMA CompressSame ==
    ASSUME NEW c, NEW link \in BOOLEAN, Chained(c, link)
    PROVE  /\ Same(c, Compress(c), {})
           /\ Heads(Compress(c)) \subseteq Heads(c)
           /\ \A h \in Heads(Compress(c)) : PspAt(Compress(c), h) = PspAt(c, h)
           /\ \A h \in Heads(c) : ~IsFree(c, h) =>
                 h \in Heads(Compress(c)) /\ PspAt(Compress(c), h) = PspAt(c, h)
BY CompressFacts DEF Same, PspAt, SizeAt

\* A header gets an owner.
LEMMA OwnStep ==
    ASSUME NEW c, NEW link \in BOOLEAN, Chained(c, link),
           NEW h \in Heads(c), h # UmbStart, NEW p \in Nat
    PROVE  /\ Heads(Own(c, h, p)) = Heads(c)
           /\ Chained(Own(c, h, p), link)
           /\ Own(c, h, p)[h].psp = p /\ Own(c, h, p)[h].size = c[h].size
           /\ \A x \in Heads(c) \ {h} : Own(c, h, p)[x] = c[x]
           /\ Same(c, Own(c, h, p), {h})
<1> DEFINE d == Own(c, h, p)
<1>1. Heads(d) = Heads(c)
    BY DEF Own, Heads
<1>2. /\ c \in [Heads(c) -> Fields]
      /\ d = [c EXCEPT ![h].psp = p]
    BY DEF Chained, Own
<1>3. d \in [Heads(c) -> Fields]
    BY <1>2 DEF Fields
<1>4. d[h].psp = p /\ d[h].size = c[h].size /\ d[h].type = c[h].type
    BY <1>2 DEF Fields
<1>5. \A x \in Heads(c) \ {h} : d[x] = c[x]
    BY <1>2
<1> HIDE DEF d
<1>6. \A x \in Heads(c) : EndOf(d, x) = EndOf(c, x) /\ d[x].type = c[x].type
    BY <1>4, <1>5 DEF EndOf
<1>7. Tiles(d, link)
    BY <1>1, <1>6 DEF Tiles, Chained
<1>8. Chained(d, link)
    BY <1>1, <1>3, <1>5, <1>7, Ends DEF Chained
<1>9. Same(c, d, {h})
    BY <1>1, <1>5 DEF Same, IsFree, PspAt, SizeAt
<1> QED BY <1>1, <1>4, <1>5, <1>8, <1>9 DEF d

\* The same, in the two parts the proofs cite.
LEMMA OwnChained ==
    ASSUME NEW c, NEW link \in BOOLEAN, Chained(c, link),
           NEW h \in Heads(c), h # UmbStart, NEW p \in Nat
    PROVE  Chained(Own(c, h, p), link)
BY OwnStep

\* See OwnStep.
LEMMA OwnFacts ==
    ASSUME NEW c, NEW link \in BOOLEAN, Chained(c, link),
           NEW h \in Heads(c), h # UmbStart, NEW p \in Nat
    PROVE  /\ Heads(Own(c, h, p)) = Heads(c)
           /\ PspAt(Own(c, h, p), h) = p /\ SizeAt(Own(c, h, p), h) = SizeAt(c, h)
           /\ \A x \in Heads(c) \ {h} : PspAt(Own(c, h, p), x) = PspAt(c, x)
           /\ Same(c, Own(c, h, p), {h})
BY OwnStep DEF PspAt, SizeAt

\* A block is cut in two inside.
LEMMA SplitStep ==
    ASSUME NEW c, NEW link \in BOOLEAN, Chained(c, link),
           NEW h \in Heads(c), NEW p \in Nat, h < p, p < EndOf(c, h)
    PROVE  /\ Heads(SplitAt(c, h, p)) = Heads(c) \cup {p} /\ p \notin Heads(c)
           /\ Chained(SplitAt(c, h, p), link)
           /\ SplitAt(c, h, p)[h].psp = c[h].psp /\ SplitAt(c, h, p)[h].size = p - h - 1
           /\ IsFree(SplitAt(c, h, p), p)
           /\ SplitAt(c, h, p)[p].size = EndOf(c, h) - p - 1
           /\ Same(c, SplitAt(c, h, p), {h})
<1> DEFINE d == SplitAt(c, h, p)
           end == EndOf(c, h)
<1>1. Heads(d) = Heads(c) \cup {p}
    BY DEF SplitAt, Heads
<1>2. h \in Nat /\ c[h] \in Fields /\ end \in Nat /\ end <= Top /\ FirstMCB <= h
      /\ (end = Top \/ end \in Heads(c)) /\ FirstMCB \in Nat /\ Top \in Nat /\ h < end
      /\ p < end
    BY HeadFacts
<1>3. \A x \in Heads(c) : x \in Nat /\ (x < h => EndOf(c, x) <= h) /\ (h < x => end <= x)
                          /\ (x < EndOf(c, x))
    BY HeadFacts, Apart
<1>4. p \notin Heads(c) /\ p # h
    BY <1>2, <1>3
<1>5. d[h] = [c[h] EXCEPT !.type = "M", !.size = p - h - 1]
    BY DEF SplitAt
<1>6. d[p] = [type |-> c[h].type, psp |-> MCB_FREE, size |-> end - p - 1]
    BY <1>4 DEF SplitAt
<1>7. \A x \in Heads(c) \ {h} : d[x] = c[x]
    BY <1>4 DEF SplitAt
<1>8. d = [x \in Heads(d) |-> d[x]]
    BY <1>1 DEF SplitAt
<1> HIDE DEF d
<1>9. p - h - 1 \in Nat /\ end - p - 1 \in Nat
    <2> HIDE DEF end
    <2> QED BY <1>2
<1>10. d[h] \in Fields /\ d[h].type = "M" /\ d[h].psp = c[h].psp /\ d[h].size = p - h - 1
    BY <1>2, <1>5, <1>9 DEF Fields
<1>11. d[p] \in Fields /\ d[p].type = c[h].type /\ d[p].psp = MCB_FREE
       /\ d[p].size = end - p - 1
    BY <1>2, <1>6, <1>9 DEF Fields, MCB_FREE
<1>12. \A x \in Heads(c) : c[x] \in Fields
    BY HeadFacts
<1>13. d \in [Heads(d) -> Fields]
    BY <1>1, <1>7, <1>8, <1>10, <1>11, <1>12
<1>14. EndOf(d, h) = p
    BY <1>2, <1>10 DEF EndOf
<1>15. EndOf(d, p) = end
    <2> HIDE DEF end
    <2> QED BY <1>2, <1>11 DEF EndOf
<1>16. \A x \in Heads(c) \ {h} : EndOf(d, x) = EndOf(c, x) /\ d[x].type = c[x].type
    BY <1>7 DEF EndOf
<1>17. Tiles(d, link)
    <2>1. \A x \in Heads(c) :
             /\ EndOf(c, x) = Top \/ EndOf(c, x) \in Heads(c)
             /\ c[x].type = "Z" <=> EndOf(c, x) = Top \/ (EndOf(c, x) = UmbStart /\ ~link)
        BY DEF Chained, Tiles
    <2>2. \A x \in Heads(d) : EndOf(d, x) = Top \/ EndOf(d, x) \in Heads(d)
        BY <1>1, <1>2, <1>14, <1>15, <1>16, <2>1
    <2>3. p # Top /\ p # UmbStart /\ FirstMCB \in Heads(d) /\ UmbStart \in Heads(d)
        BY <1>1, <1>2, <1>4, Ends
    <2>4. \A x \in Heads(d) : d[x].type = "Z" <=>
                EndOf(d, x) = Top \/ (EndOf(d, x) = UmbStart /\ ~link)
        BY <1>1, <1>10, <1>11, <1>14, <1>15, <1>16, <2>1, <2>3
    <2>5. ASSUME NEW x \in Heads(d), NEW y \in Heads(d), x < y
          PROVE  EndOf(d, x) <= y
        <3> HIDE DEF end
        <3>1. CASE x = h
            <4>1. CASE y \in Heads(c)
                BY <3>1, <4>1, <1>2, <1>3, <1>14, <2>5
            <4>2. CASE y = p
                BY <3>1, <4>2, <1>2, <1>14
            <4> QED BY <4>1, <4>2, <1>1
        <3>2. CASE x = p
            <4>1. y \in Heads(c) /\ h < y
                BY <3>2, <1>1, <1>2, <1>3, <2>5
            <4> QED BY <4>1, <3>2, <1>3, <1>15
        <3>3. CASE x # h /\ x # p
            <4>1. x \in Heads(c) /\ EndOf(d, x) = EndOf(c, x)
                BY <3>3, <1>1, <1>16
            <4>2. CASE y \in Heads(c)
                BY <4>1, <4>2, <2>5, Apart
            <4>3. CASE y = p
                <5>1. x < h
                    <6>1. x \in Nat /\ (h < x => end <= x)
                        BY <4>1, <1>3
                    <6> QED BY <6>1, <4>3, <3>3, <1>2, <2>5
                <5>2. EndOf(c, x) <= h /\ EndOf(c, x) \in Nat
                    BY <4>1, <5>1, <1>3, HeadFacts
                <5> QED BY <4>1, <5>2, <4>3, <1>2
            <4> QED BY <4>2, <4>3, <1>1
        <3> QED BY <3>1, <3>2, <3>3
    <2> QED BY <2>2, <2>3, <2>4, <2>5 DEF Tiles
<1>18. Chained(d, link)
    <2>1. p \in Segments
        BY <1>2 DEF Segments
    <2>2. d[UmbStart].psp = MCB_DOS
        BY <1>4, <1>7, <1>10, Ends DEF Chained
    <2> QED BY <1>1, <1>13, <1>17, <2>1, <2>2 DEF Chained
<1>19. Same(c, d, {h})
    BY <1>1, <1>7, <1>11 DEF Same, IsFree, PspAt, SizeAt
<1> QED BY <1>1, <1>4, <1>10, <1>11, <1>18, <1>19 DEF IsFree, d

\* The same, in the two parts the proofs cite.
LEMMA SplitChained ==
    ASSUME NEW c, NEW link \in BOOLEAN, Chained(c, link),
           NEW h \in Heads(c), NEW p \in Nat, h < p, p < EndOf(c, h)
    PROVE  Chained(SplitAt(c, h, p), link)
BY SplitStep

\* See SplitStep.
LEMMA SplitFacts ==
    ASSUME NEW c, NEW link \in BOOLEAN, Chained(c, link),
           NEW h \in Heads(c), NEW p \in Nat, h < p, p < EndOf(c, h)
    PROVE  /\ Heads(SplitAt(c, h, p)) = Heads(c) \cup {p} /\ p \notin Heads(c)
           /\ PspAt(SplitAt(c, h, p), h) = PspAt(c, h) /\ SizeAt(SplitAt(c, h, p), h) = p - h - 1
           /\ IsFree(SplitAt(c, h, p), p)
           /\ SizeAt(SplitAt(c, h, p), p) = EndOf(c, h) - p - 1
           /\ Same(c, SplitAt(c, h, p), {h})
BY SplitStep DEF PspAt, SizeAt

\* A block takes in the free block behind it.
LEMMA JoinStep ==
    ASSUME NEW c, NEW link \in BOOLEAN, Chained(c, link),
           NEW h \in Heads(c), c[h].type = "M", IsFree(c, EndOf(c, h))
    PROVE  /\ EndOf(c, h) \in Heads(c)
           /\ Heads(JoinNext(c, h)) = Heads(c) \ {EndOf(c, h)}
           /\ Chained(JoinNext(c, h), link)
           /\ JoinNext(c, h)[h].psp = c[h].psp
           /\ JoinNext(c, h)[h].size = c[h].size + c[EndOf(c, h)].size + 1
           /\ Same(c, JoinNext(c, h), {h})
<1> DEFINE d == JoinNext(c, h)
           next == EndOf(c, h)
<1>1. next \in Heads(c) /\ next # Top
    BY HeadFacts DEF Chained, Tiles
<1>2. next # UmbStart
    BY Ends
<1>3. /\ h \in Nat /\ c[h] \in Fields /\ c[h].size \in Nat /\ next = h + c[h].size + 1
      /\ next \in Nat /\ h < next
    BY HeadFacts
<1>4. /\ c[next] \in Fields /\ c[next].size \in Nat /\ next < EndOf(c, next)
      /\ EndOf(c, next) = next + c[next].size + 1 /\ EndOf(c, next) \in Nat
    BY <1>1, HeadFacts
<1>5. \A x \in Heads(c) : x \in Nat /\ EndOf(c, x) \in Nat /\ c[x] \in Fields
    BY HeadFacts
<1>6. /\ next \notin Heads(d) /\ h \in Heads(d)
      /\ Heads(d) = Heads(c) \ {next}
    BY <1>1, <1>3 DEF JoinNext, Heads
<1>7. d[h] = [c[h] EXCEPT !.type = c[next].type, !.size = c[h].size + c[next].size + 1]
    BY <1>3, <1>6 DEF JoinNext
<1>8. \A x \in Heads(d) \ {h} : d[x] = c[x]
    BY <1>6 DEF JoinNext
<1>9. d = [x \in Heads(d) |-> d[x]]
    BY <1>6 DEF JoinNext
<1> HIDE DEF d, next
<1>10. d[h] \in Fields /\ d[h].psp = c[h].psp /\ d[h].type = c[next].type
       /\ d[h].size = c[h].size + c[next].size + 1
    <2>1. c[h].size + c[next].size + 1 \in Nat /\ c[next].type \in {"M", "Z"}
        BY <1>3, <1>4 DEF Fields
    <2> QED BY <1>3, <1>7, <2>1 DEF Fields
<1>11. d \in [Heads(d) -> Fields]
    BY <1>5, <1>6, <1>8, <1>9, <1>10
<1>12. EndOf(d, h) = EndOf(c, next)
    <2>1. EndOf(d, h) = h + d[h].size + 1
        BY DEF EndOf
    <2> QED BY <2>1, <1>3, <1>4, <1>10
<1>13. \A x \in Heads(d) \ {h} : EndOf(d, x) = EndOf(c, x) /\ d[x].type = c[x].type
    BY <1>8 DEF EndOf
<1>14. Tiles(d, link)
    <2>1. \A x \in Heads(c) :
             /\ EndOf(c, x) = Top \/ EndOf(c, x) \in Heads(c)
             /\ c[x].type = "Z" <=> EndOf(c, x) = Top \/ (EndOf(c, x) = UmbStart /\ ~link)
        BY DEF Chained, Tiles
    <2>2. ASSUME NEW x \in Heads(d) \ {h}
          PROVE  EndOf(c, x) # next
        BY <2>2, <1>6, SamePredecessor DEF next
    <2>3. EndOf(c, next) # next
        BY <1>4
    <2>4. \A x \in Heads(d) : EndOf(d, x) = Top \/ EndOf(d, x) \in Heads(d)
        BY <1>1, <1>6, <1>12, <1>13, <2>1, <2>2, <2>3
    <2>5. \A x \in Heads(d) : d[x].type = "Z" <=>
                EndOf(d, x) = Top \/ (EndOf(d, x) = UmbStart /\ ~link)
        BY <1>1, <1>6, <1>10, <1>12, <1>13, <2>1
    <2>6. ASSUME NEW x \in Heads(d), NEW y \in Heads(d), x < y
          PROVE  EndOf(d, x) <= y
        <3>1. CASE x # h
            BY <3>1, <2>6, <1>6, <1>13, Apart
        <3>2. CASE x = h
            <4>1. y \in Nat /\ next <= y
                BY <3>2, <2>6, <1>5, <1>6, Apart DEF next
            <4>2. next < y
                BY <4>1, <1>3, <1>6
            <4>3. EndOf(c, next) <= y
                BY <4>2, <1>1, <1>6, Apart
            <4> QED BY <4>3, <3>2, <1>12
        <3> QED BY <3>1, <3>2
    <2>7. FirstMCB \in Heads(d) /\ UmbStart \in Heads(d)
        <3>1. FirstMCB <= h
            BY HeadFacts
        <3>2. FirstMCB # next
            BY <3>1, <1>3, Ends
        <3> QED BY <3>2, <1>2, <1>6, Ends DEF next
    <2> QED BY <2>4, <2>5, <2>6, <2>7 DEF Tiles
<1>15. Chained(d, link)
    <2>1. UmbStart \in Heads(d) /\ d[UmbStart].psp = MCB_DOS
        BY <1>2, <1>6, <1>8, <1>10, Ends DEF Chained, next
    <2> QED BY <2>1, <1>6, <1>11, <1>14 DEF Chained
<1>16. Same(c, d, {h})
    BY <1>6, <1>8 DEF Same, IsFree, PspAt, SizeAt, next
<1> QED BY <1>1, <1>6, <1>10, <1>15, <1>16 DEF d, next

\* The same, in the two parts the proofs cite.
LEMMA JoinChained ==
    ASSUME NEW c, NEW link \in BOOLEAN, Chained(c, link),
           NEW h \in Heads(c), c[h].type = "M", IsFree(c, EndOf(c, h))
    PROVE  Chained(JoinNext(c, h), link)
BY JoinStep

\* See JoinStep.
LEMMA JoinFacts ==
    ASSUME NEW c, NEW link \in BOOLEAN, Chained(c, link),
           NEW h \in Heads(c), c[h].type = "M", IsFree(c, EndOf(c, h))
    PROVE  /\ EndOf(c, h) \in Heads(c)
           /\ Heads(JoinNext(c, h)) = Heads(c) \ {EndOf(c, h)}
           /\ PspAt(JoinNext(c, h), h) = PspAt(c, h)
           /\ SizeAt(JoinNext(c, h), h) = SizeAt(c, h) + SizeAt(c, EndOf(c, h)) + 1
           /\ Same(c, JoinNext(c, h), {h})
BY JoinStep DEF PspAt, SizeAt

\* Linking upper memory, or unlinking it, marks the ends of the chains.
LEMMA LinkFacts ==
    ASSUME NEW c, NEW link \in BOOLEAN, Chained(c, link), NEW on \in BOOLEAN
    PROVE  /\ Chained(LinkUMBs(c, on), on)
           /\ Heads(LinkUMBs(c, on)) = Heads(c)
           /\ Same(c, LinkUMBs(c, on), {})
           /\ \A h \in Heads(c) : LinkUMBs(c, on)[h].psp = c[h].psp
<1> DEFINE d == LinkUMBs(c, on)
<1>1. Heads(d) = Heads(c)
    BY DEF LinkUMBs, Heads
<1>2. ASSUME NEW h \in Heads(c)
      PROVE  /\ d[h] \in Fields /\ d[h].psp = c[h].psp /\ d[h].size = c[h].size
             /\ d[h].type = IF EndOf(c, h) = UmbStart THEN IF on THEN "M" ELSE "Z"
                            ELSE c[h].type
    <2>1. c[h] \in Fields
        BY HeadFacts
    <2>2. d[h] = IF EndOf(c, h) = UmbStart THEN [c[h] EXCEPT !.type = IF on THEN "M" ELSE "Z"]
                 ELSE c[h]
        BY <1>2 DEF LinkUMBs
    <2> HIDE DEF d
    <2> QED BY <2>1, <2>2 DEF Fields
<1>3. d = [h \in Heads(d) |-> d[h]]
    BY <1>1 DEF LinkUMBs
<1> HIDE DEF d
<1>4. \A h \in Heads(c) : EndOf(d, h) = EndOf(c, h)
    BY <1>2 DEF EndOf
<1>5. Tiles(d, on)
    <2>1. \A h \in Heads(c) :
             c[h].type = "Z" <=> EndOf(c, h) = Top \/ (EndOf(c, h) = UmbStart /\ ~link)
        BY DEF Chained, Tiles
    <2>2. \A h \in Heads(d) :
             d[h].type = "Z" <=> EndOf(d, h) = Top \/ (EndOf(d, h) = UmbStart /\ ~on)
        BY <1>1, <1>2, <1>4, <2>1, Ends
    <2> QED BY <1>1, <1>4, <2>2 DEF Chained, Tiles
<1>6. Chained(d, on)
    BY <1>1, <1>2, <1>3, <1>5, Ends DEF Chained
<1>7. Same(c, d, {})
    BY <1>1, <1>2 DEF Same, IsFree, PspAt, SizeAt
<1> QED BY <1>1, <1>2, <1>6, <1>7 DEF d

-----------------------------------------------------------------------------
(* The loop of DOS_CompressMemory.                                         *)

\* d is c with some of its neighbouring free blocks put together.
Partly(c, d, link) ==
    /\ Chained(d, link)
    /\ Heads(c) \ Joined(c) \subseteq Heads(d)
    /\ Heads(d) \subseteq Heads(c)
    /\ \A h \in Heads(d) : PspAt(d, h) = PspAt(c, h)

\* A free block that follows one of the chain from FirstMCB is in that chain.
LEMMA NextInChain ==
    ASSUME NEW d, NEW link \in BOOLEAN, Chained(d, link),
           NEW h \in Chain(d, FirstMCB), d[h].type # "Z"
    PROVE  /\ h \in Heads(d) /\ EndOf(d, h) \in Heads(d)
           /\ EndOf(d, h) \in Chain(d, FirstMCB)
           /\ link \/ EndOf(d, h) < UmbStart
<1>1. h \in Heads(d)
    BY DEF Chain
<1>2. EndOf(d, h) \in Heads(d) /\ ~(EndOf(d, h) = UmbStart /\ ~link)
    BY <1>1 DEF Chained, Tiles
<1>3. h \in Nat /\ EndOf(d, h) \in Nat /\ h < EndOf(d, h) /\ FirstMCB <= h
    BY <1>1, HeadFacts
<1>4. link \/ h < UmbStart
    BY <1>1, ChainIs, Ends
<1>5. link \/ EndOf(d, h) < UmbStart
    <2>1. CASE h < UmbStart
        <3>1. EndOf(d, h) <= UmbStart
            BY <1>1, <2>1, Ends, Apart
        <3> QED BY <3>1, <1>2, <1>3, Ends
    <2> QED BY <2>1, <1>4
<1>6. FirstMCB <= EndOf(d, h)
    BY <1>3, Ends
<1> QED BY <1>1, <1>2, <1>5, <1>6, ChainIs, Ends

\* What follows a free block of the first chain, and is free, is joined to it.
LEMMA JoinedIs ==
    ASSUME NEW c, NEW link \in BOOLEAN, Chained(c, link),
           NEW h \in Heads(c), NEW g \in Heads(c), EndOf(c, g) = h,
           link \/ h < UmbStart
    PROVE  h \in Joined(c) <=> IsFree(c, g) /\ IsFree(c, h)
<1>1. h \in Nat /\ g \in Nat /\ g < h /\ FirstMCB <= g /\ FirstMCB <= h
    BY HeadFacts
<1>2. h \in Chain(c, FirstMCB) /\ g \in Chain(c, FirstMCB)
    BY <1>1, ChainIs, Ends
<1>3. ASSUME NEW x \in Chain(c, FirstMCB), EndOf(c, x) = h PROVE x = g
    <2>1. x \in Heads(c)
        BY DEF Chain
    <2> QED BY <2>1, <1>3, SamePredecessor
<1> QED BY <1>2, <1>3 DEF Joined

\* A joined block has one before it, free as it is, in the same area.
LEMMA JoinedFacts ==
    ASSUME NEW c, NEW link \in BOOLEAN, Chained(c, link), NEW h \in Joined(c)
    PROVE  /\ h \in Heads(c) /\ IsFree(c, h) /\ (link \/ h < UmbStart)
           /\ \E g \in Heads(c) : IsFree(c, g) /\ EndOf(c, g) = h /\ g < h
<1>1. h \in Chain(c, FirstMCB) /\ IsFree(c, h)
    BY DEF Joined
<1>2. h \in Heads(c)
    BY <1>1 DEF Chain
<1>3. PICK g \in Chain(c, FirstMCB) : IsFree(c, g) /\ EndOf(c, g) = h
    BY DEF Joined
<1>4. g \in Heads(c)
    BY DEF Chain
<1>5. g < h
    BY <1>3, <1>4, HeadFacts
<1>6. link \/ h < UmbStart
    BY <1>1, <1>2, ChainIs, Ends
<1> QED BY <1>1, <1>2, <1>3, <1>4, <1>5, <1>6

\* Putting two free neighbours together goes on with the same.
LEMMA JoinPartly ==
    ASSUME NEW c, NEW d, NEW link \in BOOLEAN, Chained(c, link), Partly(c, d, link),
           NEW h \in Chain(d, FirstMCB), d[h].type # "Z",
           IsFree(d, h), IsFree(d, EndOf(d, h))
    PROVE  Partly(c, JoinNext(d, h), link)
<1> DEFINE n == EndOf(d, h)
           e == JoinNext(d, h)
<1>1. Chained(d, link)
    BY DEF Partly
<1>2. h \in Heads(d) /\ n \in Heads(d) /\ (link \/ n < UmbStart)
    BY <1>1, NextInChain
<1>3. d[h].type = "M"
    BY <1>1, <1>2, HeadFacts
<1>4. Chained(e, link)
    BY <1>1, <1>2, <1>3, JoinChained
<1>5. Heads(e) = Heads(d) \ {n} /\ PspAt(e, h) = PspAt(d, h)
    BY <1>1, <1>2, <1>3, JoinFacts
<1>6. \A x \in Heads(e) \ {h} : PspAt(e, x) = PspAt(d, x)
    BY <1>5 DEF JoinNext, PspAt, Heads
<1> HIDE DEF e, n
<1>7. h \in Heads(c) /\ n \in Heads(c) /\ IsFree(c, h) /\ IsFree(c, n)
    <2>1. PspAt(c, h) = PspAt(d, h) /\ PspAt(c, n) = PspAt(d, n) /\ IsFree(d, n)
        BY <1>2 DEF Partly, n
    <2> QED BY <1>2, <2>1, FreeIs DEF Partly
<1>8. h \in Nat /\ n \in Nat /\ h < n /\ FirstMCB <= h
    BY <1>1, <1>2, HeadFacts DEF n
<1>9. n \in Joined(c)
    <2>1. n # FirstMCB
        BY <1>8, Ends
    <2>2. PICK g \in Heads(c) : g < n /\ EndOf(c, g) = n
        BY <1>7, <2>1, Predecessor
    <2>3. g \in Nat
        BY HeadFacts
    <2>4. IsFree(c, g)
        <3>1. CASE g < h
            <4>1. EndOf(c, g) <= h
                BY <3>1, <1>7, Apart
            <4> QED BY <4>1, <2>2, <1>8
        <3>2. CASE h < g
            <4>1. g \notin Heads(d)
                <5>1. ASSUME g \in Heads(d) PROVE FALSE
                    <6>1. n <= g
                        BY <5>1, <3>2, <1>1, <1>2, Apart DEF n
                    <6> QED BY <6>1, <2>2, <2>3, <1>8
                <5> QED BY <5>1
            <4>2. g \in Joined(c)
                BY <4>1 DEF Partly
            <4> QED BY <4>2 DEF Joined
        <3>3. CASE g = h
            BY <3>3, <1>7
        <3> QED BY <3>1, <3>2, <3>3, <2>3, <1>8
    <2> QED BY <2>2, <2>4, <1>2, <1>7, JoinedIs
<1>10. \A x \in Heads(e) : PspAt(e, x) = PspAt(c, x)
    BY <1>5, <1>6 DEF Partly
<1> QED BY <1>4, <1>5, <1>9, <1>10 DEF Partly, e

\* Compressing is putting together all there is to put together: no other chain
\* than Compress(c) has nothing left to join.
LEMMA CompressOnly ==
    ASSUME NEW c, NEW d, NEW link \in BOOLEAN, Chained(c, link), Partly(c, d, link),
           Joined(d) = {}
    PROVE  d = Compress(c)
<1> DEFINE e == Compress(c)
<1>1. Chained(d, link) /\ Chained(e, link)
    BY CompressFacts DEF Partly
<1>2. Heads(e) = Heads(c) \ Joined(c) /\ \A h \in Heads(e) : PspAt(e, h) = PspAt(c, h)
    BY CompressIs, CompressFacts DEF PspAt
<1> HIDE DEF e
<1>3. ASSUME NEW h \in Heads(d), h \in Joined(c) PROVE FALSE
    <2>1. IsFree(c, h) /\ (link \/ h < UmbStart)
        BY <1>3, JoinedFacts
    <2>2. PICK g \in Heads(c) : IsFree(c, g) /\ EndOf(c, g) = h /\ g < h
        BY <1>3, JoinedFacts
    <2>3. g \in Nat /\ h \in Nat /\ FirstMCB <= g
        BY <1>1, HeadFacts
    <2>4. PICK p \in Heads(d) : p < h /\ EndOf(d, p) = h
        BY <1>1, <2>2, <2>3, Predecessor, Ends
    <2>5. p \in Heads(c) /\ p \in Nat /\ h \in Heads(c)
        BY <1>1, HeadFacts DEF Partly
    <2>6. IsFree(c, p)
        <3>1. CASE p < g
            <4> DEFINE q == EndOf(c, p)
            <4>1. q <= g /\ q \in Nat /\ p < q
                BY <3>1, <2>5, Apart, HeadFacts
            <4>2. q \in Heads(c)
                <5>1. g < Top /\ Top \in Nat
                    BY HeadFacts
                <5>2. q = Top \/ q \in Heads(c)
                    BY <2>5, HeadFacts
                <5> HIDE DEF q
                <5> QED BY <5>1, <5>2, <4>1, <2>3
            <4>3. q \notin Heads(d)
                <5>1. ASSUME q \in Heads(d) PROVE FALSE
                    <6>1. h <= q
                        BY <5>1, <4>1, <1>1, <2>4, Apart
                    <6> QED BY <6>1, <4>1, <2>2, <2>3
                <5> QED BY <5>1
            <4>4. q \in Joined(c)
                BY <4>2, <4>3 DEF Partly
            <4>5. link \/ q < UmbStart
                BY <4>4, JoinedFacts
            <4> QED BY <4>2, <4>4, <4>5, <2>5, JoinedIs
        <3>2. CASE g < p
            <4>1. h <= p
                BY <3>2, <2>2, <2>5, Apart
            <4> QED BY <4>1, <2>4, <2>3, <2>5
        <3> QED BY <3>1, <3>2, <2>2, <2>3, <2>5
    <2>7. IsFree(d, p) /\ IsFree(d, h)
        BY <2>1, <2>6, FreeIs DEF Partly
    <2>8. h \in Joined(d)
        BY <1>1, <2>1, <2>4, <2>7, JoinedIs
    <2> QED BY <2>8
<1>4. Heads(d) = Heads(e)
    BY <1>2, <1>3 DEF Partly
<1>5. ASSUME NEW h \in Heads(d) PROVE EndOf(d, h) = EndOf(e, h)
    <2>1. /\ EndOf(d, h) \in Nat /\ EndOf(d, h) <= Top /\ h < EndOf(d, h)
          /\ EndOf(d, h) = Top \/ EndOf(d, h) \in Heads(d)
        BY <1>1, HeadFacts
    <2>2. /\ EndOf(e, h) \in Nat /\ EndOf(e, h) <= Top /\ h < EndOf(e, h)
          /\ EndOf(e, h) = Top \/ EndOf(e, h) \in Heads(e)
        BY <1>1, <1>4, HeadFacts
    <2>3. EndOf(e, h) \in Heads(e) => EndOf(d, h) <= EndOf(e, h)
        BY <1>1, <1>4, <2>2, Apart
    <2>4. EndOf(d, h) \in Heads(d) => EndOf(e, h) <= EndOf(d, h)
        BY <1>1, <1>4, <2>1, Apart
    <2> QED BY <2>1, <2>2, <2>3, <2>4, Ends
<1>6. ASSUME NEW h \in Heads(d) PROVE d[h] = e[h]
    <2>1. /\ h \in Nat /\ d[h] \in Fields /\ d[h].size \in Nat
          /\ EndOf(d, h) = h + d[h].size + 1 /\ d[h].type \in {"M", "Z"}
        BY <1>1, HeadFacts
    <2>2. /\ e[h] \in Fields /\ e[h].size \in Nat
          /\ EndOf(e, h) = h + e[h].size + 1 /\ e[h].type \in {"M", "Z"}
        BY <1>1, <1>4, HeadFacts
    <2>3. d[h].size = e[h].size
        BY <2>1, <2>2, <1>5
    <2>4. d[h].psp = e[h].psp
        BY <1>2, <1>4 DEF Partly, PspAt
    <2>5. d[h].type = "Z" <=> EndOf(d, h) = Top \/ (EndOf(d, h) = UmbStart /\ ~link)
        BY <1>1 DEF Chained, Tiles
    <2>6. e[h].type = "Z" <=> EndOf(e, h) = Top \/ (EndOf(e, h) = UmbStart /\ ~link)
        BY <1>1, <1>4 DEF Chained, Tiles
    <2>7. d[h].type = e[h].type
        BY <2>1, <2>2, <2>5, <2>6, <1>5
    <2> QED BY <2>1, <2>2, <2>3, <2>4, <2>7 DEF Fields
<1>7. d = [h \in Heads(d) |-> d[h]] /\ e = [h \in Heads(e) |-> e[h]]
    BY <1>1 DEF Chained
<1> QED BY <1>4, <1>6, <1>7 DEF e

\* The state of the loop after k turns: part of the joining is done, none is left
\* before the block the loop is at, and k paragraphs at least are behind its end.
LoopAt(c, d, h, k, link) ==
    /\ Partly(c, d, link)
    /\ h \in Chain(d, FirstMCB)
    /\ \A x \in Joined(d) : h < x
    /\ d[h].type = "Z" \/ k < EndOf(d, h)

\* The loop begins so.
LEMMA LoopBegins ==
    ASSUME NEW c, NEW link \in BOOLEAN, Chained(c, link)
    PROVE  LoopAt(c, c, FirstMCB, 0, link)
<1>1. FirstMCB \in Heads(c) /\ FirstMCB \in Nat
    BY Ends
<1>2. FirstMCB \in Chain(c, FirstMCB) /\ 0 < EndOf(c, FirstMCB)
    <2>1. EndOf(c, FirstMCB) \in Nat /\ FirstMCB < EndOf(c, FirstMCB) /\ FirstMCB <= FirstMCB
        BY <1>1, HeadFacts
    <2> QED BY <1>1, <2>1, ChainIs, Ends
<1>3. ASSUME NEW x \in Joined(c) PROVE FirstMCB < x
    <2>1. x \in Heads(c)
        BY JoinedFacts
    <2>2. PICK g \in Heads(c) : g < x
        BY JoinedFacts
    <2>3. g \in Nat /\ FirstMCB <= g /\ x \in Nat
        BY <2>1, HeadFacts
    <2> QED BY <1>1, <2>2, <2>3
<1>4. Partly(c, c, link)
    BY DEF Partly
<1> QED BY <1>2, <1>3, <1>4 DEF LoopAt

\* A turn that joins: the block gets longer.
LEMMA LoopJoins ==
    ASSUME NEW c, NEW d, NEW h, NEW k \in Nat, NEW link \in BOOLEAN,
           Chained(c, link), LoopAt(c, d, h, k, link),
           d[h].type # "Z", IsFree(d, h), IsFree(d, EndOf(d, h))
    PROVE  LoopAt(c, JoinNext(d, h), h, k + 1, link)
<1> DEFINE n == EndOf(d, h)
           e == JoinNext(d, h)
<1>1. Chained(d, link) /\ h \in Chain(d, FirstMCB) /\ k < n
    BY DEF LoopAt, Partly
<1>2. h \in Heads(d) /\ n \in Heads(d)
    BY <1>1, NextInChain
<1>3. d[h].type = "M"
    BY <1>1, <1>2, HeadFacts
<1>4. Partly(c, e, link)
    BY <1>1, JoinPartly DEF LoopAt
<1>5. Chained(e, link) /\ Heads(e) = Heads(d) \ {n}
    BY <1>1, <1>2, <1>3, JoinChained, JoinFacts
<1>6. PspAt(e, h) = PspAt(d, h) /\ SizeAt(e, h) = SizeAt(d, h) + SizeAt(d, n) + 1
    BY <1>1, <1>2, <1>3, JoinFacts
<1>7. \A x \in Heads(e) \ {h} : PspAt(e, x) = PspAt(d, x) /\ EndOf(e, x) = EndOf(d, x)
    BY <1>5 DEF JoinNext, PspAt, Heads, EndOf
<1>8. h \in Nat /\ n \in Nat /\ h < n /\ n = h + SizeAt(d, h) + 1 /\ SizeAt(d, h) \in Nat
    BY <1>1, <1>2, HeadFacts, FieldFacts
<1>9. SizeAt(d, n) \in Nat
    BY <1>1, <1>2, FieldFacts
<1> HIDE DEF e, n
<1>10. h \in Heads(e)
    BY <1>2, <1>5, <1>8
<1>11. EndOf(e, h) = n + SizeAt(d, n) + 1
    <2>1. EndOf(e, h) = h + SizeAt(e, h) + 1
        BY <1>5, <1>10, FieldFacts
    <2> QED BY <2>1, <1>6, <1>8, <1>9
<1>12. k + 1 < EndOf(e, h)
    BY <1>1, <1>8, <1>9, <1>11
<1>13. link \/ h < UmbStart
    BY <1>1, <1>2, ChainIs, Ends
<1>14. h \in Chain(e, FirstMCB)
    <2>1. FirstMCB <= h
        BY <1>1, <1>2, HeadFacts
    <2> QED BY <1>5, <1>10, <1>13, <2>1, ChainIs, Ends
<1>15. ASSUME NEW x \in Joined(e) PROVE h < x
    <2>1. x \in Heads(e) /\ IsFree(e, x) /\ (link \/ x < UmbStart)
        BY <1>5, JoinedFacts
    <2>2. PICK g \in Heads(e) : IsFree(e, g) /\ EndOf(e, g) = x /\ g < x
        BY <1>5, JoinedFacts
    <2>3. CASE g = h
        BY <2>2, <2>3
    <2>4. CASE g # h /\ x # h
        <3>1. IsFree(d, g) /\ IsFree(d, x) /\ EndOf(d, g) = x
            BY <2>1, <2>2, <2>4, <1>7, FreeIs
        <3>2. x \in Joined(d)
            BY <3>1, <2>1, <2>2, <1>1, <1>5, JoinedIs
        <3> QED BY <3>2 DEF LoopAt
    <2>5. CASE g # h /\ x = h
        <3>1. EndOf(d, g) = h /\ IsFree(d, g)
            BY <2>2, <2>5, <1>7, FreeIs
        <3>2. h \in Joined(d)
            BY <3>1, <2>2, <1>1, <1>2, <1>5, <1>13, JoinedIs
        <3> QED BY <3>2, <1>8 DEF LoopAt
    <2> QED BY <2>3, <2>4, <2>5
<1> QED BY <1>4, <1>12, <1>14, <1>15 DEF LoopAt, e

\* A turn that goes on to the next block.
LEMMA LoopAdvances ==
    ASSUME NEW c, NEW d, NEW h, NEW k \in Nat, NEW link \in BOOLEAN,
           Chained(c, link), LoopAt(c, d, h, k, link),
           d[h].type # "Z", ~(IsFree(d, h) /\ IsFree(d, EndOf(d, h)))
    PROVE  LoopAt(c, d, EndOf(d, h), k + 1, link)
<1> DEFINE n == EndOf(d, h)
<1>1. Partly(c, d, link) /\ Chained(d, link) /\ h \in Chain(d, FirstMCB) /\ k < n
    BY DEF LoopAt, Partly
<1>2. h \in Heads(d) /\ n \in Heads(d) /\ n \in Chain(d, FirstMCB) /\ (link \/ n < UmbStart)
    BY <1>1, NextInChain
<1>3. n \in Nat /\ EndOf(d, n) \in Nat /\ n < EndOf(d, n)
    BY <1>1, <1>2, HeadFacts
<1>4. n \notin Joined(d)
    BY <1>1, <1>2, JoinedIs
<1>5. ASSUME NEW x \in Joined(d) PROVE n < x
    <2>1. x \in Heads(d) /\ h < x
        BY <1>1, JoinedFacts DEF LoopAt
    <2>2. n <= x /\ x \in Nat
        BY <2>1, <1>1, <1>2, Apart, HeadFacts
    <2> HIDE DEF n
    <2>3. x # n
        BY <1>4
    <2> QED BY <2>2, <2>3, <1>3
<1>6. k + 1 < EndOf(d, n)
    <2> HIDE DEF n
    <2> QED BY <1>1, <1>3
<1> QED BY <1>1, <1>2, <1>5, <1>6 DEF LoopAt

\* When the loop stops, nothing is left to join.
LEMMA LoopEnds ==
    ASSUME NEW c, NEW d, NEW h, NEW k \in Nat, NEW link \in BOOLEAN,
           Chained(c, link), LoopAt(c, d, h, k, link), d[h].type = "Z"
    PROVE  d = Compress(c)
<1>1. h \in Chain(d, FirstMCB) /\ h \in Heads(d)
    BY DEF LoopAt, Chain
<1>2. ASSUME NEW x \in Joined(d) PROVE FALSE
    <2>1. x \in Chain(d, FirstMCB) /\ h < x
        BY DEF LoopAt, Joined
    <2>2. FirstMCB <= h
        BY <1>1 DEF Chain
    <2>3. d[h].type = "M"
        BY <1>1, <2>1, <2>2 DEF Chain
    <2> QED BY <2>3
<1>3. Partly(c, d, link) /\ Joined(d) = {}
    BY <1>2 DEF LoopAt
<1> QED BY <1>3, CompressOnly

\* No block ends above Top: after Top turns the loop has stopped.
LEMMA LoopStops ==
    ASSUME NEW c, NEW d, NEW h, NEW link \in BOOLEAN,
           Chained(c, link), LoopAt(c, d, h, Top, link)
    PROVE  d = Compress(c)
<1>1. h \in Heads(d) /\ Chained(d, link)
    BY DEF LoopAt, Chain, Partly
<1>2. EndOf(d, h) <= Top /\ EndOf(d, h) \in Nat /\ Top \in Nat
    BY <1>1, HeadFacts
<1>3. d[h].type = "Z"
    BY <1>2 DEF LoopAt
<1> QED BY <1>2, <1>3, LoopEnds

-----------------------------------------------------------------------------

\* The states of the loop are pairs of a chain and a place in it.
IsState(s) == s = [mcb |-> s.mcb, at |-> s.at]
LoopState(c, s, k, link) == IsState(s) /\ LoopAt(c, s.mcb, s.at, k, link)

\* One turn keeps the loop's invariant.
LEMMA TurnKeeps ==
    ASSUME NEW c, NEW s, NEW k \in Nat, NEW link \in BOOLEAN,
           Chained(c, link), LoopState(c, s, k, link)
    PROVE  LoopState(c, Turn(s), k + 1, link)
<1> DEFINE d == s.mcb
           h == s.at
<1>1. LoopAt(c, d, h, k, link) /\ IsState(s)
    BY DEF LoopState
<1>2. CASE d[h].type = "Z"
    <2>1. Turn(s) = s
        BY <1>2 DEF Turn
    <2>2. LoopAt(c, d, h, k + 1, link)
        BY <1>1, <1>2 DEF LoopAt
    <2> QED BY <1>1, <2>1, <2>2 DEF LoopState
<1>3. CASE d[h].type # "Z" /\ IsFree(d, h) /\ IsFree(d, EndOf(d, h))
    <2> DEFINE e == JoinNext(d, h)
    <2>1. Turn(s) = [mcb |-> e, at |-> h]
        BY <1>3 DEF Turn
    <2>2. LoopAt(c, e, h, k + 1, link)
        BY <1>1, <1>3, LoopJoins
    <2> HIDE DEF e
    <2> QED BY <2>1, <2>2 DEF LoopState, IsState
<1>4. CASE d[h].type # "Z" /\ ~(IsFree(d, h) /\ IsFree(d, EndOf(d, h)))
    <2> DEFINE n == EndOf(d, h)
    <2>1. Turn(s) = [mcb |-> d, at |-> n]
        BY <1>4 DEF Turn
    <2>2. LoopAt(c, d, n, k + 1, link)
        BY <1>1, <1>4, LoopAdvances
    <2> HIDE DEF n
    <2> QED BY <2>1, <2>2 DEF LoopState, IsState
<1> QED BY <1>2, <1>3, <1>4

\* t gives the state of the loop after each of the first k turns.
Turns(c, k, t) ==
    /\ DOMAIN t = 0..k
    /\ t = [j \in 0..k |-> t[j]]
    /\ t[0] = [mcb |-> c, at |-> FirstMCB]
    /\ \A j \in 1..k : t[j] = Turn(t[j - 1])

\* What holds of 0 and goes from each number to the next holds up to n.
LEMMA Counting ==
    ASSUME NEW n \in Nat, NEW S, 0 \in S,
           \A k \in 0..(n - 1) : k \in S => k + 1 \in S
    PROVE  0..n \subseteq S
<1>1. SUFFICES ASSUME (0..n) \ S # {} PROVE FALSE
    OBVIOUS
<1>2. PICK k \in (0..n) \ S : \A m \in (0..n) \ S : k <= m
    <2>1. (0..n) \ S \in SUBSET Nat
        OBVIOUS
    <2> QED BY <1>1, <2>1, LeastExists
<1>3. k # 0 /\ k \in 0..n
    BY <1>2
<1>4. k - 1 \in 0..(n - 1) /\ ~ (k <= k - 1) /\ (k - 1) + 1 = k
    BY <1>3
<1>5. k - 1 \in S
    BY <1>2, <1>4
<1>6. k \in S
    BY <1>4, <1>5
<1> QED BY <1>2, <1>6

\* Any number of turns can be taken.
LEMMA TurnsExist ==
    ASSUME NEW c, NEW n \in Nat
    PROVE  \E t : Turns(c, n, t)
<1> DEFINE S == {k \in 0..n : \E t : Turns(c, k, t)}
           first == [mcb |-> c, at |-> FirstMCB]
<1>1. 0 \in S
    <2> DEFINE t == [j \in 0..0 |-> first]
    <2>1. Turns(c, 0, t)
        <3> HIDE DEF first
        <3>1. DOMAIN t = 0..0 /\ t = [j \in 0..0 |-> t[j]] /\ t[0] = first /\ 1..0 = {}
            OBVIOUS
        <3> HIDE DEF t
        <3> QED BY <3>1 DEF Turns, first
    <2>2. 0 \in 0..n
        OBVIOUS
    <2> QED BY <2>1, <2>2
<1>2. ASSUME NEW k \in 0..(n - 1), k \in S PROVE k + 1 \in S
    <2>1. PICK t : Turns(c, k, t)
        BY <1>2
    <2> DEFINE u == [j \in 0..(k + 1) |-> IF j <= k THEN t[j] ELSE Turn(t[k])]
    <2>2. k \in Nat /\ k + 1 \in 0..n
        OBVIOUS
    <2>3. DOMAIN u = 0..(k + 1) /\ u = [j \in 0..(k + 1) |-> u[j]]
        OBVIOUS
    <2>4. u[0] = first
        BY <2>1, <2>2 DEF Turns
    <2>5. \A j \in 1..(k + 1) : u[j] = Turn(u[j - 1])
        <3>1. TAKE j \in 1..(k + 1)
        <3>2. CASE j <= k
            <4>1. u[j] = t[j] /\ u[j - 1] = t[j - 1] /\ j \in 1..k
                BY <2>2, <3>2
            <4> QED BY <4>1, <2>1 DEF Turns
        <3>3. CASE j = k + 1
            <4>1. u[j] = Turn(t[k]) /\ u[j - 1] = t[k]
                BY <2>2, <3>3
            <4> QED BY <4>1
        <3> QED BY <3>2, <3>3, <2>2
    <2>6. Turns(c, k + 1, u)
        <3> HIDE DEF u
        <3> QED BY <2>3, <2>4, <2>5 DEF Turns
    <2> QED BY <2>2, <2>6
<1>3. n \in S
    <2> HIDE DEF S
    <2>1. 0..n \subseteq S
        BY <1>1, <1>2, Counting
    <2> QED BY <2>1
<1> QED BY <1>3

\* The states CompressLoop goes through.
TurnsOf(c) ==
    LET turn[k \in 0..Top] ==
            IF k = 0 THEN [mcb |-> c, at |-> FirstMCB] ELSE Turn(turn[k - 1])
    IN  turn

\* They are the turns.
LEMMA LoopTurns ==
    ASSUME NEW c
    PROVE  Turns(c, Top, TurnsOf(c)) /\ CompressLoop(c) = TurnsOf(c)[Top].mcb
<1> DEFINE first == [mcb |-> c, at |-> FirstMCB]
           Step(f) == [k \in 0..Top |-> IF k = 0 THEN first ELSE Turn(f[k - 1])]
           f == TurnsOf(c)
<1>1. Top \in Nat
    BY MemoryAssumption
<1>2. PICK t : Turns(c, Top, t)
    BY <1>1, TurnsExist
<1>3. /\ DOMAIN t = 0..Top /\ t = [j \in 0..Top |-> t[j]] /\ t[0] = first
      /\ \A j \in 1..Top : t[j] = Turn(t[j - 1])
    BY <1>2 DEF Turns
<1>4. t = Step(t)
    <2>1. \A k \in 0..Top : t[k] = Step(t)[k]
        <3>1. TAKE k \in 0..Top
        <3>2. CASE k = 0
            BY <3>2, <1>3
        <3>3. CASE k # 0
            <4>1. k \in 1..Top
                BY <3>3, <1>1
            <4> QED BY <4>1, <3>3, <1>3
        <3> QED BY <3>2, <3>3
    <2>2. Step(t) = [k \in 0..Top |-> Step(t)[k]]
        OBVIOUS
    <2> HIDE DEF Step
    <2> QED BY <2>1, <2>2, <1>3
<1>5. f = CHOOSE x : x = Step(x)
    BY DEF TurnsOf
<1>6. f = Step(f)
    <2> HIDE DEF Step, f
    <2> QED BY <1>4, <1>5
<1>7. DOMAIN f = 0..Top /\ f = [k \in 0..Top |-> f[k]]
    <2> HIDE DEF f
    <2> QED BY <1>6
<1>8. f[0] = first /\ \A k \in 1..Top : f[k] = Turn(f[k - 1])
    <2> HIDE DEF f, first
    <2>1. 0 \in 0..Top /\ \A k \in 1..Top : k \in 0..Top /\ k # 0
        BY <1>1
    <2>2. \A k \in 0..Top : Step(f)[k] = IF k = 0 THEN first ELSE Turn(f[k - 1])
        OBVIOUS
    <2> HIDE DEF Step
    <2> QED BY <2>1, <2>2, <1>6
<1>9. Turns(c, Top, f)
    <2> HIDE DEF f
    <2> QED BY <1>7, <1>8 DEF Turns
<1> QED BY <1>9 DEF CompressLoop, TurnsOf

\* The loop of DOS_CompressMemory compresses: on every well-formed chain it comes
\* to the chain the closed form gives.
THEOREM LoopCompresses ==
    ASSUME NEW c, NEW link \in BOOLEAN, Chained(c, link)
    PROVE  CompressLoop(c) = Compress(c)
<1> DEFINE t == TurnsOf(c)
           S == {k \in 0..Top : LoopState(c, t[k], k, link)}
<1>1. Top \in Nat
    BY MemoryAssumption
<1>2. Turns(c, Top, t) /\ CompressLoop(c) = t[Top].mcb
    BY LoopTurns
<1> HIDE DEF t
<1>3. 0 \in S
    <2>1. t[0] = [mcb |-> c, at |-> FirstMCB]
        BY <1>2 DEF Turns
    <2>2. LoopAt(c, c, FirstMCB, 0, link)
        BY LoopBegins
    <2>3. LoopState(c, t[0], 0, link)
        BY <2>1, <2>2 DEF LoopState, IsState
    <2> QED BY <1>1, <2>3
<1>4. ASSUME NEW k \in 0..(Top - 1), k \in S PROVE k + 1 \in S
    <2>1. k \in Nat /\ k + 1 \in 0..Top /\ k + 1 \in 1..Top /\ (k + 1) - 1 = k
        BY <1>1
    <2>2. t[k + 1] = Turn(t[k])
        BY <1>2, <2>1 DEF Turns
    <2>3. LoopState(c, t[k], k, link)
        BY <1>4
    <2>4. LoopState(c, Turn(t[k]), k + 1, link)
        BY <2>1, <2>3, TurnKeeps
    <2> QED BY <2>1, <2>2, <2>4
<1>5. Top \in S
    <2> HIDE DEF S
    <2>1. 0..Top \subseteq S
        BY <1>1, <1>3, <1>4, Counting
    <2> QED BY <2>1, <1>1
<1>6. LoopAt(c, t[Top].mcb, t[Top].at, Top, link)
    BY <1>5 DEF LoopState
<1>7. t[Top].mcb = Compress(c)
    BY <1>6, LoopStops
<1> QED BY <1>2, <1>7

-----------------------------------------------------------------------------
(* DOS_AllocateMemory.                                                     *)

Strategy == [fit : Fits, high : Highs]

\* A visit is a pass and a header of the chain.
LEMMA VisitsFacts ==
    ASSUME NEW c, NEW strat, NEW v \in Visits(c, strat)
    PROVE  v[1] \in {1, 2} /\ v[2] \in Heads(c) /\ v = <<v[1], v[2]>>
BY DEF Visits, Chain

\* If a block can be found, each of the three strategies finds one.
LEMMA FoundFacts ==
    ASSUME NEW c, NEW link \in BOOLEAN, Chained(c, link),
           NEW strat \in Strategy, NEW n \in Nat, Candidates(c, strat, n) # {}
    PROVE  Found(c, strat, n) \in Candidates(c, strat, n)
<1> DEFINE cand == Candidates(c, strat, n)
           order == [v \in cand |-> IF v[1] = 1 THEN v[2] ELSE v[2] + Top]
           size == [v \in cand |-> c[v[2]].size]
<1>1. ASSUME NEW v \in cand
      PROVE  /\ v[1] \in {1, 2} /\ v[2] \in Nat /\ v[2] < Top /\ Top \in Nat
             /\ v = <<v[1], v[2]>> /\ c[v[2]].size \in Nat
    <2>1. v[1] \in {1, 2} /\ v[2] \in Heads(c) /\ v = <<v[1], v[2]>>
        BY VisitsFacts DEF Candidates
    <2> QED BY <2>1, HeadFacts
<1>2. order \in [cand -> Nat] /\ size \in [cand -> Nat]
    <2>1. \A v \in cand : (IF v[1] = 1 THEN v[2] ELSE v[2] + Top) \in Nat
        BY <1>1
    <2> HIDE DEF cand
    <2> QED BY <1>1, <2>1
<1>3. ASSUME NEW v \in cand, NEW w \in cand, v # w, order[v] <= order[w]
      PROVE  Sooner(v, w)
    <2>1. v[2] = w[2] /\ v[1] = w[1] => v = w
        BY <1>1
    <2>2. order[v] = IF v[1] = 1 THEN v[2] ELSE v[2] + Top
        OBVIOUS
    <2>3. order[w] = IF w[1] = 1 THEN w[2] ELSE w[2] + Top
        OBVIOUS
    <2> HIDE DEF order, cand
    <2>4. /\ v[1] \in {1, 2} /\ v[2] \in Nat /\ v[2] < Top /\ Top \in Nat
          /\ w[1] \in {1, 2} /\ w[2] \in Nat /\ w[2] < Top
        BY <1>1
    <2>5. v[1] < w[1] \/ (v[1] = w[1] /\ v[2] < w[2])
        BY <2>1, <2>2, <2>3, <2>4, <1>3
    <2> QED BY <2>5 DEF Sooner
<1>4. cand # {}
    OBVIOUS
<1>5. CASE strat.fit = "first"
    <2>1. PICK v \in cand : \A w \in cand : order[v] <= order[w]
        <3> HIDE DEF order, cand
        <3> QED BY <1>2, <1>4, LeastRank
    <2>2. \A w \in cand \ {v} : Sooner(v, w)
        <3> HIDE DEF order, cand
        <3> QED BY <1>3, <2>1
    <2> QED BY <1>5, <2>2 DEF Found
<1>6. CASE strat.fit = "best"
    <2>1. PICK u \in cand : \A w \in cand : size[u] <= size[w]
        <3> HIDE DEF size, cand
        <3> QED BY <1>2, <1>4, LeastRank
    <2> DEFINE fits == {v \in cand : size[v] = size[u]}
               order2 == [v \in fits |-> order[v]]
    <2>2. PICK v \in fits : \A w \in fits : order2[v] <= order2[w]
        <3>1. fits # {} /\ order2 \in [fits -> Nat]
            BY <1>2
        <3> HIDE DEF fits, order2
        <3> QED BY <3>1, LeastRank
    <2>3. v \in cand /\ \A w \in cand : size[v] <= size[w]
        BY <2>1
    <2>4. ASSUME NEW w \in cand \ {v}
          PROVE  size[v] < size[w] \/ (size[v] = size[w] /\ Sooner(v, w))
        <3>1. size[v] \in Nat /\ size[w] \in Nat /\ size[v] <= size[w]
            <4> HIDE DEF size, cand
            <4> QED BY <1>2, <2>3
        <3>2. CASE size[v] = size[w]
            <4>1. w \in fits
                BY <3>2
            <4>2. order[v] <= order[w]
                BY <2>2, <4>1
            <4> HIDE DEF size, cand, order, fits
            <4> QED BY <3>2, <4>2, <1>3, <2>3
        <3> HIDE DEF size, cand
        <3> QED BY <3>1, <3>2
    <2>5. \A w \in cand \ {v} :
             \/ c[v[2]].size < c[w[2]].size
             \/ c[v[2]].size = c[w[2]].size /\ Sooner(v, w)
        BY <2>3, <2>4
    <2> QED BY <1>6, <2>3, <2>5 DEF Found
<1>7. CASE strat.fit = "last"
    <2> DEFINE back == [v \in cand |-> 2 * Top - order[v]]
    <2>1. ASSUME NEW v \in cand
          PROVE  2 * Top - order[v] \in Nat
        <3>1. order[v] = IF v[1] = 1 THEN v[2] ELSE v[2] + Top
            OBVIOUS
        <3> HIDE DEF order, cand
        <3> QED BY <3>1, <1>1
    <2>2. back \in [cand -> Nat]
        <3> HIDE DEF order, cand
        <3> QED BY <2>1
    <2>3. PICK v \in cand : \A w \in cand : back[v] <= back[w]
        <3> HIDE DEF back, cand
        <3> QED BY <2>2, <1>4, LeastRank
    <2>4. ASSUME NEW w \in cand \ {v}
          PROVE  Sooner(w, v)
        <3>1. 2 * Top - order[v] <= 2 * Top - order[w]
            BY <2>3
        <3> HIDE DEF order, cand, back
        <3>2. order[v] \in Nat /\ order[w] \in Nat /\ Top \in Nat
            BY <1>1, <1>2
        <3>3. order[w] <= order[v]
            BY <3>1, <3>2
        <3> QED BY <3>3, <1>3
    <2> QED BY <1>7, <2>4 DEF Found
<1> QED BY <1>5, <1>6, <1>7 DEF Strategy, Fits

\* What a failing call reports is the size of a block it looked at, or 0, and
\* no block it looked at is larger.
LEMMA BigSizeFacts ==
    ASSUME NEW c, NEW link \in BOOLEAN, Chained(c, link), NEW strat
    PROVE  /\ BigSize(c, strat) \in Nat
           /\ BigSize(c, strat) # 0 =>
                 \E v \in Visits(c, strat) :
                     IsFree(c, v[2]) /\ c[v[2]].size = BigSize(c, strat)
<1> DEFINE free == {w \in Visits(c, strat) : IsFree(c, w[2])}
           sizes == {0} \cup {c[v[2]].size : v \in free}
<1>1. ASSUME NEW v \in free
      PROVE  c[v[2]].size \in 0..Top
    <2>1. v[2] \in Heads(c)
        BY VisitsFacts
    <2>2. v[2] \in Nat /\ c[v[2]].size \in Nat /\ Top \in Nat
          /\ v[2] + c[v[2]].size + 1 <= Top
        <3> HIDE DEF free
        <3> QED BY <2>1, HeadFacts
    <2> QED BY <2>2
<1>2. sizes \in SUBSET (0..Top) /\ sizes # {} /\ Top \in Nat
    <2> HIDE DEF free
    <2> QED BY <1>1, MemoryAssumption
<1>3. \E n \in sizes : \A m \in sizes : m <= n
    <2> HIDE DEF sizes
    <2> QED BY <1>2, GreatestExists
<1>4. BigSize(c, strat) = CHOOSE n \in sizes : \A m \in sizes : m <= n
    BY DEF BigSize
<1>5. BigSize(c, strat) \in sizes
    <2> HIDE DEF sizes
    <2> QED BY <1>3, <1>4
<1> QED BY <1>1, <1>5

\* The header of the n paragraphs that Take takes of the block at h.
TakenAt(c, strat, h, n) == IF strat.fit = "last" THEN h + c[h].size - n ELSE h

\* Paragraphs of a free block become a block of psp; nothing else changes hands.
LEMMA TakeFacts ==
    ASSUME NEW c, NEW link \in BOOLEAN, Chained(c, link), NEW strat,
           NEW h \in Heads(c), IsFree(c, h), NEW n \in Nat, n <= SizeAt(c, h), NEW p \in Nat
    PROVE  LET d == Take(c, strat, h, n, p)
               head == TakenAt(c, strat, h, n)
           IN  /\ Chained(d, link)
               /\ head \in Heads(d) /\ PspAt(d, head) = p
               /\ head \in Heads(c) => IsFree(c, head)
               /\ Same(c, d, {head})
<1> DEFINE d == Take(c, strat, h, n, p)
           head == TakenAt(c, strat, h, n)
           place == IF strat.fit = "last" THEN h + SizeAt(c, h) - n ELSE h + n + 1
           cut == SplitAt(c, h, place)
<1>1. h \in Nat /\ SizeAt(c, h) \in Nat /\ EndOf(c, h) = h + SizeAt(c, h) + 1 /\ h # UmbStart
    BY FieldFacts, Ends
<1>2. CASE SizeAt(c, h) = n
    <2>1. d = Own(c, h, p)
        BY <1>2 DEF Take, SizeAt
    <2>2. head = h
        BY <1>1, <1>2 DEF TakenAt, SizeAt
    <2> HIDE DEF d, head, cut, place
    <2>3. head \in Heads(d) /\ PspAt(d, head) = p /\ IsFree(c, head) /\ Same(c, d, {head})
        <3>1. /\ Heads(Own(c, h, p)) = Heads(c)
              /\ PspAt(Own(c, h, p), h) = p
              /\ Same(c, Own(c, h, p), {h})
            BY <1>1, OwnFacts
        <3> QED BY <2>1, <2>2, <3>1
    <2>4. Chained(d, link)
        BY <2>1, <1>1, OwnChained
    <2> QED BY <2>3, <2>4 DEF d, head
<1>3. CASE SizeAt(c, h) # n
    <2>1. place \in Nat /\ h < place /\ place < EndOf(c, h)
        BY <1>1, <1>3
    <2>2. /\ Heads(cut) = Heads(c) \cup {place} /\ place \notin Heads(c)
          /\ PspAt(cut, h) = PspAt(c, h) /\ IsFree(cut, place)
          /\ Same(c, cut, {h})
        <3> HIDE DEF place
        <3> QED BY <2>1, SplitFacts
    <2>c. Chained(cut, link)
        <3> HIDE DEF place
        <3> QED BY <2>1, SplitChained
    <2>3. head \in {h, place} /\ d = Own(cut, head, p)
        BY <1>3 DEF Take, TakenAt, SizeAt
    <2>4. head \in Heads(cut) /\ head # UmbStart
        BY <2>2, <2>3, <1>1, Ends
    <2> HIDE DEF cut, place, head, d
    <2>5. /\ Heads(d) = Heads(cut) /\ PspAt(d, head) = p
          /\ \A x \in Heads(cut) \ {head} : PspAt(d, x) = PspAt(cut, x)
          /\ Same(cut, d, {head})
        BY <2>c, <2>3, <2>4, OwnFacts
    <2>d. Chained(d, link)
        BY <2>c, <2>3, <2>4, OwnChained
    <2>6. head \in Heads(c) => IsFree(c, head)
        BY <2>2, <2>3
    <2>7. IsFree(c, h) /\ (h # head => IsFree(d, h))
        BY <2>2, <2>3, <2>5, FreeIs
    <2>8. Same(c, d, {h, head})
        BY <2>2, <2>5, SameTransitive
    <2>9. Same(c, d, {head})
        BY <2>7, <2>8 DEF Same
    <2> QED BY <2>4, <2>5, <2>d, <2>6, <2>9 DEF d, head
<1> QED BY <1>2, <1>3

\* DOS_AllocateMemory gives the caller a block at an address where no block was
\* allocated, or nothing; what was allocated before stays as it is.
LEMMA AllocateFacts ==
    ASSUME NEW chain, NEW link \in BOOLEAN, Chained(chain, link),
           NEW strat \in Strategy, NEW n \in Nat, NEW p \in Nat
    PROVE  LET r == Allocate(chain, strat, n, p)
           IN  /\ Chained(r.mcb, link)
               /\ r.ok \in BOOLEAN
               /\ r.ok = (Candidates(Compress(chain), strat, n) # {})
               /\ ~r.ok => Same(chain, r.mcb, {})
               /\ r.ok => /\ r.head \in Heads(r.mcb) /\ PspAt(r.mcb, r.head) = p
                          /\ r.head \in Heads(chain) => IsFree(chain, r.head)
                          /\ Same(chain, r.mcb, {r.head})
<1> DEFINE c == Compress(chain)
           r == Allocate(chain, strat, n, p)
<1>1. /\ Same(chain, c, {})
      /\ \A x \in Heads(chain) : ~IsFree(chain, x) =>
            x \in Heads(c) /\ PspAt(c, x) = PspAt(chain, x)
    BY CompressSame
<1>c. Chained(c, link)
    BY CompressChained
<1>2. CASE Candidates(c, strat, n) = {}
    <2>1. r.ok = FALSE /\ r.mcb = c
        BY <1>2 DEF Allocate
    <2> QED BY <1>1, <1>c, <1>2, <2>1
<1>3. CASE Candidates(c, strat, n) # {}
    <2> DEFINE h == Found(c, strat, n)[2]
    <2>1. r.ok = TRUE /\ r.mcb = Take(c, strat, h, n, p) /\ r.head = TakenAt(c, strat, h, n)
        BY <1>3 DEF Allocate, TakenAt
    <2>2. h \in Heads(c) /\ IsFree(c, h) /\ n <= SizeAt(c, h)
        <3>1. Found(c, strat, n) \in Candidates(c, strat, n)
            <4> HIDE DEF c
            <4> QED BY <1>c, <1>3, FoundFacts
        <3>2. h \in Heads(c) /\ IsFree(c, h) /\ SizeAt(c, h) >= n
            <4> HIDE DEF c
            <4> QED BY <3>1, VisitsFacts DEF Candidates, SizeAt
        <3>3. SizeAt(c, h) \in Nat
            <4> HIDE DEF c, h
            <4> QED BY <3>2, <1>c, FieldFacts
        <3> QED BY <3>2, <3>3
    <2> HIDE DEF c, h, r
    <2>3. /\ Chained(r.mcb, link)
          /\ r.head \in Heads(r.mcb) /\ PspAt(r.mcb, r.head) = p
          /\ r.head \in Heads(c) => IsFree(c, r.head)
          /\ Same(c, r.mcb, {r.head})
        BY <1>c, <2>1, <2>2, TakeFacts
    <2>4. r.head \in Heads(chain) => IsFree(chain, r.head)
        BY <1>1, <2>3, FreeIs
    <2>5. Same(chain, r.mcb, {r.head})
        BY <1>1, <2>3, SameTransitive
    <2> QED BY <1>3, <2>1, <2>3, <2>4, <2>5 DEF c, r
<1> QED BY <1>2, <1>3

\* A call for no more than a failing call reported succeeds: EXEC counts on it.
LEMMA AllocateSucceeds ==
    ASSUME NEW chain, NEW link \in BOOLEAN, Chained(chain, link),
           NEW strat \in Strategy, NEW n \in Nat,
           BigSize(Compress(chain), strat) # 0, n <= BigSize(Compress(chain), strat)
    PROVE  Candidates(Compress(Compress(chain)), strat, n) # {}
<1> DEFINE c == Compress(chain)
<1>1. Chained(c, link) /\ Compress(c) = c
    BY CompressChained, CompressTwice
<1>2. PICK v \in Visits(c, strat) : IsFree(c, v[2]) /\ c[v[2]].size = BigSize(c, strat)
    <2> HIDE DEF c
    <2> QED BY <1>1, BigSizeFacts DEF c
<1>3. BigSize(c, strat) \in Nat
    <2> HIDE DEF c
    <2> QED BY <1>1, BigSizeFacts
<1>4. v \in Candidates(c, strat, n)
    BY <1>2, <1>3 DEF Candidates
<1> QED BY <1>1, <1>4

-----------------------------------------------------------------------------
(* The other functions.                                                    *)

\* A block becomes one of n paragraphs of p, and the rest of it free.
LEMMA ShortenFacts ==
    ASSUME NEW e, NEW link \in BOOLEAN, Chained(e, link),
           NEW h \in Heads(e), h # UmbStart, NEW n \in Nat, n < SizeAt(e, h), NEW p \in Nat
    PROVE  LET o == Own(SplitAt(e, h, h + n + 1), h, p)
           IN  /\ Chained(o, link) /\ h \in Heads(o) /\ PspAt(o, h) = p
               /\ Same(e, o, {h})
<1> DEFINE place == h + n + 1
           s == SplitAt(e, h, place)
           o == Own(s, h, p)
<1>1. place \in Nat /\ h < place /\ place < EndOf(e, h)
    <2>1. h \in Nat /\ SizeAt(e, h) \in Nat /\ EndOf(e, h) = h + SizeAt(e, h) + 1
        BY FieldFacts
    <2> QED BY <2>1
<1> HIDE DEF place
<1>2. Heads(s) = Heads(e) \cup {place} /\ Same(e, s, {h})
    BY <1>1, SplitFacts
<1>3. Chained(s, link)
    BY <1>1, SplitChained
<1> HIDE DEF s
<1>4. Heads(o) = Heads(s) /\ PspAt(o, h) = p /\ Same(s, o, {h})
    BY <1>2, <1>3, OwnFacts
<1>5. Chained(o, link)
    BY <1>2, <1>3, OwnChained
<1> HIDE DEF o
<1>6. Same(e, o, {h})
    BY <1>2, <1>4, SameTransitive
<1> QED BY <1>2, <1>4, <1>5, <1>6 DEF o, s, place

\* DOS_ResizeMemory leaves the caller its block, at the same address, and what
\* others hold as it is.
LEMMA ResizeFacts ==
    ASSUME NEW chain, NEW link \in BOOLEAN, Chained(chain, link),
           NEW h \in Heads(chain), ~IsFree(chain, h), h # UmbStart,
           NEW n \in Nat, NEW p \in Nat, PspAt(chain, h) = p
    PROVE  LET d == Resize(chain, h, n, p)
           IN  /\ Chained(d, link)
               /\ h \in Heads(d) /\ PspAt(d, h) = p
               /\ Same(chain, d, {h})
<1> DEFINE c == Compress(chain)
           room == c[h].type = "M" /\ IsFree(c, EndOf(c, h))
           grown == IF room THEN JoinNext(c, h) ELSE c
           d == Resize(chain, h, n, p)
           place == h + n + 1
<1>c. Chained(c, link)
    BY CompressChained
<1>1. Same(chain, c, {}) /\ h \in Heads(c) /\ PspAt(c, h) = p /\ Chained(c, link)
    BY <1>c, CompressSame
<1>2. p # MCB_FREE
    BY FreeIs
<1>3. /\ Chained(grown, link) /\ Same(c, grown, {h})
      /\ h \in Heads(grown) /\ PspAt(grown, h) = p
    <2>1. CASE room
        <3>1. grown = JoinNext(c, h)
            BY <2>1
        <3>2. c[h].type = "M" /\ IsFree(c, EndOf(c, h))
            BY <2>1
        <3> HIDE DEF c, room, grown
        <3>3. EndOf(c, h) # h
            BY <1>1, HeadFacts
        <3>4. Same(c, grown, {h}) /\ h \in Heads(grown) /\ PspAt(grown, h) = p
            BY <3>1, <3>2, <3>3, <1>1, JoinFacts
        <3>5. Chained(grown, link)
            BY <3>1, <3>2, <1>1, JoinChained
        <3> QED BY <3>4, <3>5
    <2>2. CASE ~room
        <3>1. grown = c
            BY <2>2
        <3> HIDE DEF c, room, grown
        <3>2. Same(c, c, {h})
            BY DEF Same
        <3> QED BY <3>1, <3>2, <1>1
    <2> QED BY <2>1, <2>2
<1>4. d = IF n = SizeAt(c, h) THEN c
          ELSE IF n < SizeAt(c, h) THEN Compress(Own(SplitAt(c, h, place), h, p))
          ELSE IF n < SizeAt(grown, h) THEN Own(SplitAt(grown, h, place), h, p)
          ELSE Own(grown, h, p)
    BY DEF Resize, SizeAt
<1> HIDE DEF c, room, grown, d
<1>5. h \in Nat /\ SizeAt(c, h) \in Nat /\ EndOf(c, h) = h + SizeAt(c, h) + 1
    BY <1>1, FieldFacts
<1>6. SizeAt(grown, h) \in Nat /\ EndOf(grown, h) = h + SizeAt(grown, h) + 1
    BY <1>3, FieldFacts
<1>7. CASE n = SizeAt(c, h)
    <2>1. Same(chain, c, {h})
        BY <1>1 DEF Same
    <2> QED BY <2>1, <1>1, <1>4, <1>7 DEF d
<1>8. ASSUME NEW e, Chained(e, link), h \in Heads(e), Same(chain, e, {h}),
             n < SizeAt(e, h)
      PROVE  LET o == Own(SplitAt(e, h, place), h, p)
             IN  /\ Chained(o, link) /\ h \in Heads(o) /\ PspAt(o, h) = p
                 /\ Same(chain, o, {h})
    <2> DEFINE o == Own(SplitAt(e, h, place), h, p)
    <2>1. /\ Chained(o, link) /\ h \in Heads(o) /\ PspAt(o, h) = p
          /\ Same(e, o, {h})
        BY <1>8, ShortenFacts DEF place
    <2> HIDE DEF o
    <2>2. Same(chain, o, {h})
        BY <1>8, <2>1, SameTransitive
    <2> QED BY <2>1, <2>2 DEF o
<1>9. Same(chain, grown, {h}) /\ Same(chain, c, {h})
    <2>1. Same(chain, c, {h})
        BY <1>1 DEF Same
    <2> QED BY <2>1, <1>3, SameTransitive
<1>10. CASE n # SizeAt(c, h) /\ n < SizeAt(c, h)
    <2> DEFINE o == Own(SplitAt(c, h, place), h, p)
    <2>1. /\ Chained(o, link) /\ h \in Heads(o) /\ PspAt(o, h) = p
          /\ Same(chain, o, {h})
        BY <1>1, <1>8, <1>9, <1>10
    <2>2. d = Compress(o)
        BY <1>4, <1>10
    <2> HIDE DEF o
    <2>c. Chained(d, link)
        BY <2>1, <2>2, CompressChained
    <2>3. Chained(d, link) /\ h \in Heads(d) /\ PspAt(d, h) = p
        BY <2>c, <2>1, <2>2, <1>2, CompressSame, FreeIs
    <2>4. Same(chain, d, {h})
        BY <2>1, <2>2, CompressSame, SameTransitive
    <2> QED BY <2>3, <2>4 DEF d
<1>11. CASE n # SizeAt(c, h) /\ ~(n < SizeAt(c, h)) /\ n < SizeAt(grown, h)
    <2>1. d = Own(SplitAt(grown, h, place), h, p)
        BY <1>4, <1>11
    <2> QED BY <2>1, <1>3, <1>8, <1>9, <1>11 DEF d
<1>12. CASE n # SizeAt(c, h) /\ ~(n < SizeAt(c, h)) /\ ~(n < SizeAt(grown, h))
    <2>1. d = Own(grown, h, p)
        BY <1>4, <1>12
    <2>2. Chained(d, link) /\ h \in Heads(d) /\ PspAt(d, h) = p /\ Same(grown, d, {h})
        <3>1. Heads(d) = Heads(grown) /\ PspAt(d, h) = p /\ Same(grown, d, {h})
            BY <2>1, <1>3, OwnFacts
        <3>2. Chained(d, link)
            BY <2>1, <1>3, OwnChained
        <3> QED BY <3>1, <3>2, <1>3
    <2>3. Same(chain, d, {h})
        BY <2>2, <1>9, SameTransitive
    <2> QED BY <2>2, <2>3 DEF d
<1> QED BY <1>7, <1>10, <1>11, <1>12

\* DOS_FreeProcessMemory frees all the process has, in both chains, and
\* nothing else.
LEMMA FreeProcessFacts ==
    ASSUME NEW c, NEW link \in BOOLEAN, Chained(c, link), NEW p \in Nat,
           p # MCB_FREE, p # MCB_DOS
    PROVE  LET d == FreeProcess(c, p)
           IN  /\ Chained(d, link)
               /\ Same(c, d, {h \in Heads(c) : PspAt(c, h) = p})
               /\ \A h \in Heads(d) : PspAt(d, h) # p
               /\ \A h \in Heads(d) : h \in Heads(c) /\ (PspAt(c, h) = p => IsFree(d, h))
<1> DEFINE e == [h \in Heads(c) |-> IF c[h].psp = p THEN [c[h] EXCEPT !.psp = MCB_FREE] ELSE c[h]]
           mine == {h \in Heads(c) : PspAt(c, h) = p}
           d == FreeProcess(c, p)
<1>1. d = Compress(e)
    BY DEF FreeProcess
<1>2. Heads(e) = Heads(c)
    BY DEF Heads
<1>3. ASSUME NEW h \in Heads(c)
      PROVE  /\ e[h] \in Fields /\ e[h].type = c[h].type /\ SizeAt(e, h) = SizeAt(c, h)
             /\ PspAt(e, h) = IF PspAt(c, h) = p THEN MCB_FREE ELSE PspAt(c, h)
    <2>1. c[h] \in Fields
        BY HeadFacts
    <2>2. e[h] = IF c[h].psp = p THEN [c[h] EXCEPT !.psp = MCB_FREE] ELSE c[h]
        BY <1>3
    <2> HIDE DEF e
    <2> QED BY <2>1, <2>2 DEF Fields, MCB_FREE, PspAt, SizeAt
<1>4. e = [h \in Heads(e) |-> e[h]]
    BY <1>2
<1> HIDE DEF e
<1>5. Chained(e, link)
    <2>1. \A h \in Heads(c) : EndOf(e, h) = EndOf(c, h)
        BY <1>3 DEF EndOf, SizeAt
    <2>2. Tiles(e, link)
        BY <1>2, <1>3, <2>1 DEF Chained, Tiles
    <2>3. e[UmbStart].psp = MCB_DOS
        BY <1>3, Ends DEF Chained, PspAt
    <2> QED BY <1>2, <1>3, <1>4, <2>2, <2>3 DEF Chained
<1>6. Same(c, e, mine)
    BY <1>2, <1>3, FreeIs DEF Same
<1>7. Same(c, d, mine)
    <2>1. Same(e, d, {})
        BY <1>1, <1>5, CompressSame
    <2> HIDE DEF mine, d
    <2> QED BY <1>6, <2>1, SameTransitive
<1>8. \A h \in Heads(d) : PspAt(d, h) # p
    BY <1>1, <1>2, <1>3, <1>5, CompressSame DEF MCB_FREE
<1>9. \A h \in Heads(d) : h \in Heads(c) /\ (PspAt(c, h) = p => PspAt(d, h) = MCB_FREE)
    BY <1>1, <1>2, <1>3, <1>5, CompressSame
<1> QED BY <1>1, <1>5, <1>7, <1>8, <1>9, CompressChained, FreeIs

=============================================================================
