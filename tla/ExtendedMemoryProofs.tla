------------------------ MODULE ExtendedMemoryProofs ------------------------
(***************************************************************************)
(* Proofs about the memory above 1 MB: no page is lost or has two owners,  *)
(* a locked block stays where it is, and a slot of the page frame shows    *)
(* the page it was mapped to, for any size of the memory, any number of    *)
(* handles and pages and any calls of XMS, EMS and VCPI.                   *)
(*                                                                         *)
(* The links in the array are given as sequences of cells (Block): a walk  *)
(* along the array is described without recursion, and is the only one.    *)
(* Each function of memory.cpp then replaces one sequence by another and   *)
(* leaves every block alone that shares no cell with it (Replaces).  The   *)
(* owners of blocks are kept in one ledger, so that a call of any of the   *)
(* three interfaces is one posting in it.                                  *)
(***************************************************************************)
EXTENDS ExtendedMemory, FiniteSetTheorems, SequenceTheorems, WellFoundedInduction, TLAPS

-----------------------------------------------------------------------------
(* Numbers.                                                                *)

\* A set of numbers that is not empty has a smallest one.
LEMMA Smallest ==
    ASSUME NEW T, T \subseteq Nat, T # {}
    PROVE  \E n \in T : \A m \in T : n <= m
<1>1. \E n \in T : \A m \in T : ~ (<<m, n>> \in OpToRel(<, Nat))
    BY NatLessThanWellFounded, WFMin, Zenon
<1>2. PICK n \in T : \A m \in T : ~ (<<m, n>> \in OpToRel(<, Nat))
    BY <1>1
<1>3. \A m \in T : ~ (m < n)
    <2>1. SUFFICES ASSUME NEW m \in T, m < n PROVE FALSE
        OBVIOUS
    <2>2. m \in Nat /\ n \in Nat
        OBVIOUS
    <2>3. <<m, n>> \in OpToRel(<, Nat)
        BY <2>1, <2>2 DEF OpToRel
    <2> QED
        BY <1>2, <2>3
<1> QED
    BY <1>3

\* What holds of 0 and goes from each number to the next holds up to n.
LEMMA UpTo ==
    ASSUME NEW n \in Nat, NEW S, 0 \in S,
           \A k \in 0..(n - 1) : k \in S => k + 1 \in S
    PROVE  0..n \subseteq S
<1>1. SUFFICES ASSUME (0..n) \ S # {} PROVE FALSE
    OBVIOUS
<1>2. PICK k \in (0..n) \ S : \A m \in (0..n) \ S : k <= m
    <2>1. (0..n) \ S \subseteq Nat
        OBVIOUS
    <2> QED
        BY <1>1, <2>1, Smallest
<1>3. k # 0 /\ k \in 0..n
    BY <1>2
<1>4. k - 1 \in 0..(n - 1) /\ ~ (k <= k - 1) /\ (k - 1) + 1 = k
    BY <1>3
<1>5. k - 1 \in S
    BY <1>2, <1>4
<1>6. k \in S
    BY <1>4, <1>5
<1> QED
    BY <1>2, <1>6

-----------------------------------------------------------------------------
(* Walks along the array.                                                  *)

\* The cells are numbered from a page above 0.
LEMMA Numbered ==
    /\ XMS_START \in Nat \ {0} /\ LastPage \in Nat /\ XMS_START <= LastPage
    /\ Cells \subseteq Nat \ {0}
    /\ Pages \subseteq Cells
    /\ IsFiniteSet(Cells) /\ Cardinality(Cells) \in Nat \ {0}
    /\ IsFiniteSet(Pages)
<1>1. XMS_START \in Nat \ {0} /\ LastPage \in Nat /\ XMS_START <= LastPage
    BY PagesAssumption
<1>2. IsFiniteSet(Cells) /\ Cardinality(Cells) = LastPage + 1 - XMS_START + 1
    BY <1>1, FS_Interval DEF Cells
<1>3. IsFiniteSet(Pages)
    BY <1>1, FS_Interval DEF Pages
<1> QED
    BY <1>1, <1>2, <1>3 DEF Cells, Pages

Array == [Cells -> Cells \cup {0, -1, Foreign}]

\* One link further on.
After(m, p) == IF p <= 0 THEN 0 ELSE m[p]

\* Block s of n cells has this handle.
Block(m, handle, s, n) ==
    /\ handle \in Int /\ n \in Nat
    /\ s \in [1..n -> Cells]
    /\ IF n = 0 THEN handle <= 0 ELSE handle = s[1]
    /\ \A i \in 1..n : m[s[i]] = IF i = n THEN -1 ELSE s[i + 1]
    /\ \A i, j \in 1..n : s[i] = s[j] => i = j

On(s, n) == {s[i] : i \in 1..n}

\* The walk that Chain describes.
Walk(m, handle) ==
    LET page[k \in 0..Cardinality(Cells)] ==
            IF k = 0 THEN handle
            ELSE LET p == page[k - 1] IN IF p <= 0 THEN 0 ELSE m[p]
    IN  page

\* The walk along a block is the block, and what comes behind it.
Trace(handle, s, n) ==
    [k \in 0..Cardinality(Cells) |->
        IF k < n THEN s[k + 1] ELSE IF k = n THEN IF n = 0 THEN handle ELSE -1 ELSE 0]

\* A block has no more cells than there are.
LEMMA BlockFits ==
    ASSUME NEW m, NEW handle, NEW s, NEW n, Block(m, handle, s, n)
    PROVE  n <= Cardinality(Cells)
<1>1. n \in Nat /\ s \in [1..n -> Cells] /\ \A i, j \in 1..n : s[i] = s[j] => i = j
    BY DEF Block
<1>2. s \in Injection(1..n, Cells)
    BY <1>1 DEF Injection, IsInjective
<1>3. Cardinality(1..n) <= Cardinality(Cells)
    BY <1>2, FS_Injection, Numbered
<1>4. Cardinality(1..n) = n
    BY <1>1, FS_Interval
<1> QED
    BY <1>3, <1>4

Walks(m, handle, t) ==
    /\ DOMAIN t = 0..Cardinality(Cells)
    /\ t = [k \in 0..Cardinality(Cells) |-> t[k]]
    /\ t[0] = handle
    /\ \A k \in 1..Cardinality(Cells) : t[k] = After(m, t[k - 1])

\* A walk is what its description says and nothing else.
LEMMA WalkIs ==
    ASSUME NEW m, NEW handle, NEW t, Walks(m, handle, t)
    PROVE  Walk(m, handle) = t
<1> DEFINE Step(f) == [k \in 0..Cardinality(Cells) |->
                IF k = 0 THEN handle
                ELSE LET p == f[k - 1] IN IF p <= 0 THEN 0 ELSE m[p]]
           N == Cardinality(Cells)
           f == Walk(m, handle)
<1>1. /\ DOMAIN t = 0..N
      /\ t = [k \in 0..N |-> t[k]]
      /\ t[0] = handle
      /\ \A k \in 1..N : t[k] = After(m, t[k - 1])
    BY DEF Walks
<1>2. t = Step(t)
    <2>1. \A k \in 0..N : t[k] = Step(t)[k]
        <3>1. TAKE k \in 0..N
        <3>2. CASE k = 0
            BY <1>1, <3>2
        <3>3. CASE k # 0
            <4>1. k \in 1..N
                BY <3>3, Numbered
            <4> QED
                BY <4>1, <3>3, <1>1 DEF After
        <3> QED
            BY <3>2, <3>3
    <2>2. Step(t) = [k \in 0..N |-> Step(t)[k]]
        OBVIOUS
    <2> HIDE DEF Step
    <2> QED
        BY <2>1, <2>2, <1>1
<1>3. f = CHOOSE x : x = Step(x)
    BY DEF Walk
<1>4. f = Step(f)
    <2> HIDE DEF Step, f
    <2> QED
        BY <1>2, <1>3
<1>5. DOMAIN f = 0..N /\ f = [k \in 0..N |-> f[k]]
    <2> HIDE DEF f
    <2> QED
        BY <1>4
<1>6. f[0] = handle /\ \A k \in 1..N : f[k] = After(m, f[k - 1])
    <2> HIDE DEF f
    <2>1. 0 \in 0..N /\ \A k \in 1..N : k \in 0..N /\ k # 0
        BY Numbered
    <2>2. \A k \in 0..N : Step(f)[k] = IF k = 0 THEN handle ELSE After(m, f[k - 1])
        BY DEF After
    <2> HIDE DEF Step
    <2> QED
        BY <2>1, <2>2, <1>4
<1>7. 0..N \subseteq {k \in 0..N : f[k] = t[k]}
    <2> DEFINE S == {k \in 0..N : f[k] = t[k]}
    <2>1. 0 \in S
        BY <1>1, <1>6, Numbered
    <2>2. ASSUME NEW k \in 0..(N - 1), k \in S PROVE k + 1 \in S
        <3>1. k + 1 \in 1..N /\ (k + 1) - 1 = k /\ k + 1 \in 0..N
            BY Numbered
        <3>2. f[k] = t[k]
            BY <2>2
        <3>3. f[k + 1] = After(m, f[k]) /\ t[k + 1] = After(m, t[k])
            <4> HIDE DEF f
            <4> QED
                BY <1>1, <1>6, <3>1
        <3> QED
            BY <3>1, <3>2, <3>3
    <2>3. N \in Nat
        BY Numbered
    <2>4. 0..N \subseteq S
        <3> HIDE DEF S, N
        <3> QED
            BY <2>1, <2>2, <2>3, UpTo
    <2> QED
        BY <2>4
<1> HIDE DEF f
<1>8. f = t
    BY <1>1, <1>5, <1>7
<1> QED
    BY <1>8 DEF f

\* Chain finds the block of a handle.
LEMMA ChainFound ==
    ASSUME NEW m, NEW handle, NEW s, NEW n, Block(m, handle, s, n)
    PROVE  Chain(m, handle) = s /\ DOMAIN s = 1..n
<1> DEFINE N == Cardinality(Cells)
           t == Trace(handle, s, n)
<1>1. /\ handle \in Int /\ n \in 0..N /\ N \in Nat /\ s \in [1..n -> Cells]
      /\ IF n = 0 THEN handle <= 0 ELSE handle = s[1]
      /\ \A i \in 1..n : m[s[i]] = IF i = n THEN -1 ELSE s[i + 1]
    <2>1. n <= N
        BY BlockFits
    <2>2. N \in Nat
        BY Numbered
    <2> HIDE DEF N
    <2> QED
        BY <2>1, <2>2 DEF Block
<1>2. DOMAIN t = 0..N /\ t = [k \in 0..N |-> t[k]]
    BY DEF Trace
<1>3. t[0] = handle
    BY <1>1 DEF Trace
<1>4. \A k \in 0..N : t[k] = IF k < n THEN s[k + 1]
                             ELSE IF k = n THEN IF n = 0 THEN handle ELSE -1 ELSE 0
    BY DEF Trace
<1>5. \A i \in 1..n : s[i] \in Nat \ {0}
    BY <1>1, Numbered
<1>6. \A k \in 1..N : t[k] = After(m, t[k - 1])
    <2>1. TAKE k \in 1..N
    <2>2. k \in 0..N /\ k - 1 \in 0..N /\ (k - 1) + 1 = k
        BY <1>1
    <2>3. CASE k - 1 < n
        <3>1. t[k - 1] = s[k] /\ k \in 1..n
            BY <2>2, <2>3, <1>4, <1>1
        <3>2. s[k] \in Nat \ {0}
            BY <3>1, <1>5
        <3>3. After(m, s[k]) = m[s[k]]
            BY <3>2 DEF After
        <3>4. m[s[k]] = t[k]
            BY <3>1, <1>1, <1>4, <2>2
        <3> QED
            BY <3>1, <3>3, <3>4
    <2>4. CASE ~ (k - 1 < n)
        <3>1. t[k - 1] <= 0
            BY <2>2, <2>4, <1>4, <1>1
        <3>2. t[k] = 0
            BY <2>2, <2>4, <1>4, <1>1
        <3> QED
            BY <3>1, <3>2 DEF After
    <2> QED
        BY <2>3, <2>4
<1>7. Walk(m, handle) = t
    <2>1. Walks(m, handle, t)
        <3> HIDE DEF t
        <3> QED
            BY <1>2, <1>3, <1>6 DEF Walks
    <2> HIDE DEF t
    <2> QED
        BY <2>1, WalkIs
<1>8. Chain(m, handle) = [k \in {j \in 1..N : t[j - 1] > 0} |-> t[k - 1]]
    <2>1. Chain(m, handle) = [k \in {j \in 1..N : Walk(m, handle)[j - 1] > 0}
                                 |-> Walk(m, handle)[k - 1]]
        BY DEF Chain, Walk
    <2> QED
        BY <2>1, <1>7
<1>9. {j \in 1..N : t[j - 1] > 0} = 1..n
    <2>1. ASSUME NEW j \in 1..N PROVE t[j - 1] > 0 <=> j \in 1..n
        <3>1. j - 1 \in 0..N
            BY <1>1
        <3>2. CASE j - 1 < n
            <4>1. j \in 1..n /\ t[j - 1] = s[j]
                BY <3>1, <3>2, <1>1, <1>4
            <4> QED
                BY <4>1, <1>5
        <3>3. CASE ~ (j - 1 < n)
            <4>1. t[j - 1] <= 0 /\ j \notin 1..n /\ t[j - 1] \in Int
                BY <3>1, <3>3, <1>1, <1>4
            <4> QED
                BY <4>1
        <3> QED
            BY <3>2, <3>3
    <2>2. 1..n \subseteq 1..N
        BY <1>1
    <2> HIDE DEF t
    <2> QED
        BY <2>1, <2>2
<1>10. \A k \in 1..n : t[k - 1] = s[k]
    BY <1>1, <1>4
<1>11. s = [k \in 1..n |-> s[k]] /\ DOMAIN s = 1..n
    BY <1>1
<1> HIDE DEF t
<1> QED
    BY <1>8, <1>9, <1>10, <1>11

-----------------------------------------------------------------------------
(* Taking pages.                                                           *)

\* A cell is a number above 0.
LEMMA CellNumber == \A x \in Cells : x \in Int /\ x \in Nat /\ x > 0
    BY Numbered

\* n cells without repetition.
Distinct(c, n) ==
    /\ n \in Nat
    /\ c \in [1..n -> Cells]
    /\ \A i, j \in 1..n : c[i] = c[j] => i = j

\* Link leaves the other cells alone.
LEMMA LinkElsewhere ==
    ASSUME NEW m, NEW c, NEW n, Distinct(c, n), NEW x \in Cells, x \notin On(c, n)
    PROVE  Link(m, c)[x] = m[x]
<1>1. DOMAIN c = 1..n
    BY DEF Distinct
<1>2. ToSet(c) = On(c, n)
    BY <1>1 DEF ToSet, On
<1> QED
    BY <1>2 DEF Link

\* It leads from each of the cells to the next.
LEMMA LinkWithin ==
    ASSUME NEW m, NEW c, NEW n, Distinct(c, n), NEW i \in 1..n
    PROVE  Link(m, c)[c[i]] = IF i = n THEN -1 ELSE c[i + 1]
<1>1. DOMAIN c = 1..n /\ Len(c) = n /\ c[i] \in Cells
    BY DEF Distinct
<1>2. c[i] \in ToSet(c)
    BY <1>1 DEF ToSet
<1>3. (CHOOSE j \in 1..n : c[j] = c[i]) = i
    BY DEF Distinct
<1>4. (CHOOSE j \in DOMAIN c : c[j] = c[i]) = i
    BY <1>1, <1>3
<1> HIDE DEF Distinct
<1> QED
    BY <1>1, <1>2, <1>4 DEF Link

\* The cells become a block.
LEMMA LinkFacts ==
    ASSUME NEW m \in Array, NEW c, NEW n \in Nat \ {0}, Distinct(c, n)
    PROVE  Link(m, c) \in Array /\ Block(Link(m, c), c[1], c, n)
<1>1. c \in [1..n -> Cells] /\ \A i, j \in 1..n : c[i] = c[j] => i = j
    BY DEF Distinct
<1>2. \A i \in 1..n : Link(m, c)[c[i]] = IF i = n THEN -1 ELSE c[i + 1]
    BY LinkWithin
<1>3. \A x \in Cells : Link(m, c)[x] \in Cells \cup {0, -1, Foreign}
    <2>1. TAKE x \in Cells
    <2>2. CASE x \in On(c, n)
        <3>1. PICK i \in 1..n : x = c[i]
            BY <2>2 DEF On
        <3>2. i # n => i + 1 \in 1..n
            OBVIOUS
        <3>3. i # n => c[i + 1] \in Cells
            BY <3>2, <1>1
        <3> QED
            BY <3>1, <3>3, <1>2
    <2>3. CASE x \notin On(c, n)
        <3>1. Link(m, c)[x] = m[x]
            BY <2>3, LinkElsewhere
        <3> QED
            BY <3>1 DEF Array
    <2> QED
        BY <2>2, <2>3
<1>4. Link(m, c) \in Array
    <2>1. Link(m, c) = [x \in Cells |-> Link(m, c)[x]]
        BY DEF Link
    <2> QED
        BY <2>1, <1>3 DEF Array
<1>5. c[1] \in Int
    <2>1. 1 \in 1..n
        OBVIOUS
    <2>2. c[1] \in Cells
        BY <2>1, <1>1
    <2> HIDE DEF Distinct
    <2> QED
        BY <2>2, CellNumber
<1> QED
    BY <1>1, <1>2, <1>4, <1>5 DEF Block

\* Linking no cells changes nothing.
LEMMA LinkNothing ==
    ASSUME NEW m \in Array
    PROVE  Link(m, <<>>) = m
<1>1. ToSet(<<>>) = {}
    BY DEF ToSet
<1>2. \A x \in Cells : Link(m, <<>>)[x] = m[x]
    BY <1>1 DEF Link
<1>3. Link(m, <<>>) = [x \in Cells |-> Link(m, <<>>)[x]]
    BY DEF Link
<1>4. m = [x \in Cells |-> m[x]]
    BY DEF Array
<1> QED
    BY <1>2, <1>3, <1>4

\* The least element of a set of numbers.
LEMMA MinFacts ==
    ASSUME NEW T, T \subseteq Nat, T # {}
    PROVE  Min(T) \in T /\ \A x \in T : Min(T) <= x
    BY Smallest DEF Min

\* BestMatch gives nothing, or the start of n free pages in a row.
LEMMA BestMatchFacts ==
    ASSUME NEW m, NEW n \in Nat \ {0}, NEW b, b = BestMatch(m, n), b # 0
    PROVE  /\ b \in Nat \ {0}
           /\ \A i \in 1..n : b + i - 1 \in Pages /\ m[b + i - 1] = 0
<1> DEFINE fits == {r \in FreeRuns(m) : r[2] - r[1] + 1 >= n}
           lengths == {r[2] - r[1] : r \in fits}
           starts == {r[1] : r \in {q \in fits : q[2] - q[1] = Min(lengths)}}
<1>1. b = IF fits = {} THEN 0 ELSE Min(starts)
    BY DEF BestMatch
<1>2. fits # {}
    BY <1>1
<1>3. \A r \in fits : /\ r[1] \in Pages /\ r[2] \in Pages /\ r[1] <= r[2]
                      /\ r[2] - r[1] + 1 >= n
                      /\ \A p \in r[1]..r[2] : m[p] = 0
    BY DEF FreeRuns
<1>4. Pages \subseteq Nat \ {0}
    BY Numbered
<1>5. ASSUME NEW r \in fits
      PROVE  r[1] \in Nat \ {0} /\ r[2] \in Nat /\ r[2] - r[1] \in Nat
    <2>1. r[1] \in Pages /\ r[2] \in Pages /\ r[1] <= r[2]
        BY <1>3
    <2>2. r[1] \in Nat \ {0} /\ r[2] \in Nat \ {0}
        BY <2>1, <1>4
    <2> HIDE DEF fits
    <2> QED
        BY <2>1, <2>2
<1>6. lengths \subseteq Nat /\ lengths # {}
    <2>1. \A r \in fits : r[2] - r[1] \in Nat
        BY <1>5
    <2> HIDE DEF fits
    <2> QED
        BY <2>1, <1>2
<1>7. Min(lengths) \in lengths
    <2> HIDE DEF lengths
    <2> QED
        BY <1>6, MinFacts
<1>8. PICK q \in fits : q[2] - q[1] = Min(lengths)
    BY <1>7
<1>9. starts # {} /\ starts \subseteq Nat
    <2> HIDE DEF fits, lengths
    <2> QED
        BY <1>8, <1>3, <1>4
<1>10. Min(starts) \in starts
    <2> HIDE DEF starts
    <2> QED
        BY <1>9, MinFacts
<1>11. PICK r \in fits : b = r[1]
    <2> HIDE DEF fits
    <2> QED
        BY <1>10, <1>1, <1>2
<1> HIDE DEF fits
<1>12. \A i \in 1..n : b + i - 1 \in r[1]..r[2]
    <2>1. r[1] \in Nat /\ r[2] \in Nat /\ r[2] - r[1] + 1 >= n
        BY <1>3, <1>11, <1>5
    <2> QED
        BY <2>1, <1>11
<1>13. r[1]..r[2] \subseteq Pages
    <2>1. r[1] \in Pages /\ r[2] \in Pages
        BY <1>3, <1>11
    <2> QED
        BY <2>1, Numbered DEF Pages
<1> QED
    BY <1>3, <1>4, <1>11, <1>12, <1>13

\* The end of the run of free pages that begins at or before p.
LEMMA RunAround ==
    ASSUME NEW m, NEW p \in Pages, m[p] = 0
    PROVE  FreeRuns(m) # {}
<1> DEFINE A == {a \in Pages : a <= p /\ \A x \in a..p : m[x] = 0}
           B == {b \in Pages : p <= b /\ b + 1 \notin {x \in Pages : m[x] = 0}}
<1>1. Pages \subseteq Nat \ {0} /\ Pages = XMS_START..LastPage
      /\ XMS_START \in Nat /\ LastPage \in Nat
    BY Numbered DEF Pages
<1>2. p \in A /\ A \subseteq Nat
    BY <1>1
<1>3. LastPage \in B /\ B \subseteq Nat
    BY <1>1
<1>4. PICK a \in A : \A x \in A : a <= x
    <2> HIDE DEF A
    <2> QED
        BY <1>2, Smallest
<1>5. PICK b \in B : \A x \in B : b <= x
    <2> HIDE DEF B
    <2> QED
        BY <1>3, Smallest
<1>6. a \in Pages /\ a <= p /\ \A x \in a..p : m[x] = 0
    BY <1>4
<1>7. b \in Pages /\ p <= b /\ (b + 1 \in Pages => m[b + 1] # 0)
    BY <1>5
<1>8. a - 1 \in Pages => m[a - 1] # 0
    <2>1. SUFFICES ASSUME a - 1 \in Pages, m[a - 1] = 0 PROVE FALSE
        OBVIOUS
    <2>2. \A x \in (a - 1)..p : x = a - 1 \/ x \in a..p
        BY <1>1, <1>6
    <2>3. a - 1 \in A
        BY <2>1, <2>2, <1>1, <1>6
    <2> QED
        BY <2>3, <1>4, <1>1, <1>6
<1>9. \A x \in p..b : m[x] = 0
    <2>1. {x \in (p + 1)..b : m[x] # 0} = {}
        <3> DEFINE D == {x \in (p + 1)..b : m[x] # 0}
        <3>1. SUFFICES ASSUME D # {} PROVE FALSE
            OBVIOUS
        <3>2. D \subseteq Nat
            BY <1>1
        <3>3. PICK d \in D : \A x \in D : d <= x
            <4> HIDE DEF D
            <4> QED
                BY <3>1, <3>2, Smallest
        <3>4. d \in (p + 1)..b /\ m[d] # 0
            BY <3>3
        <3>5. d - 1 \in B
            BY <3>4, <1>1, <1>7
        <3> QED
            BY <3>4, <3>5, <1>5, <1>7, <1>1
    <2>2. \A x \in p..b : x = p \/ x \in (p + 1)..b
        BY <1>1, <1>7
    <2> QED
        BY <2>1, <2>2
<1>10. \A x \in a..b : m[x] = 0
    <2>1. \A x \in a..b : x \in a..p \/ x \in p..b
        BY <1>1, <1>6, <1>7
    <2> QED
        BY <2>1, <1>6, <1>9
<1>11. a <= b
    BY <1>1, <1>6, <1>7
<1> HIDE DEF A, B
<1>12. <<a, b>> \in FreeRuns(m)
    BY <1>6, <1>7, <1>8, <1>10, <1>11 DEF FreeRuns
<1> QED
    BY <1>12

\* A free page is found.
LEMMA FreeFound ==
    ASSUME NEW m, NEW p \in Pages, m[p] = 0
    PROVE  BestMatch(m, 1) # 0
<1> DEFINE fits == {r \in FreeRuns(m) : r[2] - r[1] + 1 >= 1}
           lengths == {r[2] - r[1] : r \in fits}
           starts == {r[1] : r \in {q \in fits : q[2] - q[1] = Min(lengths)}}
<1>1. BestMatch(m, 1) = IF fits = {} THEN 0 ELSE Min(starts)
    BY DEF BestMatch
<1>2. Pages \subseteq Nat \ {0}
    BY Numbered
<1>3. \A r \in FreeRuns(m) : r[1] \in Pages /\ r[2] \in Pages /\ r[1] <= r[2]
    BY DEF FreeRuns
<1>4. ASSUME NEW r \in FreeRuns(m)
      PROVE  r[1] \in Nat \ {0} /\ r[2] - r[1] \in Nat /\ r[2] - r[1] + 1 >= 1
    <2>1. r[1] \in Pages /\ r[2] \in Pages /\ r[1] <= r[2]
        BY <1>3
    <2>2. r[1] \in Nat \ {0} /\ r[2] \in Nat \ {0}
        BY <2>1, <1>2
    <2> QED
        BY <2>1, <2>2
<1>5. fits # {}
    <2>1. PICK r \in FreeRuns(m) : TRUE
        BY RunAround
    <2>2. r[2] - r[1] + 1 >= 1
        BY <1>4
    <2> QED
        BY <2>1, <2>2
<1>6. lengths \subseteq Nat /\ lengths # {}
    <2>1. \A r \in fits : r[2] - r[1] \in Nat
        BY <1>4
    <2> HIDE DEF fits
    <2> QED
        BY <2>1, <1>5
<1>7. Min(lengths) \in lengths
    <2> HIDE DEF lengths
    <2> QED
        BY <1>6, MinFacts
<1>8. PICK q \in fits : q[2] - q[1] = Min(lengths)
    BY <1>7
<1>9. starts # {} /\ starts \subseteq Nat \ {0}
    <2>1. \A r \in fits : r[1] \in Nat \ {0}
        BY <1>4
    <2> HIDE DEF fits, lengths
    <2> QED
        BY <1>8, <2>1
<1>10. Min(starts) \in starts
    <2> HIDE DEF starts
    <2> QED
        BY <1>9, MinFacts
<1> HIDE DEF fits, starts
<1> QED
    BY <1>1, <1>5, <1>9, <1>10

-----------------------------------------------------------------------------
(* Scattered allocation.                                                   *)

\* One cell more.
LEMMA AppendFacts ==
    ASSUME NEW c, NEW k \in Nat, Distinct(c, k), NEW x \in Cells, x \notin On(c, k)
    PROVE  /\ Distinct(Append(c, x), k + 1)
           /\ \A i \in 1..k : Append(c, x)[i] = c[i]
           /\ Append(c, x)[k + 1] = x
<1>1. k \in Nat /\ c \in [1..k -> Cells] /\ \A i, j \in 1..k : c[i] = c[j] => i = j
    BY DEF Distinct
<1>2. c \in Seq(Cells) /\ Len(c) = k
    BY <1>1
<1>3. /\ Append(c, x) \in Seq(Cells)
      /\ Len(Append(c, x)) = k + 1
      /\ \A i \in 1..k : Append(c, x)[i] = c[i]
      /\ Append(c, x)[k + 1] = x
    BY <1>2, AppendProperties
<1> DEFINE d == Append(c, x)
<1>4. d \in [1..(k + 1) -> Cells]
    <2>1. d \in [1..Len(d) -> Cells]
        BY <1>3, LenProperties
    <2> QED
        BY <2>1, <1>3
<1> HIDE DEF d
<1>5. \A i \in 1..(k + 1) : d[i] = IF i <= k THEN c[i] ELSE x
    <2>1. TAKE i \in 1..(k + 1)
    <2>2. CASE i <= k
        <3>1. i \in 1..k
            BY <2>2, <1>1
        <3> QED
            BY <2>2, <3>1, <1>3 DEF d
    <2>3. CASE ~ (i <= k)
        <3>1. i = k + 1
            BY <2>3, <1>1
        <3> QED
            BY <2>3, <3>1, <1>3 DEF d
    <2> QED
        BY <2>2, <2>3
<1>6. \A i, j \in 1..(k + 1) : d[i] = d[j] => i = j
    <2>1. TAKE i, j \in 1..(k + 1)
    <2>2. i <= k => i \in 1..k
        BY <1>1
    <2>3. j <= k => j \in 1..k
        BY <1>1
    <2>4. i <= k => c[i] # x
        BY <2>2 DEF On
    <2>5. j <= k => c[j] # x
        BY <2>3 DEF On
    <2>6. ~(i <= k) => i = k + 1
        BY <1>1
    <2>7. ~(j <= k) => j = k + 1
        BY <1>1
    <2> QED
        BY <2>2, <2>3, <2>4, <2>5, <2>6, <2>7, <1>1, <1>5
<1>7. k + 1 \in Nat
    BY <1>1
<1>8. Distinct(d, k + 1)
    BY <1>4, <1>6, <1>7 DEF Distinct
<1> QED
    BY <1>3, <1>8 DEF d

\* The cells taken so far, after k steps of a scattered allocation.
Taken(m, n) ==
    LET take[k \in 0..n] ==
            IF k = 0 THEN <<>>
            ELSE LET c == take[k - 1] IN Append(c, NextTaken(Link(m, c), c))
    IN  take

Grown(m, c) == Append(c, NextTaken(Link(m, c), c))

Takes(m, k, t) ==
    /\ DOMAIN t = 0..k
    /\ t = [j \in 0..k |-> t[j]]
    /\ t[0] = <<>>
    /\ \A j \in 1..k : t[j] = Grown(m, t[j - 1])

\* There is a sequence of such steps of any length.
LEMMA TakesExist ==
    ASSUME NEW m, NEW n \in Nat
    PROVE  \E t : Takes(m, n, t)
<1> DEFINE S == {k \in 0..n : \E t : Takes(m, k, t)}
<1>1. 0 \in S
    <2> DEFINE t == [j \in 0..0 |-> <<>>]
    <2>1. Takes(m, 0, t)
        <3>1. DOMAIN t = 0..0 /\ t = [j \in 0..0 |-> t[j]] /\ t[0] = <<>> /\ 1..0 = {}
            OBVIOUS
        <3> HIDE DEF t
        <3> QED
            BY <3>1 DEF Takes
    <2>2. 0 \in 0..n
        OBVIOUS
    <2> QED
        BY <2>1, <2>2
<1>2. ASSUME NEW k \in 0..(n - 1), k \in S PROVE k + 1 \in S
    <2>1. PICK t : Takes(m, k, t)
        BY <1>2
    <2> DEFINE u == [j \in 0..(k + 1) |-> IF j <= k THEN t[j] ELSE Grown(m, t[k])]
    <2>2. k \in Nat /\ k + 1 \in 0..n
        OBVIOUS
    <2>3. DOMAIN u = 0..(k + 1) /\ u = [j \in 0..(k + 1) |-> u[j]]
        OBVIOUS
    <2>4. u[0] = <<>>
        BY <2>1, <2>2 DEF Takes
    <2>5. \A j \in 1..(k + 1) : u[j] = Grown(m, u[j - 1])
        <3>1. TAKE j \in 1..(k + 1)
        <3>2. CASE j <= k
            <4>1. u[j] = t[j] /\ u[j - 1] = t[j - 1] /\ j \in 1..k
                BY <2>2, <3>2
            <4> QED
                BY <4>1, <2>1 DEF Takes
        <3>3. CASE j = k + 1
            <4>1. u[j] = Grown(m, t[k]) /\ u[j - 1] = t[k]
                BY <2>2, <3>3
            <4> QED
                BY <4>1
        <3> QED
            BY <3>2, <3>3, <2>2
    <2>6. Takes(m, k + 1, u)
        <3> HIDE DEF u
        <3> QED
            BY <2>3, <2>4, <2>5 DEF Takes
    <2> QED
        BY <2>2, <2>6
<1>3. 0..n \subseteq S
    <2> HIDE DEF S
    <2> QED
        BY <1>1, <1>2, UpTo
<1>4. n \in S
    <2> HIDE DEF S
    <2> QED
        BY <1>3
<1> QED
    BY <1>4

\* Scatter takes them.
LEMMA TakenTakes ==
    ASSUME NEW m, NEW n \in Nat
    PROVE  Takes(m, n, Taken(m, n)) /\ Scatter(m, n) = Taken(m, n)[n]
<1> DEFINE Step(f) == [k \in 0..n |->
                IF k = 0 THEN <<>>
                ELSE LET c == f[k - 1] IN Append(c, NextTaken(Link(m, c), c))]
           f == Taken(m, n)
<1>1. PICK t : Takes(m, n, t)
    BY TakesExist
<1>2. DOMAIN t = 0..n /\ t = [j \in 0..n |-> t[j]] /\ t[0] = <<>>
      /\ \A j \in 1..n : t[j] = Grown(m, t[j - 1])
    BY <1>1 DEF Takes
<1>3. t = Step(t)
    <2>1. \A k \in 0..n : t[k] = Step(t)[k]
        <3>1. TAKE k \in 0..n
        <3>2. CASE k = 0
            BY <3>2, <1>2
        <3>3. CASE k # 0
            <4>1. k \in 1..n
                BY <3>3
            <4> QED
                BY <4>1, <3>3, <1>2 DEF Grown
        <3> QED
            BY <3>2, <3>3
    <2>2. Step(t) = [k \in 0..n |-> Step(t)[k]]
        OBVIOUS
    <2> HIDE DEF Step
    <2> QED
        BY <2>1, <2>2, <1>2
<1>4. f = CHOOSE x : x = Step(x)
    BY DEF Taken
<1>5. f = Step(f)
    <2> HIDE DEF Step, f
    <2> QED
        BY <1>3, <1>4
<1>6. DOMAIN f = 0..n /\ f = [k \in 0..n |-> f[k]]
    <2> HIDE DEF f
    <2> QED
        BY <1>5
<1>7. f[0] = <<>> /\ \A k \in 1..n : f[k] = Grown(m, f[k - 1])
    <2> HIDE DEF f
    <2>1. 0 \in 0..n /\ \A k \in 1..n : k \in 0..n /\ k # 0
        OBVIOUS
    <2>2. \A k \in 0..n : Step(f)[k] = IF k = 0 THEN <<>> ELSE Grown(m, f[k - 1])
        BY DEF Grown
    <2> HIDE DEF Step
    <2> QED
        BY <2>1, <2>2, <1>5
<1>8. Takes(m, n, f)
    <2> HIDE DEF f
    <2> QED
        BY <1>6, <1>7 DEF Takes
<1> QED
    BY <1>8 DEF Scatter, Taken

\* As long as fewer cells are taken than pages were free, a page is left.
LEMMA OneLeft ==
    ASSUME NEW m, NEW c, NEW k, Distinct(c, k), k < MEM_FreeTotal(m)
    PROVE  \E p \in Pages : m[p] = 0 /\ p \notin On(c, k)
<1> DEFINE F == {p \in Pages : m[p] = 0}
<1>1. k \in Nat /\ c \in [1..k -> Cells]
    BY DEF Distinct
<1>2. SUFFICES ASSUME F \subseteq On(c, k) PROVE FALSE
    OBVIOUS
<1>3. c \in Surjection(1..k, On(c, k))
    BY <1>1 DEF Surjection, On
<1>4. IsFiniteSet(1..k) /\ Cardinality(1..k) = k
    BY <1>1, FS_Interval
<1>5. IsFiniteSet(On(c, k)) /\ Cardinality(On(c, k)) <= k
    BY <1>3, <1>4, FS_Surjection
<1>6. F \in SUBSET On(c, k)
    BY <1>2
<1>7. Cardinality(F) <= Cardinality(On(c, k)) /\ IsFiniteSet(F)
    <2> HIDE DEF F
    <2> QED
        BY <1>5, <1>6, FS_Subset
<1>8. Cardinality(F) \in Nat /\ Cardinality(On(c, k)) \in Nat
    <2> HIDE DEF F
    <2> QED
        BY <1>5, <1>7, FS_CardinalityType
<1>9. MEM_FreeTotal(m) = Cardinality(F)
    BY DEF MEM_FreeTotal
<1> HIDE DEF F
<1> QED
    BY <1>1, <1>5, <1>7, <1>8, <1>9

\* One step takes a cell that was free.
LEMMA NextFree ==
    ASSUME NEW m \in Array, NEW c, NEW k, Distinct(c, k), k < MEM_FreeTotal(m),
           NEW x, x = NextTaken(Link(m, c), c)
    PROVE  x \in Cells /\ m[x] = 0 /\ x \notin On(c, k)
<1> DEFINE w == Link(m, c)
<1>1. k \in Nat /\ c \in [1..k -> Cells]
    BY DEF Distinct
<1>2. \A y \in Cells : y \in On(c, k) => w[y] # 0
    <2>1. SUFFICES ASSUME NEW i \in 1..k PROVE w[c[i]] # 0
        BY DEF On
    <2>2. w[c[i]] = IF i = k THEN -1 ELSE c[i + 1]
        BY LinkWithin
    <2>3. i # k => c[i + 1] \in Cells
        BY <1>1
    <2>4. 0 \notin Cells
        BY Numbered
    <2> HIDE DEF w
    <2> QED
        BY <2>2, <2>3, <2>4
<1>3. \A y \in Cells : y \notin On(c, k) => w[y] = m[y]
    BY LinkElsewhere
<1>4. x \in Cells /\ w[x] = 0
    <2>1. CASE x = Last(c) + 1 /\ Last(c) + 1 \in Cells /\ w[Last(c) + 1] = 0
        BY <2>1
    <2>2. CASE x = BestMatch(w, 1)
        <3>1. PICK p \in Pages : m[p] = 0 /\ p \notin On(c, k)
            BY OneLeft
        <3>2. w[p] = 0
            BY <3>1, <1>3, Numbered
        <3> HIDE DEF w
        <3>3. x # 0
            BY <2>2, <3>1, <3>2, FreeFound
        <3>4. 1 \in 1..1 /\ 1 \in Nat \ {0}
            OBVIOUS
        <3>5. x \in Nat \ {0} /\ \A i \in 1..1 : x + i - 1 \in Pages /\ w[x + i - 1] = 0
            BY <2>2, <3>3, <3>4, BestMatchFacts
        <3>6. x + 1 - 1 = x
            BY <3>5
        <3>7. x \in Pages /\ w[x] = 0
            BY <3>4, <3>5, <3>6
        <3> QED
            BY <3>7, Numbered
    <2> QED
        BY <2>1, <2>2 DEF NextTaken
<1> HIDE DEF w
<1> QED
    BY <1>2, <1>3, <1>4

\* One step keeps what is taken free and without repetition.
LEMMA TakeOne ==
    ASSUME NEW m \in Array, NEW c, NEW k, Distinct(c, k), k < MEM_FreeTotal(m),
           \A i \in 1..k : m[c[i]] = 0
    PROVE  /\ Distinct(Grown(m, c), k + 1)
           /\ \A i \in 1..(k + 1) : m[Grown(m, c)[i]] = 0
<1>1. PICK x : x = NextTaken(Link(m, c), c)
    OBVIOUS
<1>2. x \in Cells /\ m[x] = 0 /\ x \notin On(c, k)
    BY <1>1, NextFree
<1>3. /\ Distinct(Append(c, x), k + 1)
      /\ \A i \in 1..k : Append(c, x)[i] = c[i]
      /\ Append(c, x)[k + 1] = x
    <2>1. k \in Nat
        BY DEF Distinct
    <2> QED
        BY <1>2, <2>1, AppendFacts
<1>4. Grown(m, c) = Append(c, x)
    BY <1>1 DEF Grown
<1>5. \A i \in 1..(k + 1) : i \in 1..k \/ i = k + 1
    BY DEF Distinct
<1> QED
    BY <1>2, <1>3, <1>4, <1>5

\* A scattered allocation takes n free cells.
LEMMA ScatterFacts ==
    ASSUME NEW m \in Array, NEW n \in Nat, n <= MEM_FreeTotal(m)
    PROVE  /\ Distinct(Scatter(m, n), n)
           /\ \A i \in 1..n : m[Scatter(m, n)[i]] = 0
<1> DEFINE f == Taken(m, n)
           S == {k \in 0..n : Distinct(f[k], k) /\ \A i \in 1..k : m[f[k][i]] = 0}
<1>1. f[0] = <<>> /\ \A j \in 1..n : f[j] = Grown(m, f[j - 1])
    BY TakenTakes DEF Takes
<1>2. MEM_FreeTotal(m) \in Nat
    <2>1. {p \in Pages : m[p] = 0} \in SUBSET Pages
        OBVIOUS
    <2> QED
        BY <2>1, Numbered, FS_Subset, FS_CardinalityType DEF MEM_FreeTotal
<1>3. 0 \in S
    <2>1. Distinct(<<>>, 0)
        BY DEF Distinct
    <2> HIDE DEF f
    <2> QED
        BY <2>1, <1>1
<1>4. ASSUME NEW k \in 0..(n - 1), k \in S PROVE k + 1 \in S
    <2>1. Distinct(f[k], k) /\ \A i \in 1..k : m[f[k][i]] = 0
        BY <1>4
    <2>2. k \in Nat /\ k + 1 \in 1..n /\ (k + 1) - 1 = k /\ k < MEM_FreeTotal(m)
        BY <1>2
    <2> HIDE DEF f, S
    <2>3. f[k + 1] = Grown(m, f[k])
        BY <1>1, <2>2
    <2>4. Distinct(f[k + 1], k + 1) /\ \A i \in 1..(k + 1) : m[f[k + 1][i]] = 0
        BY <2>1, <2>2, <2>3, TakeOne
    <2>5. k + 1 \in 0..n
        BY <2>2
    <2> QED
        BY <2>4, <2>5 DEF S
<1>5. 0..n \subseteq S
    <2> HIDE DEF S
    <2> QED
        BY <1>3, <1>4, UpTo
<1>6. n \in S
    <2> HIDE DEF S
    <2> QED
        BY <1>5
<1>7. Scatter(m, n) = f[n]
    BY TakenTakes
<1> HIDE DEF f
<1> QED
    BY <1>6, <1>7

-----------------------------------------------------------------------------
(* What the functions of memory.cpp do to the array.                       *)

\* The cells of old are given up for the block c, which else takes free ones;
\* what is not in the block is free if it was given up, and else as it was.
Replaces(m, old, m2, handle, c, n) ==
    /\ m2 \in Array
    /\ Block(m2, handle, c, n)
    /\ \A i \in 1..n : c[i] \in old \/ m[c[i]] = 0
    /\ \A x \in Cells : x \notin On(c, n) => m2[x] = IF x \in old THEN 0 ELSE m[x]

\* The cells follow one another.
Row(c, n) == \A i \in 1..n : c[i] = c[1] + i - 1

\* No cell of a block is free.
LEMMA BlockTaken ==
    ASSUME NEW m, NEW handle, NEW s, NEW n, Block(m, handle, s, n)
    PROVE  /\ \A i \in 1..n : m[s[i]] # 0 /\ m[s[i]] # Foreign
           /\ \A x \in On(s, n) : m[x] # 0 /\ m[x] # Foreign
           /\ n = 0 <=> handle <= 0
<1>1. /\ n \in Nat /\ s \in [1..n -> Cells] /\ handle \in Int
      /\ IF n = 0 THEN handle <= 0 ELSE handle = s[1]
      /\ \A i \in 1..n : m[s[i]] = IF i = n THEN -1 ELSE s[i + 1]
    BY DEF Block
<1>2. \A i \in 1..n : m[s[i]] # 0 /\ m[s[i]] # Foreign
    <2>1. TAKE i \in 1..n
    <2>2. i # n => i + 1 \in 1..n
        BY <1>1
    <2>3. i # n => s[i + 1] \in Cells
        BY <2>2, <1>1
    <2>4. i # n => s[i + 1] \in Int /\ s[i + 1] > 0
        BY <2>3, CellNumber
    <2>5. m[s[i]] = IF i = n THEN -1 ELSE s[i + 1]
        BY <1>1
    <2> QED
        BY <2>4, <2>5 DEF Foreign
<1>3. n = 0 <=> handle <= 0
    <2>1. CASE n = 0
        BY <2>1, <1>1
    <2>2. CASE n # 0
        <3>1. 1 \in 1..n /\ handle = s[1]
            BY <2>2, <1>1
        <3>2. s[1] \in Cells
            BY <3>1, <1>1
        <3>3. s[1] \in Int /\ s[1] > 0
            BY <3>2, CellNumber
        <3> QED
            BY <3>1, <3>3, <2>2
    <2> QED
        BY <2>1, <2>2
<1> QED
    BY <1>2, <1>3 DEF On

\* Blocks that are not given up stay.
LEMMA BlockKept ==
    ASSUME NEW m, NEW old, NEW m2, NEW handle, NEW c, NEW n,
           Replaces(m, old, m2, handle, c, n),
           NEW h, NEW s, NEW k, Block(m, h, s, k), \A i \in 1..k : s[i] \notin old
    PROVE  /\ Block(m2, h, s, k)
           /\ \A i \in 1..k : s[i] \notin On(c, n)
<1>1. \A i \in 1..k : s[i] \in Cells /\ m[s[i]] # 0
    <2>1. \A i \in 1..k : m[s[i]] # 0
        BY BlockTaken
    <2>2. \A i \in 1..k : s[i] \in Cells
        BY DEF Block
    <2> QED
        BY <2>1, <2>2
<1>2. \A i \in 1..k : s[i] \notin On(c, n)
    <2>1. SUFFICES ASSUME NEW i \in 1..k, NEW j \in 1..n, s[i] = c[j] PROVE FALSE
        BY DEF On
    <2>2. c[j] \in old \/ m[c[j]] = 0
        BY DEF Replaces
    <2> QED
        BY <2>1, <2>2, <1>1
<1>3. \A i \in 1..k : m2[s[i]] = m[s[i]]
    BY <1>1, <1>2 DEF Replaces
<1> QED
    BY <1>2, <1>3 DEF Block

\* Free cells are linked to a block.
LEMMA LinkReplaces ==
    ASSUME NEW m \in Array, NEW c, NEW n \in Nat \ {0}, Distinct(c, n),
           \A i \in 1..n : m[c[i]] = 0
    PROVE  Replaces(m, {}, Link(m, c), c[1], c, n)
<1>1. Link(m, c) \in Array /\ Block(Link(m, c), c[1], c, n)
    BY LinkFacts
<1>2. \A x \in Cells : x \notin On(c, n) => Link(m, c)[x] = m[x]
    BY LinkElsewhere
<1> QED
    BY <1>1, <1>2 DEF Replaces

\* MEM_AllocatePages hands out n free cells, one after another if asked to, or
\* nothing; with enough free pages a scattered allocation does not fail.
LEMMA AllocateGives ==
    ASSUME NEW m \in Array, NEW n \in Nat, NEW sequence \in BOOLEAN,
           NEW a, a = MEM_AllocatePages(m, n, sequence)
    PROVE  \/ /\ a.handle = 0
              /\ a.m = m
              /\ n > 0 /\ ~sequence => n > MEM_FreeTotal(m)
           \/ /\ n > 0 /\ a.handle \in Cells
              /\ \E c : Replaces(m, {}, a.m, a.handle, c, n) /\ (sequence => Row(c, n))
<1> DEFINE start == BestMatch(m, n)
           row == [i \in 1..n |-> start + i - 1]
           taken == IF n = 0 THEN <<>>
                    ELSE IF sequence
                      THEN IF start = 0 THEN <<>> ELSE row
                      ELSE IF MEM_FreeTotal(m) < n THEN <<>> ELSE Scatter(m, n)
<1>1. a = IF taken = <<>> THEN [handle |-> 0, m |-> m]
          ELSE [handle |-> Head(taken), m |-> Link(m, taken)]
    BY DEF MEM_AllocatePages
<1>2. MEM_FreeTotal(m) \in Nat
    <2>1. {p \in Pages : m[p] = 0} \in SUBSET Pages
        OBVIOUS
    <2> QED
        BY <2>1, Numbered, FS_Subset, FS_CardinalityType DEF MEM_FreeTotal
<1>3. ASSUME n > 0, NEW c, c = taken, Distinct(c, n), \A i \in 1..n : m[c[i]] = 0,
             sequence => Row(c, n)
      PROVE  /\ n > 0 /\ a.handle \in Cells
             /\ Replaces(m, {}, a.m, a.handle, c, n) /\ (sequence => Row(c, n))
    <2> HIDE DEF taken
    <2>1. c \in [1..n -> Cells] /\ n \in Nat \ {0} /\ 1 \in 1..n
        BY <1>3 DEF Distinct
    <2>2. c \in Seq(Cells) /\ Len(c) = n
        BY <2>1
    <2>3. c # <<>>
        BY <2>1, <2>2
    <2>4. Head(c) = c[1] /\ c[1] \in Cells
        BY <2>1, <2>2
    <2>5. a.handle = c[1] /\ a.m = Link(m, c)
        BY <1>1, <1>3, <2>3, <2>4
    <2>6. Replaces(m, {}, Link(m, c), c[1], c, n)
        BY <1>3, <2>1, LinkReplaces
    <2> QED
        BY <1>3, <2>4, <2>5, <2>6
<1>4. CASE taken = <<>> /\ ~(n > 0 /\ ~sequence /\ n <= MEM_FreeTotal(m))
    BY <1>1, <1>2, <1>4
<1>5. CASE n > 0 /\ ~sequence /\ n <= MEM_FreeTotal(m)
    <2>1. taken = Scatter(m, n)
        BY <1>5, <1>2
    <2>2. Distinct(Scatter(m, n), n) /\ \A i \in 1..n : m[Scatter(m, n)[i]] = 0
        BY <1>5, ScatterFacts
    <2> HIDE DEF taken
    <2> QED
        BY <1>3, <1>5, <2>1, <2>2
<1>6. CASE n > 0 /\ sequence /\ start # 0
    <2>1. taken = row
        BY <1>6
    <2>2. /\ start \in Nat \ {0}
          /\ \A i \in 1..n : start + i - 1 \in Pages /\ m[start + i - 1] = 0
        <3> HIDE DEF start
        <3>1. start = BestMatch(m, n) /\ n \in Nat \ {0}
            BY <1>6 DEF start
        <3> QED
            BY <1>6, <3>1, BestMatchFacts
    <2> HIDE DEF taken, start
    <2>3. \A i \in 1..n : row[i] = start + i - 1
        OBVIOUS
    <2>4. row \in [1..n -> Cells]
        BY <2>2, Numbered
    <2>5. \A i, j \in 1..n : row[i] = row[j] => i = j
        BY <2>2, <2>3
    <2>6. Row(row, n)
        <3>1. 1 \in 1..n
            BY <1>6
        <3>2. row[1] = start
            BY <3>1, <2>2, <2>3
        <3> HIDE DEF row
        <3> QED
            BY <3>2, <2>2, <2>3 DEF Row
    <2>7. \A i \in 1..n : m[row[i]] = 0
        BY <2>2, <2>3
    <2> HIDE DEF row
    <2>8. Distinct(row, n)
        BY <2>4, <2>5 DEF Distinct
    <2> QED
        BY <1>3, <1>6, <2>1, <2>6, <2>7, <2>8
<1>7. \/ taken = <<>> /\ ~(n > 0 /\ ~sequence /\ n <= MEM_FreeTotal(m))
      \/ n > 0 /\ ~sequence /\ n <= MEM_FreeTotal(m)
      \/ n > 0 /\ sequence /\ start # 0
    BY <1>2
<1> HIDE DEF taken, start
<1> QED
    BY <1>4, <1>5, <1>6, <1>7

\* MEM_ReleasePages frees the cells of the block.
LEMMA ReleaseIs ==
    ASSUME NEW m \in Array, NEW h, NEW s, NEW n, Block(m, h, s, n)
    PROVE  /\ MEM_ReleasePages(m, h) \in Array
           /\ \A x \in Cells : MEM_ReleasePages(m, h)[x] = IF x \in On(s, n) THEN 0 ELSE m[x]
<1>1. Chain(m, h) = s /\ DOMAIN s = 1..n
    BY ChainFound
<1>2. ToSet(Chain(m, h)) = On(s, n)
    BY <1>1 DEF ToSet, On
<1>3. MEM_ReleasePages(m, h) = [x \in Cells |-> IF x \in On(s, n) THEN 0 ELSE m[x]]
    BY <1>2 DEF MEM_ReleasePages
<1>4. \A x \in Cells : m[x] \in Cells \cup {0, -1, Foreign}
    BY DEF Array
<1> QED
    BY <1>3, <1>4 DEF Array

\* No block at all has any handle that is no cell.
LEMMA NoBlock ==
    ASSUME NEW m, NEW h \in Int, h <= 0
    PROVE  Block(m, h, <<>>, 0) /\ On(<<>>, 0) = {}
BY DEF Block, On

\* Releasing a block is replacing it by no block at all.
LEMMA ReleaseGives ==
    ASSUME NEW m \in Array, NEW h, NEW s, NEW n, Block(m, h, s, n), NEW h2 \in Int, h2 <= 0
    PROVE  Replaces(m, On(s, n), MEM_ReleasePages(m, h), h2, <<>>, 0)
<1>1. 1..0 = {}
    OBVIOUS
<1> QED
    BY <1>1, ReleaseIs, NoBlock DEF Replaces

\* Giving up cells first and linking free ones then.
LEMMA Afresh ==
    ASSUME NEW m, NEW m1, NEW old, \A x \in Cells : m1[x] = IF x \in old THEN 0 ELSE m[x],
           NEW m2, NEW h, NEW c, NEW n, Replaces(m1, {}, m2, h, c, n)
    PROVE  Replaces(m, old, m2, h, c, n)
<1>1. \A i \in 1..n : c[i] \in Cells /\ m1[c[i]] = 0
    BY DEF Replaces, Block
<1>2. \A i \in 1..n : c[i] \in old \/ m[c[i]] = 0
    BY <1>1
<1> QED
    BY <1>2 DEF Replaces

-----------------------------------------------------------------------------
(* Resizing.                                                               *)

\* The first cells of a block.
LEMMA FirstCells ==
    ASSUME NEW s, NEW n \in Nat, Distinct(s, n), NEW k \in 1..n
    PROVE  /\ Distinct(SubSeq(s, 1, k), k)
           /\ \A i \in 1..k : SubSeq(s, 1, k)[i] = s[i]
<1>1. s \in [1..n -> Cells] /\ \A i, j \in 1..n : s[i] = s[j] => i = j
    BY DEF Distinct
<1>2. s \in Seq(Cells) /\ Len(s) = n /\ k \in Nat
    BY <1>1
<1> DEFINE c == SubSeq(s, 1, k)
<1>3. c = [i \in 1..k |-> s[i]]
    <2>1. c = [i \in 1..(k - 1 + 1) |-> s[i + 1 - 1]]
        BY <1>2
    <2>2. \A i \in 1..k : i + 1 - 1 = i
        OBVIOUS
    <2>3. k - 1 + 1 = k
        BY <1>2
    <2> QED
        BY <2>1, <2>2, <2>3
<1>4. \A i \in 1..k : i \in 1..n /\ c[i] = s[i]
    BY <1>3
<1>5. c \in [1..k -> Cells]
    <2>1. \A i \in 1..k : s[i] \in Cells
        BY <1>1, <1>4
    <2> QED
        BY <2>1, <1>3
<1> HIDE DEF c
<1>6. Distinct(c, k)
    BY <1>1, <1>2, <1>4, <1>5 DEF Distinct
<1> QED
    BY <1>4, <1>6 DEF c

\* One sequence behind another.
Then(s, c) == s \o c

\* One list of cells behind another.
LEMMA Joined ==
    ASSUME NEW s, NEW n \in Nat, Distinct(s, n), NEW c, NEW k \in Nat, Distinct(c, k),
           \A i \in 1..n, j \in 1..k : s[i] # c[j]
    PROVE  /\ Distinct(Then(s, c), n + k)
           /\ \A i \in 1..n : Then(s, c)[i] = s[i]
           /\ \A i \in 1..k : Then(s, c)[n + i] = c[i]
           /\ \A i \in 1..(n + k) : i \in 1..n \/ i - n \in 1..k
<1>1. s \in [1..n -> Cells] /\ \A i, j \in 1..n : s[i] = s[j] => i = j
    BY DEF Distinct
<1>2. c \in [1..k -> Cells] /\ \A i, j \in 1..k : c[i] = c[j] => i = j
    BY DEF Distinct
<1>3. s \in Seq(Cells) /\ Len(s) = n /\ c \in Seq(Cells) /\ Len(c) = k
    BY <1>1, <1>2
<1> DEFINE d == Then(s, c)
<1>4. /\ d \in Seq(Cells) /\ Len(d) = n + k
      /\ \A i \in 1..(n + k) : d[i] = IF i <= n THEN s[i] ELSE c[i - n]
    BY <1>3, ConcatProperties DEF Then
<1>5. d \in [1..(n + k) -> Cells]
    BY <1>4, LenProperties
<1> HIDE DEF d
<1>6. \A i \in 1..n : d[i] = s[i]
    BY <1>4
<1>7. \A i \in 1..k : d[n + i] = c[i]
    <2>1. TAKE i \in 1..k
    <2>2. n + i \in 1..(n + k) /\ ~(n + i <= n) /\ n + i - n = i
        OBVIOUS
    <2> QED
        BY <2>2, <1>4
<1>8. \A i \in 1..(n + k) : (i \in 1..n /\ d[i] = s[i]) \/ (i - n \in 1..k /\ d[i] = c[i - n])
    <2>1. TAKE i \in 1..(n + k)
    <2>2. CASE i <= n
        BY <2>2, <1>4
    <2>3. CASE ~(i <= n)
        BY <2>3, <1>4
    <2> QED
        BY <2>2, <2>3
<1>9. \A i, j \in 1..(n + k) : d[i] = d[j] => i = j
    <2>1. SUFFICES ASSUME NEW i \in 1..(n + k), NEW j \in 1..(n + k), d[i] = d[j]
                   PROVE  i = j
        OBVIOUS
    <2>2. (i \in 1..n /\ d[i] = s[i]) \/ (i - n \in 1..k /\ d[i] = c[i - n])
        BY <1>8
    <2>3. (j \in 1..n /\ d[j] = s[j]) \/ (j - n \in 1..k /\ d[j] = c[j - n])
        BY <1>8
    <2>4. i - n = j - n => i = j
        OBVIOUS
    <2> QED
        BY <2>1, <2>2, <2>3, <2>4, <1>1, <1>2
<1>10. Distinct(d, n + k)
    BY <1>5, <1>9 DEF Distinct
<1> QED
    BY <1>6, <1>7, <1>8, <1>10 DEF d

\* The cells of a block are distinct.
LEMMA BlockDistinct ==
    ASSUME NEW m, NEW h, NEW s, NEW n, Block(m, h, s, n)
    PROVE  Distinct(s, n) /\ n \in Nat
BY DEF Block, Distinct

\* A block that shrinks keeps its first cells.
LEMMA ShrinkGives ==
    ASSUME NEW m \in Array, NEW h, NEW s, NEW n, Block(m, h, s, n), NEW k \in 1..n
    PROVE  /\ Replaces(m, On(s, n), Shrink(m, h, k), h, SubSeq(s, 1, k), k)
           /\ \A i \in 1..k : SubSeq(s, 1, k)[i] = s[i]
<1> DEFINE c == SubSeq(s, 1, k)
           m1 == MEM_ReleasePages(m, h)
<1>1. Distinct(s, n) /\ n \in Nat /\ k \in Nat \ {0} /\ 1 \in 1..k
    BY BlockDistinct
<1>2. Distinct(c, k) /\ \A i \in 1..k : c[i] = s[i]
    BY <1>1, FirstCells
<1>3. m1 \in Array /\ \A x \in Cells : m1[x] = IF x \in On(s, n) THEN 0 ELSE m[x]
    BY ReleaseIs
<1>4. \A i \in 1..k : m1[c[i]] = 0
    <2>1. TAKE i \in 1..k
    <2>2. i \in 1..n /\ s[i] \in On(s, n) /\ s[i] \in Cells
        BY <1>1 DEF On, Distinct
    <2> HIDE DEF m1, c
    <2> QED
        BY <2>2, <1>2, <1>3
<1>5. Shrink(m, h, k) = Link(m1, c)
    BY ChainFound DEF Shrink
<1>6. c[1] = h
    BY <1>1, <1>2 DEF Block
<1> HIDE DEF c, m1
<1>7. Replaces(m1, {}, Link(m1, c), c[1], c, k)
    BY <1>1, <1>2, <1>3, <1>4, LinkReplaces
<1>8. Replaces(m, On(s, n), Link(m1, c), h, c, k)
    BY <1>3, <1>6, <1>7, Afresh
<1> QED
    BY <1>2, <1>5, <1>8 DEF c

\* A block of consecutive pages grows into the free pages behind it.
LEMMA GrowGives ==
    ASSUME NEW m \in Array, NEW h, NEW s, NEW n \in Nat \ {0}, Block(m, h, s, n),
           NEW k \in Nat, NEW more, Distinct(more, k), \A i \in 1..k : m[more[i]] = 0
    PROVE  Replaces(m, On(s, n), Link(m, Then(s, more)), h, Then(s, more), n + k)
<1>1. Distinct(s, n)
    BY BlockDistinct
<1>2. \A i \in 1..n, j \in 1..k : s[i] # more[j]
    BY BlockTaken
<1> DEFINE c == Then(s, more)
<1>3. /\ Distinct(c, n + k)
      /\ \A i \in 1..n : c[i] = s[i]
      /\ \A i \in 1..k : c[n + i] = more[i]
      /\ \A i \in 1..(n + k) : i \in 1..n \/ i - n \in 1..k
    BY <1>1, <1>2, Joined
<1> HIDE DEF c
<1>4. n + k \in Nat \ {0} /\ 1 \in 1..n
    OBVIOUS
<1>5. Link(m, c) \in Array /\ Block(Link(m, c), c[1], c, n + k)
    BY <1>3, <1>4, LinkFacts
<1>6. c[1] = h
    BY <1>3, <1>4 DEF Block
<1>7. \A i \in 1..(n + k) : c[i] \in On(s, n) \/ m[c[i]] = 0
    <2>1. TAKE i \in 1..(n + k)
    <2>2. CASE i \in 1..n
        BY <2>2, <1>3 DEF On
    <2>3. CASE i - n \in 1..k
        <3>1. n + (i - n) = i
            OBVIOUS
        <3> QED
            BY <2>3, <3>1, <1>3
    <2> QED
        BY <2>2, <2>3, <1>3
<1>8. \A x \in Cells : x \notin On(c, n + k) => Link(m, c)[x] = m[x]
    BY <1>3, LinkElsewhere
<1>9. On(s, n) \subseteq On(c, n + k)
    <2>1. SUFFICES ASSUME NEW i \in 1..n PROVE s[i] \in On(c, n + k)
        BY DEF On
    <2>2. i \in 1..(n + k)
        OBVIOUS
    <2> QED
        BY <2>2, <1>3 DEF On
<1> QED
    BY <1>5, <1>6, <1>7, <1>8, <1>9 DEF Replaces, c

\* A block that moves: a new one is taken, then the old one freed.
LEMMA MoveGives ==
    ASSUME NEW m \in Array, NEW h, NEW s, NEW n, Block(m, h, s, n),
           NEW m1, NEW h1, NEW c, NEW k, Replaces(m, {}, m1, h1, c, k)
    PROVE  Replaces(m, On(s, n), MEM_ReleasePages(m1, h), h1, c, k)
<1> DEFINE m2 == MEM_ReleasePages(m1, h)
<1>1. Block(m1, h, s, n) /\ \A i \in 1..n : s[i] \notin On(c, k)
    BY BlockKept
<1>2. m1 \in Array
    BY DEF Replaces
<1>3. m2 \in Array /\ \A x \in Cells : m2[x] = IF x \in On(s, n) THEN 0 ELSE m1[x]
    BY <1>1, <1>2, ReleaseIs
<1>4. \A i \in 1..k : c[i] \in Cells /\ c[i] \notin On(s, n)
    <2>1. \A i \in 1..k : c[i] \in Cells /\ c[i] \in On(c, k)
        BY DEF Replaces, Block, On
    <2> QED
        BY <2>1, <1>1 DEF On
<1> HIDE DEF m2
<1>5. Block(m2, h1, c, k)
    <2>1. Block(m1, h1, c, k)
        BY DEF Replaces
    <2>2. \A i \in 1..k : m2[c[i]] = m1[c[i]]
        BY <1>3, <1>4
    <2> QED
        BY <2>1, <2>2 DEF Block
<1>6. \A i \in 1..k : m[c[i]] = 0
    BY DEF Replaces
<1>7. \A x \in Cells : x \notin On(c, k) => m1[x] = m[x]
    BY DEF Replaces
<1>8. \A x \in Cells : x \notin On(c, k) => m2[x] = IF x \in On(s, n) THEN 0 ELSE m[x]
    BY <1>3, <1>7
<1> QED
    BY <1>3, <1>5, <1>6, <1>8 DEF Replaces, m2

\* One cell made to lead somewhere else.
Bent(m, x, y) == [m EXCEPT ![x] = y]

\* A scattered block has new pages chained to its last.
LEMMA ChainGives ==
    ASSUME NEW m \in Array, NEW h, NEW s, NEW n \in Nat \ {0}, Block(m, h, s, n),
           NEW m1, NEW h1, NEW c, NEW k \in Nat \ {0}, Replaces(m, {}, m1, h1, c, k)
    PROVE  /\ Replaces(m, On(s, n), Bent(m1, s[n], h1), h, Then(s, c), n + k)
           /\ \A i \in 1..n : Then(s, c)[i] = s[i]
<1> DEFINE m2 == Bent(m1, s[n], h1)
           d == Then(s, c)
<1>1. Block(m1, h, s, n) /\ \A i \in 1..n : s[i] \notin On(c, k)
    BY BlockKept
<1>2. m1 \in Array /\ Block(m1, h1, c, k)
    BY DEF Replaces
<1>3. \A i \in 1..n, j \in 1..k : s[i] # c[j]
    BY <1>1 DEF On
<1>4. Distinct(s, n) /\ Distinct(c, k)
    BY <1>2, BlockDistinct
<1>5. /\ Distinct(d, n + k)
      /\ \A i \in 1..n : d[i] = s[i]
      /\ \A i \in 1..k : d[n + i] = c[i]
      /\ \A i \in 1..(n + k) : i \in 1..n \/ i - n \in 1..k
    BY <1>3, <1>4, Joined
<1>6. \A i \in 1..n : s[i] \in Cells
    BY <1>1 DEF Block
<1>7. \A i \in 1..k : c[i] \in Cells
    BY <1>2 DEF Block
<1>8. h1 = c[1] /\ h = s[1] /\ 1 \in 1..n /\ n \in 1..n /\ 1 \in 1..k
    BY <1>1, <1>2 DEF Block
<1>9. /\ \A i, j \in 1..n : s[i] = s[j] => i = j
      /\ \A i \in 1..n : m1[s[i]] = IF i = n THEN -1 ELSE s[i + 1]
      /\ \A i \in 1..k : m1[c[i]] = IF i = k THEN -1 ELSE c[i + 1]
    BY <1>1, <1>2 DEF Block
<1>10. /\ m2 \in Array
       /\ m2[s[n]] = h1
       /\ \A x \in Cells : x # s[n] => m2[x] = m1[x]
    BY <1>2, <1>6, <1>7, <1>8 DEF Array, Bent
<1> HIDE DEF m2, d
<1>11. \A i \in 1..(n + k) : m2[d[i]] = IF i = n + k THEN -1 ELSE d[i + 1]
    <2>1. TAKE i \in 1..(n + k)
    <2>2. CASE i = n
        <3>1. d[i] = s[n] /\ i # n + k
            BY <2>2, <1>5, <1>8
        <3>2. d[i + 1] = c[1]
            BY <2>2, <1>5, <1>8
        <3> QED
            BY <3>1, <3>2, <1>8, <1>10
    <2>3. CASE i \in 1..n /\ i # n
        <3>1. i + 1 \in 1..n /\ i # n + k
            BY <2>3
        <3>2. d[i] = s[i] /\ d[i + 1] = s[i + 1]
            BY <2>3, <3>1, <1>5
        <3>3. m2[s[i]] = m1[s[i]]
            <4>1. s[i] # s[n] /\ s[i] \in Cells
                BY <2>3, <1>6, <1>8, <1>9
            <4> QED
                BY <4>1, <1>10
        <3> QED
            BY <2>3, <3>1, <3>2, <3>3, <1>9
    <2>4. CASE i - n \in 1..k
        <3>1. PICK j \in 1..k : j = i - n
            BY <2>4
        <3>2. n + j = i /\ (i = n + k <=> j = k) /\ n + (j + 1) = i + 1
            BY <3>1
        <3>3. j # k => j + 1 \in 1..k
            OBVIOUS
        <3>4. d[i] = c[j] /\ (j # k => d[i + 1] = c[j + 1])
            BY <3>1, <3>2, <3>3, <1>5
        <3>5. m2[c[j]] = m1[c[j]]
            <4>1. c[j] # s[n] /\ c[j] \in Cells
                BY <1>3, <1>7, <1>8
            <4> QED
                BY <4>1, <1>10
        <3> QED
            BY <3>2, <3>4, <3>5, <1>9
    <2> QED
        BY <2>2, <2>3, <2>4, <1>5
<1>12. Block(m2, h, d, n + k)
    <2>1. d[1] = h /\ h \in Int /\ n + k \in Nat /\ n + k # 0
        BY <1>1, <1>5, <1>8 DEF Block
    <2>2. d \in [1..(n + k) -> Cells] /\ \A i, j \in 1..(n + k) : d[i] = d[j] => i = j
        BY <1>5 DEF Distinct
    <2> QED
        BY <2>1, <2>2, <1>11 DEF Block
<1>13. \A i \in 1..(n + k) : d[i] \in On(s, n) \/ m[d[i]] = 0
    <2>1. TAKE i \in 1..(n + k)
    <2>2. CASE i \in 1..n
        BY <2>2, <1>5 DEF On
    <2>3. CASE i - n \in 1..k
        <3>1. n + (i - n) = i
            OBVIOUS
        <3>2. d[i] = c[i - n]
            BY <2>3, <3>1, <1>5
        <3> QED
            BY <2>3, <3>2 DEF Replaces
    <2> QED
        BY <2>2, <2>3, <1>5
<1>14. \A x \in Cells : x \notin On(d, n + k) => x \notin On(s, n) /\ x \notin On(c, k)
    <2>1. \A i \in 1..n : s[i] \in On(d, n + k)
        <3>1. TAKE i \in 1..n
        <3>2. i \in 1..(n + k)
            OBVIOUS
        <3> QED
            BY <3>2, <1>5 DEF On
    <2>2. \A i \in 1..k : c[i] \in On(d, n + k)
        <3>1. TAKE i \in 1..k
        <3>2. n + i \in 1..(n + k)
            OBVIOUS
        <3> QED
            BY <3>2, <1>5 DEF On
    <2> QED
        BY <2>1, <2>2 DEF On
<1>15. \A x \in Cells : x \notin On(d, n + k) => m2[x] = m[x] /\ x \notin On(s, n)
    <2>1. \A x \in Cells : x \notin On(c, k) => m1[x] = m[x]
        BY DEF Replaces
    <2>2. s[n] \in On(s, n)
        BY <1>8 DEF On
    <2> QED
        BY <2>1, <2>2, <1>10, <1>14
<1> QED
    BY <1>5, <1>10, <1>12, <1>13, <1>15 DEF Replaces, m2, d

-----------------------------------------------------------------------------
(* Resizing: what MEM_ReAllocatePages comes to.                            *)

\* A block that stays as it is.
LEMMA StaysGives ==
    ASSUME NEW m \in Array, NEW h, NEW s, NEW n, Block(m, h, s, n)
    PROVE  Replaces(m, On(s, n), m, h, s, n)
BY DEF Replaces, On

\* What resizing a block to n cells comes to.  Where it fails the block stays; a
\* row stays a row if one is asked for, and a scattered block keeps its first cells.
Resizes(m, s, had, n, sequence, r, c, k) ==
    /\ Replaces(m, On(s, had), r.m, r.handle, c, k)
    /\ k = IF r.ok THEN n ELSE had
    /\ sequence /\ Row(s, had) => Row(c, k)
    /\ ~sequence => \A i \in 1..had : i <= k => c[i] = s[i]

\* A row with the cells behind it is a row.
LEMMA RowGrows ==
    ASSUME NEW s, NEW n \in Nat \ {0}, Distinct(s, n), NEW more, NEW k \in Nat, Distinct(more, k),
           \A i \in 1..n, j \in 1..k : s[i] # more[j],
           \A i \in 1..k : more[i] = s[n] + i, Row(s, n)
    PROVE  Row(Then(s, more), n + k)
<1> DEFINE d == Then(s, more)
<1>1. /\ Distinct(d, n + k)
      /\ \A i \in 1..n : d[i] = s[i]
      /\ \A i \in 1..k : d[n + i] = more[i]
      /\ \A i \in 1..(n + k) : i \in 1..n \/ i - n \in 1..k
    BY Joined
<1> HIDE DEF d
<1>2. 1 \in 1..n /\ n \in 1..n
    OBVIOUS
<1>3. s[1] \in Nat /\ s[n] = s[1] + n - 1
    <2>1. s[1] \in Cells
        BY <1>2 DEF Distinct
    <2> QED
        BY <2>1, <1>2, CellNumber DEF Row
<1>4. ASSUME NEW i \in 1..(n + k) PROVE d[i] = d[1] + i - 1
    <2>1. CASE i \in 1..n
        BY <2>1, <1>1, <1>2 DEF Row
    <2>2. CASE i - n \in 1..k
        <3>1. n + (i - n) = i
            OBVIOUS
        <3>2. d[i] = s[n] + (i - n)
            BY <3>1, <2>2, <1>1
        <3> QED
            <4>1. d[1] = s[1]
                BY <1>1, <1>2
            <4> QED
                BY <3>2, <4>1, <1>3
    <2> QED
        BY <2>1, <2>2, <1>1
<1> QED
    BY <1>4 DEF Row, d

\* Extend.
LEMMA ExtendGives ==
    ASSUME NEW m \in Array, NEW h, NEW s, NEW had \in Nat \ {0}, Block(m, h, s, had),
           NEW need \in Nat \ {0}, NEW r, r = Extend(m, h, need)
    PROVE  \E c, k : Resizes(m, s, had, had + need, TRUE, r, c, k)
<1> DEFINE last == s[had]
           more == [i \in 1..need |-> last + i]
           moved == MEM_AllocatePages(m, had + need, TRUE)
<1>1. /\ Chain(m, h) = s /\ DOMAIN s = 1..had /\ s \in [1..had -> Cells]
      /\ had \in 1..had /\ 1 \in 1..had /\ Len(s) = had
    <2>1. s \in [1..had -> Cells]
        BY DEF Block
    <2> QED
        BY <2>1, ChainFound
<1>2. r = IF \A p \in ToSet(more) : p \in Pages /\ m[p] = 0
            THEN [ok |-> TRUE, handle |-> h, m |-> Link(m, s \o more)]
          ELSE IF moved.handle = 0 THEN [ok |-> FALSE, handle |-> h, m |-> m]
          ELSE [ok |-> TRUE, handle |-> moved.handle, m |-> MEM_ReleasePages(moved.m, h)]
    BY <1>1 DEF Extend, Last
<1>3. more = [i \in 1..need |-> more[i]] /\ \A i \in 1..need : more[i] = last + i
    OBVIOUS
<1>4. \A i \in 1..need : more[i] \in ToSet(more)
    BY DEF ToSet
<1>5. last \in Nat
    <2>1. last \in Cells
        BY <1>1
    <2> QED
        BY <2>1, CellNumber
<1>6. moved = MEM_AllocatePages(m, had + need, TRUE)
    OBVIOUS
<1> HIDE DEF moved, more
<1>7. CASE \A p \in ToSet(more) : p \in Pages /\ m[p] = 0
    <2>1. r.ok = TRUE /\ r.handle = h /\ r.m = Link(m, Then(s, more))
        BY <1>2, <1>7 DEF Then
    <2>2. \A i \in 1..need : more[i] \in Cells /\ m[more[i]] = 0
        BY <1>7, <1>4, Numbered
    <2>3. more \in [1..need -> Cells]
        BY <1>3, <2>2
    <2>4. \A i, j \in 1..need : more[i] = more[j] => i = j
        <3> HIDE DEF last
        <3> QED
            BY <1>3, <1>5
    <2>5. Distinct(more, need)
        BY <2>3, <2>4 DEF Distinct
    <2>6. Replaces(m, On(s, had), Link(m, Then(s, more)), h, Then(s, more), had + need)
        BY <2>2, <2>5, GrowGives
    <2>7. Row(s, had) => Row(Then(s, more), had + need)
        <3>1. Distinct(s, had)
            BY BlockDistinct
        <3>2. \A x \in 1..had, y \in 1..need : s[x] # more[y]
            BY <2>2, BlockTaken
        <3> QED
            BY <3>1, <3>2, <2>5, <1>3, RowGrows
    <2> QED
        BY <2>1, <2>6, <2>7 DEF Resizes
<1>8. CASE ~(\A p \in ToSet(more) : p \in Pages /\ m[p] = 0) /\ moved.handle = 0
    <2>1. r.ok = FALSE /\ r.handle = h /\ r.m = m
        BY <1>2, <1>8
    <2>2. Resizes(m, s, had, had + need, TRUE, r, s, had)
        BY <2>1, StaysGives DEF Resizes
    <2> QED
        BY <2>2
<1>9. CASE ~(\A p \in ToSet(more) : p \in Pages /\ m[p] = 0) /\ moved.handle # 0
    <2>1. r.ok = TRUE /\ r.handle = moved.handle /\ r.m = MEM_ReleasePages(moved.m, h)
        BY <1>2, <1>9
    <2>2. had + need \in Nat /\ TRUE \in BOOLEAN
        OBVIOUS
    <2>3. PICK c : Replaces(m, {}, moved.m, moved.handle, c, had + need) /\ Row(c, had + need)
        BY <2>2, <1>6, <1>9, AllocateGives
    <2>4. Replaces(m, On(s, had), MEM_ReleasePages(moved.m, h), moved.handle, c, had + need)
        BY <2>3, MoveGives
    <2>5. Resizes(m, s, had, had + need, TRUE, r, c, had + need)
        BY <2>1, <2>3, <2>4 DEF Resizes
    <2> QED
        BY <2>5
<1> QED
    BY <1>7, <1>8, <1>9

\* Chained.
LEMMA ChainedGives ==
    ASSUME NEW m \in Array, NEW h, NEW s, NEW had \in Nat \ {0}, Block(m, h, s, had),
           NEW need \in Nat \ {0}, NEW r, r = Chained(m, h, need)
    PROVE  \E c, k : Resizes(m, s, had, had + need, FALSE, r, c, k)
<1>1. Chain(m, h) = s /\ s \in [1..had -> Cells] /\ Len(s) = had
    <2>1. s \in [1..had -> Cells]
        BY DEF Block
    <2> QED
        BY <2>1, ChainFound
<1>2. PICK rest : rest = MEM_AllocatePages(m, need, FALSE)
    OBVIOUS
<1>3. r = IF rest.handle = 0 THEN [ok |-> FALSE, handle |-> h, m |-> m]
          ELSE [ok |-> TRUE, handle |-> h, m |-> [rest.m EXCEPT ![s[had]] = rest.handle]]
    BY <1>1, <1>2 DEF Chained, Last
<1>4. CASE rest.handle = 0
    <2>1. r.ok = FALSE /\ r.handle = h /\ r.m = m
        BY <1>3, <1>4
    <2>2. Resizes(m, s, had, had + need, FALSE, r, s, had)
        BY <2>1, StaysGives DEF Resizes
    <2> QED
        BY <2>2
<1>5. CASE rest.handle # 0
    <2>1. FALSE \in BOOLEAN /\ need \in Nat
        OBVIOUS
    <2>2. PICK c : Replaces(m, {}, rest.m, rest.handle, c, need)
        BY <2>1, <1>2, <1>5, AllocateGives
    <2>3. r.ok = TRUE /\ r.handle = h /\ r.m = [rest.m EXCEPT ![s[had]] = rest.handle]
        BY <1>3, <1>5
    <2>4. PICK m1, h1 : m1 = rest.m /\ h1 = rest.handle
        OBVIOUS
    <2>5. Replaces(m, {}, m1, h1, c, need)
        BY <2>2, <2>4
    <2> DEFINE d == Then(s, c)
    <2>6. /\ Replaces(m, On(s, had), Bent(m1, s[had], h1), h, d, had + need)
          /\ \A i \in 1..had : d[i] = s[i]
        BY <2>5, ChainGives
    <2> HIDE DEF d
    <2>7. /\ Replaces(m, On(s, had), r.m, h, d, had + need)
          /\ \A i \in 1..had : d[i] = s[i]
        BY <2>6, <2>4, <2>3 DEF Bent
    <2>8. Resizes(m, s, had, had + need, FALSE, r, d, had + need)
        BY <2>3, <2>7 DEF Resizes
    <2> QED
        BY <2>8
<1> QED
    BY <1>4, <1>5

\* MEM_ReAllocatePages.
LEMMA ReAllocateGives ==
    ASSUME NEW m \in Array, NEW h, NEW s, NEW had, Block(m, h, s, had),
           NEW n \in Nat, NEW sequence \in BOOLEAN,
           NEW r, r = MEM_ReAllocatePages(m, h, n, sequence)
    PROVE  r.ok \in BOOLEAN /\ \E c, k : Resizes(m, s, had, n, sequence, r, c, k)
<1>1. /\ Chain(m, h) = s /\ Len(s) = had /\ had \in Nat /\ h \in Int
      /\ s \in [1..had -> Cells]
    <2>1. s \in [1..had -> Cells] /\ had \in Nat /\ h \in Int
        BY DEF Block
    <2> QED
        BY <2>1, ChainFound
<1>2. had = 0 <=> h <= 0
    BY BlockTaken
<1>3. CASE h <= 0 /\ n = 0
    <2>1. r.ok = TRUE /\ r.handle = h /\ r.m = m
        BY <1>3 DEF MEM_ReAllocatePages
    <2>2. had = 0
        BY <1>2, <1>3
    <2>3. Resizes(m, s, had, n, sequence, r, s, had)
        BY <2>1, <2>2, <1>3, StaysGives DEF Resizes
    <2> QED
        BY <2>1, <2>3
<1>4. CASE h <= 0 /\ n # 0
    <2>1. PICK new : new = MEM_AllocatePages(m, n, sequence)
        OBVIOUS
    <2>2. r.ok = (new.handle # 0) /\ r.handle = new.handle /\ r.m = new.m
        BY <1>4, <2>1 DEF MEM_ReAllocatePages
    <2>3. had = 0 /\ On(s, had) = {}
        BY <1>2, <1>4 DEF On
    <2>4. CASE new.handle = 0 /\ new.m = m
        <3>1. Block(m, 0, s, had)
            BY <2>3, <1>1 DEF Block
        <3>2. Replaces(m, On(s, had), m, 0, s, had)
            BY <3>1, StaysGives
        <3>3. r.ok = FALSE
            BY <2>2, <2>4
        <3>4. Resizes(m, s, had, n, sequence, r, s, had)
            BY <2>2, <2>4, <3>2, <3>3 DEF Resizes
        <3> QED
            BY <3>3, <3>4
    <2>5. CASE /\ new.handle \in Cells
               /\ \E c : Replaces(m, {}, new.m, new.handle, c, n) /\ (sequence => Row(c, n))
        <3>1. PICK c : Replaces(m, {}, new.m, new.handle, c, n) /\ (sequence => Row(c, n))
            BY <2>5
        <3>2. new.handle # 0
            BY <2>5, CellNumber
        <3>3. r.ok = TRUE
            BY <2>2, <3>2
        <3>4. \A i \in 1..had : FALSE
            BY <2>3
        <3>5. Resizes(m, s, had, n, sequence, r, c, n)
            BY <3>1, <3>3, <3>4, <2>2, <2>3 DEF Resizes
        <3> QED
            BY <3>3, <3>5
    <2> QED
        BY <2>1, <2>4, <2>5, AllocateGives
<1>5. CASE ~(h <= 0) /\ n = 0
    <2>1. r.ok = TRUE /\ r.handle = -1 /\ r.m = MEM_ReleasePages(m, h)
        BY <1>5 DEF MEM_ReAllocatePages
    <2>2. -1 \in Int /\ -1 <= 0
        OBVIOUS
    <2>3. Replaces(m, On(s, had), MEM_ReleasePages(m, h), -1, <<>>, 0)
        BY <2>2, ReleaseGives
    <2>4. Row(<<>>, 0)
        BY DEF Row
    <2>5. \A i \in 1..had : ~(i <= 0)
        BY <1>1
    <2>6. Resizes(m, s, had, n, sequence, r, <<>>, 0)
        BY <2>1, <2>3, <2>4, <2>5, <1>5 DEF Resizes
    <2> QED
        BY <2>1, <2>6
<1>6. CASE ~(h <= 0) /\ n # 0 /\ had = n
    <2>1. r.ok = TRUE /\ r.handle = h /\ r.m = m
        BY <1>1, <1>6 DEF MEM_ReAllocatePages
    <2>2. Resizes(m, s, had, n, sequence, r, s, had)
        BY <2>1, <1>6, StaysGives DEF Resizes
    <2> QED
        BY <2>1, <2>2
<1>7. CASE ~(h <= 0) /\ n # 0 /\ had > n
    <2>1. r.ok = TRUE /\ r.handle = h /\ r.m = Shrink(m, h, n)
        BY <1>1, <1>7 DEF MEM_ReAllocatePages
    <2>2. n \in 1..had
        BY <1>1, <1>7
    <2>3. /\ Replaces(m, On(s, had), Shrink(m, h, n), h, SubSeq(s, 1, n), n)
          /\ \A i \in 1..n : SubSeq(s, 1, n)[i] = s[i]
        BY <2>2, ShrinkGives
    <2>4. PICK c : c = SubSeq(s, 1, n)
        OBVIOUS
    <2>5. Row(s, had) => Row(c, n)
        <3>1. \A i \in 1..n : i \in 1..had /\ c[i] = s[i]
            BY <2>2, <2>3, <2>4, <1>1
        <3>2. 1 \in 1..n
            BY <2>2
        <3> QED
            BY <3>1, <3>2 DEF Row
    <2>6. \A i \in 1..had : i <= n => c[i] = s[i]
        <3>1. \A i \in 1..had : i <= n => i \in 1..n
            OBVIOUS
        <3> QED
            BY <3>1, <2>3, <2>4
    <2>7. Resizes(m, s, had, n, sequence, r, c, n)
        BY <2>1, <2>3, <2>4, <2>5, <2>6 DEF Resizes
    <2> QED
        BY <2>1, <2>7
<1>8. CASE ~(h <= 0) /\ n # 0 /\ had < n
    <2>1. r = IF sequence THEN Extend(m, h, n - had) ELSE Chained(m, h, n - had)
        BY <1>1, <1>8 DEF MEM_ReAllocatePages
    <2>2. PICK need \in Nat \ {0} : need = n - had
        BY <1>1, <1>8
    <2>3. had \in Nat \ {0} /\ had + need = n
        BY <1>1, <1>2, <1>8, <2>2
    <2>4. CASE sequence
        <3>1. r = Extend(m, h, need)
            BY <2>1, <2>2, <2>4
        <3>2. PICK c, k : Resizes(m, s, had, had + need, TRUE, r, c, k)
            BY <3>1, <2>3, ExtendGives
        <3>3. r.ok \in BOOLEAN
            BY <3>1 DEF Extend
        <3>4. Resizes(m, s, had, n, sequence, r, c, k)
            BY <3>2, <2>3, <2>4
        <3> QED
            BY <3>3, <3>4
    <2>5. CASE ~sequence
        <3>1. r = Chained(m, h, need)
            BY <2>1, <2>2, <2>5
        <3>2. PICK c, k : Resizes(m, s, had, had + need, FALSE, r, c, k)
            BY <3>1, <2>3, ChainedGives
        <3>3. r.ok \in BOOLEAN
            BY <3>1 DEF Chained
        <3>4. Resizes(m, s, had, n, sequence, r, c, k)
            BY <3>2, <2>3, <2>5
        <3> QED
            BY <3>3, <3>4
    <2> QED
        BY <2>4, <2>5
<1>9. had < n \/ had = n \/ had > n
    BY <1>1
<1> QED
    BY <1>3, <1>4, <1>5, <1>6, <1>7, <1>8, <1>9

-----------------------------------------------------------------------------
(* A ledger of blocks and their owners.                                    *)

\* What the owners in O hold: owner o the block with handle hd[o], of sz[o] cells.
\* No cell has two owners, and one that is not free has one.
Ledger(m, O, hd, sz) ==
    /\ m \in Array
    /\ \A o \in O : Block(m, hd[o], Chain(m, hd[o]), sz[o])
    /\ \A o, q \in O : o # q =>
          \A i \in 1..sz[o], j \in 1..sz[q] : Chain(m, hd[o])[i] # Chain(m, hd[q])[j]
    /\ \A x \in Cells : m[x] \in {0, Foreign}
          \/ \E o \in O : \E i \in 1..sz[o] : Chain(m, hd[o])[i] = x

\* One owner's block is replaced, and the others keep theirs.
Posts(m, O, hd, sz, m2, hd2, sz2, o, c) ==
    /\ Replaces(m, On(Chain(m, hd[o]), sz[o]), m2, hd2[o], c, sz2[o])
    /\ \A q \in O : q # o => hd2[q] = hd[q] /\ sz2[q] = sz[q]

\* When one owner's block is replaced the ledger is right again: that owner holds
\* the new block, and every other owner the block it held.
LEMMA LedgerKept ==
    ASSUME NEW m, NEW O, NEW hd, NEW sz, Ledger(m, O, hd, sz), NEW o \in O,
           NEW m2, NEW hd2, NEW sz2, NEW c, Posts(m, O, hd, sz, m2, hd2, sz2, o, c)
    PROVE  /\ Ledger(m2, O, hd2, sz2)
           /\ Chain(m2, hd2[o]) = c
           /\ \A q \in O : q # o => Chain(m2, hd2[q]) = Chain(m, hd[q])
<1> DEFINE s(q) == Chain(m, hd[q])
           s2(q) == Chain(m2, hd2[q])
<1>1. /\ Replaces(m, On(Chain(m, hd[o]), sz[o]), m2, hd2[o], c, sz2[o])
      /\ \A q \in O : q # o => hd2[q] = hd[q] /\ sz2[q] = sz[q]
    BY DEF Posts
<1>2. /\ \A q \in O : Block(m, hd[q], s(q), sz[q])
      /\ \A p, q \in O : p # q =>
            \A i \in 1..sz[p], j \in 1..sz[q] : s(p)[i] # s(q)[j]
      /\ \A x \in Cells : m[x] \in {0, Foreign}
            \/ \E q \in O : \E i \in 1..sz[q] : s(q)[i] = x
    BY DEF Ledger
<1>3. m2 \in Array /\ Block(m2, hd2[o], c, sz2[o])
    BY <1>1 DEF Replaces
<1>4. s2(o) = c
    BY <1>3, ChainFound
<1>5. ASSUME NEW q \in O, q # o
      PROVE  /\ Block(m2, hd[q], s(q), sz[q]) /\ s2(q) = s(q) /\ sz2[q] = sz[q] /\ hd2[q] = hd[q]
             /\ \A i \in 1..sz[q] : s(q)[i] \notin On(c, sz2[o])
    <2>1. Block(m, hd[q], s(q), sz[q])
        BY <1>2
    <2>2. \A i \in 1..sz[q] : s(q)[i] \notin On(s(o), sz[o])
        BY <1>2, <1>5 DEF On
    <2> HIDE DEF s
    <2>3. Block(m2, hd[q], s(q), sz[q]) /\ \A i \in 1..sz[q] : s(q)[i] \notin On(c, sz2[o])
        BY <1>1, <2>1, <2>2, BlockKept DEF s
    <2>4. hd2[q] = hd[q] /\ sz2[q] = sz[q]
        BY <1>5, <1>1
    <2>5. s2(q) = s(q)
        BY <2>3, <2>4, ChainFound
    <2> QED
        BY <2>3, <2>4, <2>5
<1> HIDE DEF s, s2
<1>6. \A q \in O : Block(m2, hd2[q], s2(q), sz2[q])
    BY <1>3, <1>4, <1>5
<1>7. ASSUME NEW p \in O, NEW q \in O, p # q, NEW i \in 1..sz2[p], NEW j \in 1..sz2[q]
      PROVE  s2(p)[i] # s2(q)[j]
    <2>1. CASE p = o
        <3>1. s2(p)[i] \in On(c, sz2[o])
            BY <2>1, <1>4, <1>7 DEF On
        <3>2. s2(q)[j] \notin On(c, sz2[o])
            BY <2>1, <1>5, <1>7
        <3> QED
            BY <3>1, <3>2
    <2>2. CASE q = o
        <3>1. s2(q)[j] \in On(c, sz2[o])
            BY <2>2, <1>4, <1>7 DEF On
        <3>2. s2(p)[i] \notin On(c, sz2[o])
            BY <2>2, <1>5, <1>7
        <3> QED
            BY <3>1, <3>2
    <2>3. CASE p # o /\ q # o
        BY <2>3, <1>2, <1>5, <1>7
    <2> QED
        BY <2>1, <2>2, <2>3
<1>8. ASSUME NEW x \in Cells, m2[x] \notin {0, Foreign}
      PROVE  \E q \in O : \E i \in 1..sz2[q] : s2(q)[i] = x
    <2>1. CASE x \in On(c, sz2[o])
        BY <2>1, <1>4 DEF On
    <2>2. CASE x \notin On(c, sz2[o])
        <3>1. x \notin On(s(o), sz[o]) /\ m2[x] = m[x]
            BY <1>8, <1>1, <2>2 DEF Replaces, s
        <3>2. PICK q \in O : \E i \in 1..sz[q] : s(q)[i] = x
            BY <3>1, <1>2, <1>8
        <3>3. q # o
            BY <3>1, <3>2 DEF On
        <3> QED
            BY <3>2, <3>3, <1>5
    <2> QED
        BY <2>1, <2>2
<1>9. Ledger(m2, O, hd2, sz2)
    BY <1>3, <1>6, <1>7, <1>8 DEF Ledger, s2
<1> QED
    BY <1>4, <1>5, <1>9 DEF s, s2

-----------------------------------------------------------------------------
(* The users of the memory.                                                *)

XmsOwner(h) == <<"xms", h>>
EmsOwner(h) == <<"ems", h>>
VcpiOwner(p) == <<"vcpi", p>>

\* A handle of extended memory, a handle of expanded memory, a page a guest holds.
Holders ==
    {XmsOwner(h) : h \in XmsHandles} \cup {EmsOwner(h) : h \in EmsHandles}
      \cup {VcpiOwner(p) : p \in Cells}

\* The cells of a handle with so many logical pages.
CellsFor(pages) == IF pages = NULL_HANDLE THEN 0 ELSE pages * PerPage

\* The block of each owner, with the handles xh and eh and the pages vp, and its size.
HeldBy(xh, eh, vp) ==
    [o \in Holders |-> IF o[1] = "xms" THEN xh[o[2]].mem
                      ELSE IF o[1] = "ems" THEN eh[o[2]].mem
                      ELSE IF o[2] \in vp THEN o[2] ELSE 0]
AmountOf(xh, eh, vp) ==
    [o \in Holders |-> IF o[1] = "xms" THEN PagesFor(xh[o[2]].size)
                      ELSE IF o[1] = "ems" THEN CellsFor(eh[o[2]].pages)
                      ELSE IF o[2] \in vp THEN 1 ELSE 0]

\* The owners are these, and all different.
LEMMA OwnerFacts ==
    /\ \A h \in XmsHandles : XmsOwner(h) \in Holders
    /\ \A h \in EmsHandles : EmsOwner(h) \in Holders
    /\ \A p \in Cells : VcpiOwner(p) \in Holders
    /\ \A o \in Holders : \/ \E h \in XmsHandles : o = XmsOwner(h)
                          \/ \E h \in EmsHandles : o = EmsOwner(h)
                          \/ \E p \in Cells : o = VcpiOwner(p)
    /\ \A g, h : XmsOwner(g) = XmsOwner(h) => g = h
    /\ \A g, h : EmsOwner(g) = EmsOwner(h) => g = h
    /\ \A g, h : VcpiOwner(g) = VcpiOwner(h) => g = h
    /\ \A g, h : /\ XmsOwner(g) # EmsOwner(h)
                 /\ XmsOwner(g) # VcpiOwner(h)
                 /\ EmsOwner(g) # VcpiOwner(h)
<1>1. /\ \A h \in XmsHandles : XmsOwner(h) \in Holders
      /\ \A h \in EmsHandles : EmsOwner(h) \in Holders
      /\ \A p \in Cells : VcpiOwner(p) \in Holders
    BY DEF Holders
<1>2. \A o \in Holders : \/ \E h \in XmsHandles : o = XmsOwner(h)
                         \/ \E h \in EmsHandles : o = EmsOwner(h)
                         \/ \E p \in Cells : o = VcpiOwner(p)
    <2>1. TAKE o \in Holders
    <2>2. CASE o \in {XmsOwner(h) : h \in XmsHandles}
        BY <2>2
    <2>3. CASE o \in {EmsOwner(h) : h \in EmsHandles}
        BY <2>3
    <2>4. CASE o \in {VcpiOwner(p) : p \in Cells}
        BY <2>4
    <2> QED
        BY <2>2, <2>3, <2>4 DEF Holders
<1>3. /\ \A g, h : XmsOwner(g) = XmsOwner(h) => g = h
      /\ \A g, h : EmsOwner(g) = EmsOwner(h) => g = h
      /\ \A g, h : VcpiOwner(g) = VcpiOwner(h) => g = h
    BY DEF XmsOwner, EmsOwner, VcpiOwner
<1>4. \A g, h : /\ XmsOwner(g) # EmsOwner(h)
                /\ XmsOwner(g) # VcpiOwner(h)
                /\ EmsOwner(g) # VcpiOwner(h)
    BY DEF XmsOwner, EmsOwner, VcpiOwner
<1> QED
    BY <1>1, <1>2, <1>3, <1>4

\* What each owner holds, read from the tables it is kept in.
LEMMA HeldFacts ==
    ASSUME NEW xh, NEW eh, NEW vp
    PROVE  /\ \A h \in XmsHandles : /\ HeldBy(xh, eh, vp)[XmsOwner(h)] = xh[h].mem
                                    /\ AmountOf(xh, eh, vp)[XmsOwner(h)] = PagesFor(xh[h].size)
           /\ \A h \in EmsHandles : /\ HeldBy(xh, eh, vp)[EmsOwner(h)] = eh[h].mem
                                    /\ AmountOf(xh, eh, vp)[EmsOwner(h)] = CellsFor(eh[h].pages)
           /\ \A p \in Cells : /\ HeldBy(xh, eh, vp)[VcpiOwner(p)] = IF p \in vp THEN p ELSE 0
                               /\ AmountOf(xh, eh, vp)[VcpiOwner(p)] = IF p \in vp THEN 1 ELSE 0
<1>1. ASSUME NEW h \in XmsHandles
      PROVE  /\ HeldBy(xh, eh, vp)[XmsOwner(h)] = xh[h].mem
             /\ AmountOf(xh, eh, vp)[XmsOwner(h)] = PagesFor(xh[h].size)
    <2>1. XmsOwner(h) \in Holders
        BY OwnerFacts
    <2>2. XmsOwner(h)[1] = "xms" /\ XmsOwner(h)[2] = h
        BY DEF XmsOwner
    <2> QED
        BY <2>1, <2>2 DEF HeldBy, AmountOf
<1>2. ASSUME NEW h \in EmsHandles
      PROVE  /\ HeldBy(xh, eh, vp)[EmsOwner(h)] = eh[h].mem
             /\ AmountOf(xh, eh, vp)[EmsOwner(h)] = CellsFor(eh[h].pages)
    <2>1. EmsOwner(h) \in Holders
        BY OwnerFacts
    <2>2. EmsOwner(h)[1] = "ems" /\ EmsOwner(h)[2] = h
        BY DEF EmsOwner
    <2> QED
        BY <2>1, <2>2 DEF HeldBy, AmountOf
<1>3. ASSUME NEW p \in Cells
      PROVE  /\ HeldBy(xh, eh, vp)[VcpiOwner(p)] = IF p \in vp THEN p ELSE 0
             /\ AmountOf(xh, eh, vp)[VcpiOwner(p)] = IF p \in vp THEN 1 ELSE 0
    <2>1. VcpiOwner(p) \in Holders
        BY OwnerFacts
    <2>2. VcpiOwner(p)[1] = "vcpi" /\ VcpiOwner(p)[2] = p
        BY DEF VcpiOwner
    <2> QED
        BY <2>1, <2>2 DEF HeldBy, AmountOf
<1> QED
    BY <1>1, <1>2, <1>3

\* What the three users hold.
Books(m, xh, eh, vp) == Ledger(m, Holders, HeldBy(xh, eh, vp), AmountOf(xh, eh, vp))

\* Two functions that differ at h at most.
Alike(S, h, f, g) == \A x \in S : x # h => g[x] = f[x]

XmsSwap(m, xh, h, m2, xh2, c) ==
    Replaces(m, On(Chain(m, xh[h].mem), PagesFor(xh[h].size)),
             m2, xh2[h].mem, c, PagesFor(xh2[h].size))
EmsSwap(m, eh, h, m2, eh2, c) ==
    Replaces(m, On(Chain(m, eh[h].mem), CellsFor(eh[h].pages)),
             m2, eh2[h].mem, c, CellsFor(eh2[h].pages))

\* A call for a block of extended memory changes that block and no other.
LEMMA XmsReplaced ==
    ASSUME NEW m, NEW xh, NEW eh, NEW vp, Books(m, xh, eh, vp),
           NEW m2, NEW xh2, NEW h \in XmsHandles,
           Alike(XmsHandles, h, xh, xh2),
           NEW c, XmsSwap(m, xh, h, m2, xh2, c)
    PROVE  /\ Books(m2, xh2, eh, vp)
           /\ Chain(m2, xh2[h].mem) = c
           /\ \A g \in XmsHandles : g # h => Chain(m2, xh2[g].mem) = Chain(m, xh[g].mem)
           /\ \A g \in EmsHandles : Chain(m2, eh[g].mem) = Chain(m, eh[g].mem)
<1>1. PICK hd, sz : hd = HeldBy(xh, eh, vp) /\ sz = AmountOf(xh, eh, vp)
    OBVIOUS
<1>2. PICK hd2, sz2 : hd2 = HeldBy(xh2, eh, vp) /\ sz2 = AmountOf(xh2, eh, vp)
    OBVIOUS
<1>3. PICK o \in Holders : o = XmsOwner(h)
    BY OwnerFacts
<1>4. hd[o] = xh[h].mem /\ sz[o] = PagesFor(xh[h].size)
    BY <1>1, <1>3, HeldFacts
<1>5. hd2[o] = xh2[h].mem /\ sz2[o] = PagesFor(xh2[h].size)
    BY <1>2, <1>3, HeldFacts
<1>6. \A q \in Holders : q # o => hd2[q] = hd[q] /\ sz2[q] = sz[q]
    BY <1>1, <1>2, <1>3, HeldFacts, OwnerFacts DEF Alike
<1>7. Ledger(m, Holders, hd, sz)
    BY <1>1 DEF Books
<1>8. Posts(m, Holders, hd, sz, m2, hd2, sz2, o, c)
    BY <1>4, <1>5, <1>6 DEF Posts, XmsSwap
<1>9. /\ Ledger(m2, Holders, hd2, sz2)
      /\ Chain(m2, hd2[o]) = c
      /\ \A q \in Holders : q # o => Chain(m2, hd2[q]) = Chain(m, hd[q])
    BY <1>7, <1>8, LedgerKept
<1>10. ASSUME NEW g \in XmsHandles, g # h PROVE Chain(m2, xh2[g].mem) = Chain(m, xh[g].mem)
    <2>1. XmsOwner(g) \in Holders /\ XmsOwner(g) # o
        BY <1>3, <1>10, OwnerFacts
    <2>2. hd[XmsOwner(g)] = xh[g].mem /\ hd2[XmsOwner(g)] = xh2[g].mem
        BY <1>1, <1>2, HeldFacts DEF Alike
    <2> QED
        BY <2>1, <2>2, <1>9
<1>11. ASSUME NEW g \in EmsHandles PROVE Chain(m2, eh[g].mem) = Chain(m, eh[g].mem)
    <2>1. EmsOwner(g) \in Holders /\ EmsOwner(g) # o
        BY <1>3, OwnerFacts
    <2>2. hd[EmsOwner(g)] = eh[g].mem /\ hd2[EmsOwner(g)] = eh[g].mem
        BY <1>1, <1>2, HeldFacts DEF Alike
    <2> QED
        BY <2>1, <2>2, <1>9
<1> QED
    BY <1>2, <1>5, <1>9, <1>10, <1>11 DEF Books

\* So does a call for a handle of expanded memory.
LEMMA EmsReplaced ==
    ASSUME NEW m, NEW xh, NEW eh, NEW vp, Books(m, xh, eh, vp),
           NEW m2, NEW eh2, NEW h \in EmsHandles,
           Alike(EmsHandles, h, eh, eh2),
           NEW c, EmsSwap(m, eh, h, m2, eh2, c)
    PROVE  /\ Books(m2, xh, eh2, vp)
           /\ Chain(m2, eh2[h].mem) = c
           /\ \A g \in EmsHandles : g # h => Chain(m2, eh2[g].mem) = Chain(m, eh[g].mem)
           /\ \A g \in XmsHandles : Chain(m2, xh[g].mem) = Chain(m, xh[g].mem)
<1>1. PICK hd, sz : hd = HeldBy(xh, eh, vp) /\ sz = AmountOf(xh, eh, vp)
    OBVIOUS
<1>2. PICK hd2, sz2 : hd2 = HeldBy(xh, eh2, vp) /\ sz2 = AmountOf(xh, eh2, vp)
    OBVIOUS
<1>3. PICK o \in Holders : o = EmsOwner(h)
    BY OwnerFacts
<1>4. hd[o] = eh[h].mem /\ sz[o] = CellsFor(eh[h].pages)
    BY <1>1, <1>3, HeldFacts
<1>5. hd2[o] = eh2[h].mem /\ sz2[o] = CellsFor(eh2[h].pages)
    BY <1>2, <1>3, HeldFacts
<1>6. \A q \in Holders : q # o => hd2[q] = hd[q] /\ sz2[q] = sz[q]
    BY <1>1, <1>2, <1>3, HeldFacts, OwnerFacts DEF Alike
<1>7. Ledger(m, Holders, hd, sz)
    BY <1>1 DEF Books
<1>8. Posts(m, Holders, hd, sz, m2, hd2, sz2, o, c)
    BY <1>4, <1>5, <1>6 DEF Posts, EmsSwap
<1>9. /\ Ledger(m2, Holders, hd2, sz2)
      /\ Chain(m2, hd2[o]) = c
      /\ \A q \in Holders : q # o => Chain(m2, hd2[q]) = Chain(m, hd[q])
    BY <1>7, <1>8, LedgerKept
<1>10. ASSUME NEW g \in EmsHandles, g # h PROVE Chain(m2, eh2[g].mem) = Chain(m, eh[g].mem)
    <2>1. EmsOwner(g) \in Holders /\ EmsOwner(g) # o
        BY <1>3, <1>10, OwnerFacts
    <2>2. hd[EmsOwner(g)] = eh[g].mem /\ hd2[EmsOwner(g)] = eh2[g].mem
        BY <1>1, <1>2, HeldFacts DEF Alike
    <2> QED
        BY <2>1, <2>2, <1>9
<1>11. ASSUME NEW g \in XmsHandles PROVE Chain(m2, xh[g].mem) = Chain(m, xh[g].mem)
    <2>1. XmsOwner(g) \in Holders /\ XmsOwner(g) # o
        BY <1>3, OwnerFacts
    <2>2. hd[XmsOwner(g)] = xh[g].mem /\ hd2[XmsOwner(g)] = xh[g].mem
        BY <1>1, <1>2, HeldFacts DEF Alike
    <2> QED
        BY <2>1, <2>2, <1>9
<1> QED
    BY <1>2, <1>5, <1>9, <1>10, <1>11 DEF Books

VcpiSwap(m, vp, p, m2, vp2, c) ==
    Replaces(m, IF p \in vp THEN {p} ELSE {}, m2,
             IF p \in vp2 THEN p ELSE 0, c, IF p \in vp2 THEN 1 ELSE 0)

\* And one for a page of VCPI.
LEMMA VcpiReplaced ==
    ASSUME NEW m, NEW xh, NEW eh, NEW vp, Books(m, xh, eh, vp),
           NEW m2, NEW vp2, NEW p \in Cells,
           \A g \in Cells : g # p => (g \in vp2 <=> g \in vp),
           NEW c, VcpiSwap(m, vp, p, m2, vp2, c)
    PROVE  /\ Books(m2, xh, eh, vp2)
           /\ \A g \in EmsHandles : Chain(m2, eh[g].mem) = Chain(m, eh[g].mem)
           /\ \A g \in XmsHandles : Chain(m2, xh[g].mem) = Chain(m, xh[g].mem)
<1>1. PICK hd, sz : hd = HeldBy(xh, eh, vp) /\ sz = AmountOf(xh, eh, vp)
    OBVIOUS
<1>2. PICK hd2, sz2 : hd2 = HeldBy(xh, eh, vp2) /\ sz2 = AmountOf(xh, eh, vp2)
    OBVIOUS
<1>3. PICK o \in Holders : o = VcpiOwner(p)
    BY OwnerFacts
<1>4. hd[o] = (IF p \in vp THEN p ELSE 0) /\ sz[o] = (IF p \in vp THEN 1 ELSE 0)
    BY <1>1, <1>3, HeldFacts
<1>5. hd2[o] = (IF p \in vp2 THEN p ELSE 0) /\ sz2[o] = (IF p \in vp2 THEN 1 ELSE 0)
    BY <1>2, <1>3, HeldFacts
<1>6. \A q \in Holders : q # o => hd2[q] = hd[q] /\ sz2[q] = sz[q]
    BY <1>1, <1>2, <1>3, HeldFacts, OwnerFacts
<1>7. Ledger(m, Holders, hd, sz)
    BY <1>1 DEF Books
<1>8. On(Chain(m, hd[o]), sz[o]) = IF p \in vp THEN {p} ELSE {}
    <2>1. Block(m, hd[o], Chain(m, hd[o]), sz[o])
        BY <1>7 DEF Ledger
    <2>2. CASE p \in vp
        <3>1. hd[o] = p /\ sz[o] = 1
            BY <1>4, <2>2
        <3>2. Chain(m, hd[o])[1] = p
            BY <2>1, <3>1 DEF Block
        <3> QED
            BY <2>2, <3>1, <3>2 DEF On
    <2>3. CASE p \notin vp
        BY <2>3, <1>4 DEF On
    <2> QED
        BY <2>2, <2>3
<1>9. Posts(m, Holders, hd, sz, m2, hd2, sz2, o, c)
    BY <1>5, <1>6, <1>8 DEF Posts, VcpiSwap
<1>10. /\ Ledger(m2, Holders, hd2, sz2)
       /\ \A q \in Holders : q # o => Chain(m2, hd2[q]) = Chain(m, hd[q])
    BY <1>7, <1>9, LedgerKept
<1>11. ASSUME NEW g \in XmsHandles PROVE Chain(m2, xh[g].mem) = Chain(m, xh[g].mem)
    <2>1. XmsOwner(g) \in Holders /\ XmsOwner(g) # o
        BY <1>3, OwnerFacts
    <2>2. hd[XmsOwner(g)] = xh[g].mem /\ hd2[XmsOwner(g)] = xh[g].mem
        BY <1>1, <1>2, HeldFacts
    <2> QED
        BY <2>1, <2>2, <1>10
<1>12. ASSUME NEW g \in EmsHandles PROVE Chain(m2, eh[g].mem) = Chain(m, eh[g].mem)
    <2>1. EmsOwner(g) \in Holders /\ EmsOwner(g) # o
        BY <1>3, OwnerFacts
    <2>2. hd[EmsOwner(g)] = eh[g].mem /\ hd2[EmsOwner(g)] = eh[g].mem
        BY <1>1, <1>2, HeldFacts
    <2> QED
        BY <2>1, <2>2, <1>10
<1> QED
    BY <1>2, <1>10, <1>11, <1>12 DEF Books

-----------------------------------------------------------------------------
(* The inductive invariant.                                                *)

Mappings == {Unmapped} \cup [handle : EmsHandles, page : Nat]
Maps == {NoMap} \cup UNION {[listed -> Mappings] : listed \in SUBSET Slots}

Typed ==
    /\ xms_handles \in [XmsHandles -> [size : Nat, mem : Int, locked : Nat, free : BOOLEAN]]
    /\ emm_handles \in [EmsHandles -> [pages : Nat \cup {NULL_HANDLE}, mem : Int, saved : Maps]]
    /\ emm_mappings \in [Slots -> Mappings]
    /\ DOMAIN firstmb = Slots
    /\ context \in Maps
    /\ vcpiPages \subseteq Cells

\* A block of extended memory is a row; a handle that is free has none.
XmsRows ==
    \A h \in XmsHandles :
        /\ Row(XmsPages(h), PagesFor(xms_handles[h].size))
        /\ xms_handles[h].free => xms_handles[h].size = 0

IInv ==
    /\ Typed
    /\ Books(mhandles, xms_handles, emm_handles, vcpiPages)
    /\ XmsRows

\* What the books say of each handle.
LEMMA Blocks ==
    ASSUME NEW m, NEW xh, NEW eh, NEW vp, Books(m, xh, eh, vp)
    PROVE  /\ m \in Array
           /\ \A h \in XmsHandles :
                 Block(m, xh[h].mem, Chain(m, xh[h].mem), PagesFor(xh[h].size))
           /\ \A h \in EmsHandles :
                 Block(m, eh[h].mem, Chain(m, eh[h].mem), CellsFor(eh[h].pages))
           /\ \A p \in vp \cap Cells : m[p] = -1 /\ Block(m, p, Chain(m, p), 1)
<1>1. PICK hd, sz : hd = HeldBy(xh, eh, vp) /\ sz = AmountOf(xh, eh, vp)
    OBVIOUS
<1>2. m \in Array /\ \A o \in Holders : Block(m, hd[o], Chain(m, hd[o]), sz[o])
    BY <1>1 DEF Books, Ledger
<1>3. ASSUME NEW h \in XmsHandles
      PROVE  Block(m, xh[h].mem, Chain(m, xh[h].mem), PagesFor(xh[h].size))
    <2>1. PICK o \in Holders : o = XmsOwner(h)
        BY OwnerFacts
    <2>2. hd[o] = xh[h].mem /\ sz[o] = PagesFor(xh[h].size)
        BY <1>1, <2>1, HeldFacts
    <2> QED
        BY <1>2, <2>2
<1>4. ASSUME NEW h \in EmsHandles
      PROVE  Block(m, eh[h].mem, Chain(m, eh[h].mem), CellsFor(eh[h].pages))
    <2>1. PICK o \in Holders : o = EmsOwner(h)
        BY OwnerFacts
    <2>2. hd[o] = eh[h].mem /\ sz[o] = CellsFor(eh[h].pages)
        BY <1>1, <2>1, HeldFacts
    <2> QED
        BY <1>2, <2>2
<1>5. ASSUME NEW p \in vp \cap Cells PROVE m[p] = -1 /\ Block(m, p, Chain(m, p), 1)
    <2>1. PICK o \in Holders : o = VcpiOwner(p)
        BY OwnerFacts
    <2>2. hd[o] = p /\ sz[o] = 1
        BY <1>1, <2>1, HeldFacts
    <2>3. Block(m, p, Chain(m, p), 1)
        BY <1>2, <2>2
    <2> QED
        BY <2>3 DEF Block
<1> QED
    BY <1>2, <1>3, <1>4, <1>5

\* The sizes of blocks are numbers, and 0 only for blocks of size 0.
LEMMA Amounts ==
    /\ \A size \in Nat : PagesFor(size) \in Nat /\ (PagesFor(size) = 0 <=> size = 0)
    /\ \A pages \in Nat \cup {NULL_HANDLE} : CellsFor(pages) \in Nat
    /\ \A pages \in Nat : CellsFor(pages) = pages * PerPage /\ (CellsFor(pages) = 0 <=> pages = 0)
<1>1. \A size \in Nat : PagesFor(size) \in Nat /\ (PagesFor(size) = 0 <=> size = 0)
    BY DEF PagesFor
<1>2. PerPage \in Nat \ {0}
    BY EmsAssumption
<1>3. ASSUME NEW pages \in Nat
      PROVE  /\ CellsFor(pages) = pages * PerPage /\ CellsFor(pages) \in Nat
             /\ CellsFor(pages) = 0 <=> pages = 0
    <2>1. pages # NULL_HANDLE
        BY DEF NULL_HANDLE
    <2>2. pages * PerPage \in Nat /\ (pages * PerPage = 0 <=> pages = 0)
        BY <1>2
    <2> QED
        BY <2>1, <2>2 DEF CellsFor
<1>4. CellsFor(NULL_HANDLE) = 0
    BY DEF CellsFor
<1> QED
    BY <1>1, <1>3, <1>4

\* The cells of a block, as a set.
LEMMA BlockSet ==
    ASSUME NEW m, NEW h, NEW s, NEW n, Block(m, h, s, n)
    PROVE  Len(s) = n /\ n \in Nat /\ \A x : x \in ToSet(s) <=> \E i \in 1..n : s[i] = x
<1>1. s \in [1..n -> Cells] /\ n \in Nat
    BY DEF Block
<1> QED
    BY <1>1 DEF ToSet

\* The books come out.
LEMMA Counted ==
    ASSUME IInv
    PROVE  PagesAccounted
<1> DEFINE m == mhandles
           hd == HeldBy(xms_handles, emm_handles, vcpiPages)
           sz == AmountOf(xms_handles, emm_handles, vcpiPages)
           Holds(o, c) == \E i \in 1..sz[o] : Chain(m, hd[o])[i] = c
           A(c) == {h \in UsedXms : c \in ToSet(XmsPages(h))}
           B(c) == {h \in UsedEms : c \in ToSet(EmsPages(h))}
           C(c) == vcpiPages \cap {c}
<1>1. /\ m \in Array
      /\ \A h \in XmsHandles : Block(m, xms_handles[h].mem, XmsPages(h), PagesFor(xms_handles[h].size))
      /\ \A h \in EmsHandles : Block(m, emm_handles[h].mem, EmsPages(h), CellsFor(emm_handles[h].pages))
      /\ \A p \in vcpiPages \cap Cells : m[p] = -1
    BY Blocks DEF IInv, XmsPages, EmsPages
<1>2. /\ \A o \in Holders : Block(m, hd[o], Chain(m, hd[o]), sz[o])
      /\ \A o, q \in Holders : \A c : Holds(o, c) /\ Holds(q, c) => o = q
      /\ \A c \in Cells : m[c] \in {0, Foreign} \/ \E o \in Holders : Holds(o, c)
    BY DEF IInv, Books, Ledger
<1>3. \A o \in Holders, c \in Cells : Holds(o, c) => m[c] \notin {0, Foreign}
    BY <1>2, BlockTaken
<1>4. /\ \A h \in XmsHandles : hd[XmsOwner(h)] = xms_handles[h].mem
                               /\ sz[XmsOwner(h)] = PagesFor(xms_handles[h].size)
      /\ \A h \in EmsHandles : hd[EmsOwner(h)] = emm_handles[h].mem
                               /\ sz[EmsOwner(h)] = CellsFor(emm_handles[h].pages)
      /\ \A p \in Cells : /\ hd[VcpiOwner(p)] = IF p \in vcpiPages THEN p ELSE 0
                          /\ sz[VcpiOwner(p)] = IF p \in vcpiPages THEN 1 ELSE 0
    BY HeldFacts
<1>5. /\ \A h \in XmsHandles : xms_handles[h].size \in Nat
      /\ \A h \in EmsHandles : emm_handles[h].pages \in Nat \cup {NULL_HANDLE}
      /\ vcpiPages \subseteq Cells
    BY DEF IInv, Typed
<1>6. ASSUME NEW c \in Cells, NEW h PROVE h \in A(c) <=> h \in XmsHandles /\ Holds(XmsOwner(h), c)
    <2>1. h \in A(c) <=> h \in XmsHandles /\ ~xms_handles[h].free /\ c \in ToSet(XmsPages(h))
        BY DEF UsedXms, FreeXms
    <2>2. ASSUME h \in XmsHandles
          PROVE  c \in ToSet(XmsPages(h)) <=> Holds(XmsOwner(h), c)
        <3>1. c \in ToSet(XmsPages(h))
                <=> \E i \in 1..PagesFor(xms_handles[h].size) : XmsPages(h)[i] = c
            BY <2>2, <1>1, BlockSet
        <3> QED
            BY <2>2, <3>1, <1>4 DEF XmsPages
    <2>3. ASSUME h \in XmsHandles, xms_handles[h].free
          PROVE  ~Holds(XmsOwner(h), c)
        <3>1. xms_handles[h].size = 0
            BY <2>3 DEF IInv, XmsRows
        <3>2. sz[XmsOwner(h)] = 0
            BY <2>3, <3>1, <1>4, Amounts
        <3> QED
            BY <3>2
    <2> QED
        BY <2>1, <2>2, <2>3
<1>7. ASSUME NEW c \in Cells, NEW h PROVE h \in B(c) <=> h \in EmsHandles /\ Holds(EmsOwner(h), c)
    <2>1. h \in B(c) <=> h \in EmsHandles /\ emm_handles[h].pages # NULL_HANDLE
                         /\ c \in ToSet(EmsPages(h))
        BY DEF UsedEms, ValidHandle
    <2>2. ASSUME h \in EmsHandles
          PROVE  c \in ToSet(EmsPages(h)) <=> Holds(EmsOwner(h), c)
        <3>1. c \in ToSet(EmsPages(h))
                <=> \E i \in 1..CellsFor(emm_handles[h].pages) : EmsPages(h)[i] = c
            BY <2>2, <1>1, BlockSet
        <3> QED
            BY <2>2, <3>1, <1>4 DEF EmsPages
    <2>3. ASSUME h \in EmsHandles, emm_handles[h].pages = NULL_HANDLE
          PROVE  ~Holds(EmsOwner(h), c)
        <3>1. sz[EmsOwner(h)] = 0
            BY <2>3, <1>4 DEF CellsFor
        <3> QED
            BY <3>1
    <2> QED
        BY <2>1, <2>2, <2>3
<1>8. ASSUME NEW c \in Cells PROVE c \in C(c) <=> \E p \in Cells : Holds(VcpiOwner(p), c)
    <2>1. ASSUME NEW p \in Cells PROVE Holds(VcpiOwner(p), c) <=> p \in vcpiPages /\ p = c
        <3>1. CASE p \in vcpiPages
            <4>1. hd[VcpiOwner(p)] = p /\ sz[VcpiOwner(p)] = 1
                BY <3>1, <1>4
            <4>2. Block(m, p, Chain(m, p), 1)
                BY <1>2, <4>1, OwnerFacts
            <4>3. Chain(m, p)[1] = p
                BY <4>2 DEF Block
            <4> QED
                BY <3>1, <4>1, <4>3
        <3>2. CASE p \notin vcpiPages
            <4>1. sz[VcpiOwner(p)] = 0
                BY <3>2, <1>4
            <4> QED
                BY <3>2, <4>1
        <3> QED
            BY <3>1, <3>2
    <2> QED
        BY <2>1
<1> HIDE DEF Holds, A, B, C, hd, sz, m
<1>9. ASSUME NEW c \in Cells
      PROVE  Cardinality(A(c)) + Cardinality(B(c)) + Cardinality(C(c))
               = IF m[c] \in {0, Foreign} THEN 0 ELSE 1
    <2>1. C(c) \subseteq {c}
        BY DEF C
    <2>2. CASE m[c] \in {0, Foreign}
        <3>1. A(c) = {} /\ B(c) = {} /\ C(c) = {}
            BY <2>1, <2>2, <1>3, <1>6, <1>7, <1>8, OwnerFacts
        <3> QED
            BY <2>2, <3>1, FS_EmptySet
    <2>3. ASSUME NEW h \in XmsHandles, Holds(XmsOwner(h), c)
          PROVE  Cardinality(A(c)) + Cardinality(B(c)) + Cardinality(C(c)) = 1
        <3>1. A(c) = {h}
            BY <2>3, <1>2, <1>6, OwnerFacts
        <3>2. B(c) = {}
            <4>1. SUFFICES ASSUME NEW g, g \in B(c) PROVE FALSE
                OBVIOUS
            <4>2. g \in EmsHandles /\ Holds(EmsOwner(g), c)
                BY <4>1, <1>7
            <4>3. EmsOwner(g) = XmsOwner(h)
                BY <4>2, <2>3, <1>2, OwnerFacts
            <4> QED
                BY <4>3, OwnerFacts
        <3>3. C(c) = {}
            BY <2>1, <2>3, <1>2, <1>8, OwnerFacts
        <3>4. Cardinality(A(c)) = 1 /\ Cardinality(B(c)) = 0 /\ Cardinality(C(c)) = 0
            BY <3>1, <3>2, <3>3, FS_EmptySet, FS_Singleton
        <3> QED
            BY <3>4
    <2>4. ASSUME NEW h \in EmsHandles, Holds(EmsOwner(h), c)
          PROVE  Cardinality(A(c)) + Cardinality(B(c)) + Cardinality(C(c)) = 1
        <3>1. B(c) = {h}
            BY <2>4, <1>2, <1>7, OwnerFacts
        <3>2. A(c) = {}
            <4>1. SUFFICES ASSUME NEW g, g \in A(c) PROVE FALSE
                OBVIOUS
            <4>2. g \in XmsHandles /\ Holds(XmsOwner(g), c)
                BY <4>1, <1>6
            <4>3. EmsOwner(h) = XmsOwner(g)
                BY <4>2, <2>4, <1>2, OwnerFacts
            <4> QED
                BY <4>3, OwnerFacts
        <3>3. C(c) = {}
            BY <2>1, <2>4, <1>2, <1>8, OwnerFacts
        <3>4. Cardinality(A(c)) = 0 /\ Cardinality(B(c)) = 1 /\ Cardinality(C(c)) = 0
            BY <3>1, <3>2, <3>3, FS_EmptySet, FS_Singleton
        <3> QED
            BY <3>4
    <2>5. ASSUME NEW p \in Cells, Holds(VcpiOwner(p), c)
          PROVE  Cardinality(A(c)) + Cardinality(B(c)) + Cardinality(C(c)) = 1
        <3>1. C(c) = {c}
            BY <2>1, <2>5, <1>8
        <3>2. A(c) = {} /\ B(c) = {}
            BY <2>5, <1>2, <1>6, <1>7, OwnerFacts
        <3>3. Cardinality(A(c)) = 0 /\ Cardinality(B(c)) = 0 /\ Cardinality(C(c)) = 1
            BY <3>1, <3>2, FS_EmptySet, FS_Singleton
        <3> QED
            BY <3>3
    <2>6. CASE m[c] \notin {0, Foreign}
        <3>1. PICK o \in Holders : Holds(o, c)
            BY <2>6, <1>2
        <3> QED
            BY <2>3, <2>4, <2>5, <2>6, <3>1, OwnerFacts
    <2> QED
        BY <2>2, <2>6
<1>10. ASSUME NEW h \in UsedXms
       PROVE  /\ Len(XmsPages(h)) = PagesFor(xms_handles[h].size)
              /\ \A i \in DOMAIN XmsPages(h) : XmsPages(h)[i] = XmsPages(h)[1] + i - 1
    <2>1. h \in XmsHandles
        BY DEF UsedXms
    <2>2. Block(m, xms_handles[h].mem, XmsPages(h), PagesFor(xms_handles[h].size))
        BY <2>1, <1>1
    <2>3. DOMAIN XmsPages(h) = 1..PagesFor(xms_handles[h].size)
        BY <2>2 DEF Block
    <2> QED
        BY <2>1, <2>2, <2>3, BlockSet DEF IInv, XmsRows, Row
<1>11. ASSUME NEW h \in UsedEms PROVE Len(EmsPages(h)) = emm_handles[h].pages * PerPage
    <2>1. h \in EmsHandles /\ emm_handles[h].pages # NULL_HANDLE
        BY DEF UsedEms, ValidHandle
    <2> QED
        BY <2>1, <1>1, BlockSet DEF CellsFor
<1>12. \A p \in vcpiPages : mhandles[p] = -1
    BY <1>1, <1>5 DEF m
<1> QED
    BY <1>9, <1>10, <1>11, <1>12 DEF PagesAccounted, A, B, C, m

-----------------------------------------------------------------------------
(* Calls of xms.cpp.                                                       *)

\* The steps of LockedStays and of FrameKept.
LockedStep ==
    \A h \in UsedXms :
        xms_handles[h].locked > 0 /\ ~xms_handles'[h].free
          => XmsPages(h)' = XmsPages(h)
FrameStep ==
    \A s \in Slots :
        LET kept == emm_mappings'[s] = emm_mappings[s]
        IN  (IF kept THEN Shows(s) ELSE HasPage(emm_mappings[s])') /\ HasPage(emm_mappings[s])'
              => Shows(s)'

\* A step is about what u holds: all others keep their cells, and so does whoever has
\* the cell behind the last page.
About(u) ==
    /\ \A h \in XmsHandles : XmsOwner(h) # u => XmsPages(h)' = XmsPages(h)
    /\ \A h \in EmsHandles : EmsOwner(h) # u => EmsPages(h)' = EmsPages(h)
    /\ VcpiOwner(0) # u => vcpiPages' = vcpiPages
    /\ \A x \in Cells : mhandles'[x] = Foreign <=> mhandles[x] = Foreign
OneUser == \E u : About(u)

\* No cell of another's is given up or taken.
LEMMA ForeignKept ==
    ASSUME NEW m, NEW old, NEW m2, NEW handle, NEW c, NEW n,
           Replaces(m, old, m2, handle, c, n), \A x \in old : m[x] # Foreign
    PROVE  \A x \in Cells : m2[x] = Foreign <=> m[x] = Foreign
<1>1. /\ Block(m2, handle, c, n)
      /\ \A i \in 1..n : c[i] \in old \/ m[c[i]] = 0
      /\ \A x \in Cells : x \notin On(c, n) => m2[x] = IF x \in old THEN 0 ELSE m[x]
    BY DEF Replaces
<1>2. 0 # Foreign
    BY DEF Foreign
<1>3. \A x \in On(c, n) : m2[x] # Foreign
    BY <1>1, BlockTaken
<1>4. \A x \in On(c, n) : m[x] # Foreign
    BY <1>1, <1>2 DEF On
<1> QED
    BY <1>1, <1>2, <1>3, <1>4

\* No block at all.
LEMMA NoChain ==
    ASSUME NEW m, NEW h \in Int, h <= 0
    PROVE  Chain(m, h) = <<>> /\ Block(m, h, Chain(m, h), 0)
<1>1. Block(m, h, <<>>, 0)
    BY NoBlock
<1>2. Chain(m, h) = <<>>
    BY <1>1, ChainFound
<1> QED
    BY <1>1, <1>2

\* Before the system handle has its pages nobody holds a block, and the books say so.
LEMMA EmptyBooks ==
    ASSUME NEW m \in Array, \A x \in Cells : m[x] \in {0, Foreign}, NEW xh, NEW eh,
           \A h \in XmsHandles : xh[h].mem \in Int /\ xh[h].mem <= 0 /\ xh[h].size = 0,
           \A h \in EmsHandles : eh[h].mem \in Int /\ eh[h].mem <= 0 /\ eh[h].pages = NULL_HANDLE
    PROVE  Books(m, xh, eh, {})
<1>1. PICK hd, sz : hd = HeldBy(xh, eh, {}) /\ sz = AmountOf(xh, eh, {})
    OBVIOUS
<1>2. ASSUME NEW o \in Holders PROVE hd[o] \in Int /\ hd[o] <= 0 /\ sz[o] = 0
    <2>1. ASSUME NEW h \in XmsHandles, o = XmsOwner(h)
          PROVE  hd[o] \in Int /\ hd[o] <= 0 /\ sz[o] = 0
        <3>1. hd[o] = xh[h].mem /\ sz[o] = PagesFor(xh[h].size)
            BY <1>1, <2>1, HeldFacts
        <3>2. PagesFor(0) = 0
            BY Amounts
        <3> QED
            BY <3>1, <3>2
    <2>2. ASSUME NEW h \in EmsHandles, o = EmsOwner(h)
          PROVE  hd[o] \in Int /\ hd[o] <= 0 /\ sz[o] = 0
        <3>1. hd[o] = eh[h].mem /\ sz[o] = CellsFor(eh[h].pages)
            BY <1>1, <2>2, HeldFacts
        <3> QED
            BY <3>1 DEF CellsFor
    <2>3. ASSUME NEW p \in Cells, o = VcpiOwner(p)
          PROVE  hd[o] \in Int /\ hd[o] <= 0 /\ sz[o] = 0
        BY <1>1, <2>3, HeldFacts
    <2> QED
        BY <2>1, <2>2, <2>3, OwnerFacts
<1>3. \A o \in Holders : Block(m, hd[o], Chain(m, hd[o]), sz[o])
    BY <1>2, NoChain
<1>4. Ledger(m, Holders, hd, sz)
    BY <1>2, <1>3 DEF Ledger
<1> QED
    BY <1>1, <1>4 DEF Books

\* The system handle gets its pages.
LEMMA InitIInv == Init => IInv
<1> SUFFICES ASSUME Init PROVE IInv
    OBVIOUS
<1> DEFINE n == SystemPages * PerPage
<1>1. PICK m \in AllFree :
          LET a == MEM_AllocatePages(m, n, FALSE)
          IN  /\ mhandles = a.m
              /\ emm_handles = [h \in EmsHandles |->
                    IF h = 0 THEN [UnusedHandle EXCEPT !.pages = SystemPages, !.mem = a.handle]
                    ELSE UnusedHandle]
    BY DEF Init, EmsInit
<1>2. /\ emm_mappings = [s \in Slots |-> Unmapped]
      /\ firstmb = [s \in Slots |-> <<>>]
      /\ context = NoMap
      /\ xms_handles = [h \in XmsHandles |-> [size |-> 0, mem |-> -1, locked |-> 0, free |-> TRUE]]
      /\ vcpiPages = {}
    BY DEF Init, EmsInit, XmsInit
<1>3. PICK a : a = MEM_AllocatePages(m, n, FALSE)
    OBVIOUS
<1>4. n \in Nat \ {0} /\ n <= Cardinality(Pages)
    BY EmsAssumption
<1> HIDE DEF n
<1>5. /\ m \in Array
      /\ \A x \in Cells : m[x] \in {0, Foreign}
      /\ \A x \in Pages : m[x] = 0
    <2>1. PICK past \in {0, Foreign} : m = [c \in Cells |-> IF c \in Pages THEN 0 ELSE past]
        BY DEF AllFree
    <2> QED
        BY <2>1, Numbered DEF Array
<1>6. MEM_FreeTotal(m) = Cardinality(Pages)
    <2>1. {p \in Pages : m[p] = 0} = Pages
        BY <1>5
    <2> QED
        BY <2>1 DEF MEM_FreeTotal
<1>7. a.handle \in Cells /\ \E c : Replaces(m, {}, a.m, a.handle, c, n)
    <2>1. FALSE \in BOOLEAN /\ n \in Nat /\ n > 0 /\ ~(n > MEM_FreeTotal(m))
        <3>1. Cardinality(Pages) \in Nat
            BY Numbered, FS_CardinalityType
        <3> QED
            BY <1>4, <1>6, <3>1
    <2> QED
        BY <2>1, <1>3, <1>5, AllocateGives
<1>8. PICK c : Replaces(m, {}, a.m, a.handle, c, n)
    BY <1>7
<1>9. PICK eh : eh = [h \in EmsHandles |-> UnusedHandle]
    OBVIOUS
<1>10. Books(m, xms_handles, eh, {})
    <2>1. \A h \in XmsHandles : /\ xms_handles[h].mem \in Int /\ xms_handles[h].mem <= 0
                                /\ xms_handles[h].size = 0
        BY <1>2
    <2>2. \A h \in EmsHandles : /\ eh[h].mem \in Int /\ eh[h].mem <= 0
                                /\ eh[h].pages = NULL_HANDLE
        BY <1>9 DEF UnusedHandle
    <2> QED
        BY <2>1, <2>2, <1>5, EmptyBooks
<1>11. 0 \in EmsHandles
    BY EmsAssumption DEF EmsHandles
<1>12. /\ \A h \in EmsHandles : h # 0 => emm_handles[h] = eh[h]
       /\ emm_handles[0] = [pages |-> SystemPages, mem |-> a.handle, saved |-> NoMap]
       /\ eh[0].mem = 0 /\ eh[0].pages = NULL_HANDLE
    BY <1>1, <1>3, <1>9, <1>11 DEF UnusedHandle
<1>13. On(Chain(m, eh[0].mem), CellsFor(eh[0].pages)) = {}
    BY <1>12 DEF CellsFor, On
<1>14. CellsFor(emm_handles[0].pages) = n /\ emm_handles[0].mem = a.handle
    BY <1>12, Amounts, EmsAssumption DEF n
<1>15. Books(mhandles, xms_handles, emm_handles, {})
    <2>1. mhandles = a.m
        BY <1>1, <1>3
    <2>2. EmsSwap(m, eh, 0, mhandles, emm_handles, c)
        BY <1>8, <1>13, <1>14, <2>1 DEF EmsSwap
    <2>3. Alike(EmsHandles, 0, eh, emm_handles)
        BY <1>12 DEF Alike
    <2> QED
        BY <2>2, <2>3, <1>10, <1>11, EmsReplaced
<1>16. Typed
    <2>1. emm_handles \in [EmsHandles -> [pages : Nat \cup {NULL_HANDLE}, mem : Int, saved : Maps]]
        <3>1. a.handle \in Int
            BY <1>7, CellNumber
        <3>2. UnusedHandle \in [pages : Nat \cup {NULL_HANDLE}, mem : Int, saved : Maps]
            BY DEF UnusedHandle, Maps
        <3>3. emm_handles[0] \in [pages : Nat \cup {NULL_HANDLE}, mem : Int, saved : Maps]
            BY <1>12, <3>1, EmsAssumption DEF Maps
        <3>4. \A h \in EmsHandles : h # 0 => emm_handles[h] = UnusedHandle
            BY <1>9, <1>12
        <3>5. emm_handles = [h \in EmsHandles |-> emm_handles[h]]
            BY <1>1
        <3> QED
            BY <3>2, <3>3, <3>4, <3>5
    <2>2. xms_handles \in [XmsHandles -> [size : Nat, mem : Int, locked : Nat, free : BOOLEAN]]
        BY <1>2
    <2>3. emm_mappings \in [Slots -> Mappings]
        BY <1>2 DEF Mappings
    <2> QED
        BY <1>2, <2>1, <2>2, <2>3 DEF Typed, Maps
<1>17. XmsRows
    <2>1. SUFFICES ASSUME NEW h \in XmsHandles
                   PROVE  /\ Row(XmsPages(h), PagesFor(xms_handles[h].size))
                          /\ xms_handles[h].free => xms_handles[h].size = 0
        BY DEF XmsRows
    <2>2. xms_handles[h].size = 0 /\ PagesFor(0) = 0
        BY <1>2, Amounts
    <2>3. Row(XmsPages(h), 0)
        BY DEF Row
    <2> QED
        BY <2>2, <2>3
<1> QED
    BY <1>2, <1>15, <1>16, <1>17 DEF IInv

\* A step that concerns neither the handles nor the slots of expanded memory.
LEMMA FrameUntouched ==
    ASSUME UNCHANGED <<emm_handles, emm_mappings, firstmb>>,
           \A h \in EmsHandles : EmsPages(h)' = EmsPages(h)
    PROVE  FrameStep
<1>1. \A h : ValidHandle(h)' = ValidHandle(h)
    BY DEF ValidHandle
<1>2. ASSUME NEW mapping, HasPage(mapping) PROVE Shown(mapping)' = Shown(mapping)
    <2>1. mapping.handle \in EmsHandles
        BY <1>2 DEF HasPage, ValidHandle
    <2>2. Chain(mhandles', emm_handles'[mapping.handle].mem)
            = Chain(mhandles, emm_handles[mapping.handle].mem)
        BY <2>1 DEF EmsPages
    <2> QED
        BY <2>2 DEF Shown
<1> QED
    BY <1>1, <1>2 DEF FrameStep, Shows

\* A call for extended memory replaces the block of one handle, by a row.
XmsPosted(h, c) ==
    /\ \A g \in XmsHandles : g # h => xms_handles'[g] = xms_handles[g]
    /\ xms_handles' \in [XmsHandles -> [size : Nat, mem : Int, locked : Nat, free : BOOLEAN]]
    /\ xms_handles'[h].free => xms_handles'[h].size = 0
    /\ Replaces(mhandles, On(XmsPages(h), PagesFor(xms_handles[h].size)),
                mhandles', xms_handles'[h].mem, c, PagesFor(xms_handles'[h].size))
    /\ Row(c, PagesFor(xms_handles'[h].size))
    /\ xms_handles[h].free \/ xms_handles[h].locked = 0 \/ xms_handles'[h].free \/ c = XmsPages(h)
    /\ UNCHANGED <<emsVars, vcpiPages>>

\* A call of xms.cpp that replaces one block by a row keeps the invariant, the
\* blocks that are locked and what the slots show.
LEMMA XmsPostedKeeps ==
    ASSUME IInv, NEW h \in XmsHandles, NEW c, XmsPosted(h, c)
    PROVE  IInv' /\ LockedStep /\ FrameStep /\ OneUser
<1>1. /\ Books(mhandles, xms_handles, emm_handles, vcpiPages) /\ Typed /\ XmsRows
    BY DEF IInv
<1>2. /\ \A g \in XmsHandles : g # h => xms_handles'[g] = xms_handles[g]
      /\ Replaces(mhandles, On(Chain(mhandles, xms_handles[h].mem), PagesFor(xms_handles[h].size)),
                  mhandles', xms_handles'[h].mem, c, PagesFor(xms_handles'[h].size))
    BY DEF XmsPosted, XmsPages
<1>3. UNCHANGED <<emm_handles, emm_mappings, firstmb, context, vcpiPages>>
    BY DEF XmsPosted, emsVars
<1>4. /\ Books(mhandles', xms_handles', emm_handles, vcpiPages)
      /\ Chain(mhandles', xms_handles'[h].mem) = c
      /\ \A g \in XmsHandles : g # h =>
            Chain(mhandles', xms_handles'[g].mem) = Chain(mhandles, xms_handles[g].mem)
      /\ \A g \in EmsHandles : Chain(mhandles', emm_handles[g].mem) = Chain(mhandles, emm_handles[g].mem)
    <2>1. PICK m, xh, eh, vp, m2, xh2 :
             /\ m = mhandles /\ xh = xms_handles /\ eh = emm_handles /\ vp = vcpiPages
             /\ m2 = mhandles' /\ xh2 = xms_handles'
        OBVIOUS
    <2>2. /\ Books(m, xh, eh, vp)
          /\ Alike(XmsHandles, h, xh, xh2)
          /\ XmsSwap(m, xh, h, m2, xh2, c)
        BY <1>1, <1>2, <2>1 DEF Alike, XmsSwap
    <2>3. /\ Books(m2, xh2, eh, vp)
          /\ Chain(m2, xh2[h].mem) = c
          /\ \A g \in XmsHandles : g # h => Chain(m2, xh2[g].mem) = Chain(m, xh[g].mem)
          /\ \A g \in EmsHandles : Chain(m2, eh[g].mem) = Chain(m, eh[g].mem)
        BY <2>2, XmsReplaced
    <2> QED
        BY <2>1, <2>3
<1>5. Typed'
    BY <1>1, <1>3 DEF Typed, XmsPosted
<1>6. /\ XmsPages(h)' = c
      /\ \A g \in XmsHandles : g # h => XmsPages(g)' = XmsPages(g)
      /\ \A g \in EmsHandles : EmsPages(g)' = EmsPages(g)
    BY <1>3, <1>4 DEF XmsPages, EmsPages
<1>7. XmsRows'
    <2>1. SUFFICES ASSUME NEW g \in XmsHandles
                   PROVE  /\ Row(XmsPages(g)', PagesFor(xms_handles'[g].size))
                          /\ xms_handles'[g].free => xms_handles'[g].size = 0
        BY DEF XmsRows
    <2>2. CASE g = h
        BY <2>2, <1>6 DEF XmsPosted
    <2>3. CASE g # h
        BY <2>3, <1>1, <1>2, <1>6 DEF XmsRows
    <2> QED
        BY <2>2, <2>3
<1>8. LockedStep
    <2>1. SUFFICES ASSUME NEW g \in XmsHandles, ~xms_handles[g].free,
                          xms_handles[g].locked > 0, ~xms_handles'[g].free
                   PROVE  XmsPages(g)' = XmsPages(g)
        BY DEF LockedStep, UsedXms, FreeXms
    <2>2. CASE g = h
        BY <2>1, <2>2, <1>6 DEF XmsPosted
    <2>3. CASE g # h
        BY <2>3, <1>6
    <2> QED
        BY <2>2, <2>3
<1>9. FrameStep
    BY <1>3, <1>6, FrameUntouched
<1>10. Books(mhandles, xms_handles, emm_handles, vcpiPages)'
    BY <1>3, <1>4
<1>11. OneUser
    <2>1. \A x \in On(Chain(mhandles, xms_handles[h].mem), PagesFor(xms_handles[h].size)) :
              mhandles[x] # Foreign
        BY <1>1, Blocks, BlockTaken
    <2>2. \A x \in Cells : mhandles'[x] = Foreign <=> mhandles[x] = Foreign
        BY <1>2, <2>1, ForeignKept
    <2>3. \A g \in XmsHandles : XmsOwner(g) # XmsOwner(h) => g # h
        OBVIOUS
    <2> QED
        BY <1>3, <1>6, <2>2, <2>3 DEF OneUser, About
<1> QED
    BY <1>5, <1>7, <1>8, <1>9, <1>10, <1>11 DEF IInv

\* What the invariant says of one handle of extended memory.
LEMMA XmsBlock ==
    ASSUME IInv, NEW h \in XmsHandles
    PROVE  /\ mhandles \in Array
           /\ Block(mhandles, xms_handles[h].mem, XmsPages(h), PagesFor(xms_handles[h].size))
           /\ xms_handles \in [XmsHandles -> [size : Nat, mem : Int, locked : Nat, free : BOOLEAN]]
           /\ Row(XmsPages(h), PagesFor(xms_handles[h].size))
           /\ xms_handles[h].free => xms_handles[h].size = 0
BY Blocks DEF IInv, Typed, XmsRows, XmsPages

\* XMS_AllocateMemory gives a free handle a row of free pages, or fails.
LEMMA AllocateXms ==
    ASSUME IInv, NEW size \in Sizes, XMS_AllocateMemory(size), UNCHANGED <<emsVars, vcpiPages>>
    PROVE  IInv' /\ LockedStep /\ FrameStep /\ OneUser
<1>1. size \in Nat \ {0} /\ PagesFor(size) \in Nat /\ PagesFor(size) # 0
    BY NoEmptyBlocks, XmsAssumption, Amounts
<1>2. PICK a : a = MEM_AllocatePages(mhandles, PagesFor(size), TRUE)
    OBVIOUS
<1>3. PICK h : h = Min(FreeXms)
    OBVIOUS
<1>4. /\ FreeXms # {} /\ a.handle # 0 /\ mhandles' = a.m
      /\ xms_handles' = [xms_handles EXCEPT ![h] =
             [size |-> size, mem |-> a.handle, locked |-> 0, free |-> FALSE]]
    BY <1>1, <1>2, <1>3 DEF XMS_AllocateMemory
<1>5. h \in XmsHandles /\ xms_handles[h].free
    <2>1. FreeXms \subseteq Nat
        BY XmsAssumption DEF FreeXms, XmsHandles
    <2>2. h \in FreeXms
        BY <2>1, <1>3, <1>4, MinFacts
    <2> QED
        BY <2>2 DEF FreeXms
<1>6. /\ mhandles \in Array
      /\ xms_handles \in [XmsHandles -> [size : Nat, mem : Int, locked : Nat, free : BOOLEAN]]
      /\ xms_handles[h].size = 0
    BY <1>5, XmsBlock
<1>7. TRUE \in BOOLEAN
    OBVIOUS
<1>8. PICK c : /\ a.handle \in Cells
               /\ Replaces(mhandles, {}, a.m, a.handle, c, PagesFor(size)) /\ Row(c, PagesFor(size))
    BY <1>1, <1>2, <1>4, <1>6, <1>7, AllocateGives
<1>9. On(XmsPages(h), PagesFor(xms_handles[h].size)) = {}
    BY <1>6, Amounts DEF On
<1>10. /\ xms_handles'[h] = [size |-> size, mem |-> a.handle, locked |-> 0, free |-> FALSE]
       /\ \A g \in XmsHandles : g # h => xms_handles'[g] = xms_handles[g]
       /\ xms_handles' \in [XmsHandles -> [size : Nat, mem : Int, locked : Nat, free : BOOLEAN]]
    <2>1. a.handle \in Int
        BY <1>8, CellNumber
    <2> QED
        BY <2>1, <1>1, <1>4, <1>5, <1>6
<1>11. XmsPosted(h, c)
    BY <1>4, <1>5, <1>8, <1>9, <1>10 DEF XmsPosted
<1> QED
    BY <1>5, <1>11, XmsPostedKeeps

\* XMS_FreeMemory gives up the block of a handle, locked or not.
LEMMA FreeXmsBlock ==
    ASSUME IInv, NEW h \in XmsHandles, XMS_FreeMemory(h), UNCHANGED <<emsVars, vcpiPages>>
    PROVE  IInv' /\ LockedStep /\ FrameStep /\ OneUser
<1>1. /\ mhandles \in Array
      /\ Block(mhandles, xms_handles[h].mem, XmsPages(h), PagesFor(xms_handles[h].size))
      /\ xms_handles \in [XmsHandles -> [size : Nat, mem : Int, locked : Nat, free : BOOLEAN]]
    BY XmsBlock
<1>2. mhandles' = MEM_ReleasePages(mhandles, xms_handles[h].mem)
    BY DEF XMS_FreeMemory
<1>3. PICK x \in [size : Nat, mem : Int, locked : Nat, free : BOOLEAN] : x = xms_handles[h]
    BY <1>1
<1>4. PICK x1, x2, x3 :
         /\ x1 = [x EXCEPT !.mem = -1]
         /\ x2 = [x1 EXCEPT !.size = 0]
         /\ x3 = [x2 EXCEPT !.free = TRUE]
    OBVIOUS
<1>5. /\ x1 \in [size : Nat, mem : Int, locked : Nat, free : BOOLEAN]
      /\ x1.mem = -1
    BY <1>4
<1>6. /\ x2 \in [size : Nat, mem : Int, locked : Nat, free : BOOLEAN]
      /\ x2.mem = -1 /\ x2.size = 0
    BY <1>4, <1>5
<1>7. /\ x3 \in [size : Nat, mem : Int, locked : Nat, free : BOOLEAN]
      /\ x3.mem = -1 /\ x3.size = 0 /\ x3.free = TRUE
    BY <1>4, <1>6
<1>8. xms_handles' = [xms_handles EXCEPT ![h] = x3]
    <2>1. PICK f1, f2 : /\ f1 = [xms_handles EXCEPT ![h].mem = -1]
                        /\ f2 = [f1 EXCEPT ![h].size = 0]
        OBVIOUS
    <2>2. xms_handles' = [f2 EXCEPT ![h].free = TRUE]
        BY <2>1 DEF XMS_FreeMemory
    <2>3. f1 = [xms_handles EXCEPT ![h] = x1]
        BY <1>3, <1>4, <2>1
    <2>4. f1 \in [XmsHandles -> [size : Nat, mem : Int, locked : Nat, free : BOOLEAN]] /\ f1[h] = x1
        BY <1>1, <1>5, <2>3
    <2>5. f2 = [f1 EXCEPT ![h] = x2]
        BY <1>4, <2>1, <2>4
    <2>6. f2 \in [XmsHandles -> [size : Nat, mem : Int, locked : Nat, free : BOOLEAN]] /\ f2[h] = x2
        BY <1>6, <2>4, <2>5
    <2>7. xms_handles' = [f2 EXCEPT ![h] = x3]
        BY <1>4, <2>2, <2>6
    <2> QED
        BY <1>1, <2>3, <2>5, <2>7
<1>9. /\ \A g \in XmsHandles : g # h => xms_handles'[g] = xms_handles[g]
      /\ xms_handles' \in [XmsHandles -> [size : Nat, mem : Int, locked : Nat, free : BOOLEAN]]
      /\ xms_handles'[h].mem = -1 /\ xms_handles'[h].size = 0 /\ xms_handles'[h].free
    BY <1>1, <1>7, <1>8
<1>10. PagesFor(0) = 0 /\ -1 \in Int /\ -1 <= 0 /\ Row(<<>>, 0)
    BY Amounts DEF Row
<1>11. Replaces(mhandles, On(XmsPages(h), PagesFor(xms_handles[h].size)), mhandles', -1, <<>>, 0)
    BY <1>1, <1>2, <1>10, ReleaseGives
<1>12. XmsPosted(h, <<>>)
    BY <1>2, <1>9, <1>10, <1>11 DEF XmsPosted
<1> QED
    BY <1>12, XmsPostedKeeps

\* Locking and unlocking leave the blocks alone.
LEMMA LockXms ==
    ASSUME IInv, NEW h \in XmsHandles, XMS_LockMemory(h) \/ XMS_UnlockMemory(h),
           UNCHANGED <<emsVars, vcpiPages>>
    PROVE  IInv' /\ LockedStep /\ FrameStep /\ OneUser
<1>1. /\ mhandles \in Array
      /\ Block(mhandles, xms_handles[h].mem, XmsPages(h), PagesFor(xms_handles[h].size))
      /\ xms_handles \in [XmsHandles -> [size : Nat, mem : Int, locked : Nat, free : BOOLEAN]]
      /\ Row(XmsPages(h), PagesFor(xms_handles[h].size))
      /\ xms_handles[h].free => xms_handles[h].size = 0
    BY XmsBlock
<1>2. mhandles' = mhandles
    BY DEF XMS_LockMemory, XMS_UnlockMemory
<1>3. /\ \A g \in XmsHandles : g # h => xms_handles'[g] = xms_handles[g]
      /\ xms_handles' \in [XmsHandles -> [size : Nat, mem : Int, locked : Nat, free : BOOLEAN]]
      /\ xms_handles'[h].mem = xms_handles[h].mem /\ xms_handles'[h].size = xms_handles[h].size
      /\ xms_handles'[h].free = xms_handles[h].free
    <2>1. PICK x \in [size : Nat, mem : Int, locked : Nat, free : BOOLEAN] : x = xms_handles[h]
        BY <1>1
    <2>2. CASE XMS_LockMemory(h)
        <3>1. xms_handles' = [xms_handles EXCEPT ![h] = [x EXCEPT !.locked = x.locked + 1]]
            BY <2>1, <2>2 DEF XMS_LockMemory
        <3> QED
            BY <1>1, <2>1, <3>1
    <2>3. CASE XMS_UnlockMemory(h)
        <3>1. /\ xms_handles' = [xms_handles EXCEPT ![h] = [x EXCEPT !.locked = x.locked - 1]]
              /\ x.locked - 1 \in Nat
            BY <2>1, <2>3 DEF XMS_UnlockMemory
        <3> QED
            BY <1>1, <2>1, <3>1
    <2> QED
        BY <2>2, <2>3
<1>4. Replaces(mhandles, On(XmsPages(h), PagesFor(xms_handles[h].size)), mhandles,
               xms_handles[h].mem, XmsPages(h), PagesFor(xms_handles[h].size))
    BY <1>1, StaysGives
<1>5. XmsPosted(h, XmsPages(h))
    BY <1>1, <1>2, <1>3, <1>4 DEF XmsPosted
<1> QED
    BY <1>5, XmsPostedKeeps

\* XMS_ResizeMemory replaces a block that is not locked by a row.
LEMMA ResizeXms ==
    ASSUME IInv, NEW h \in XmsHandles, NEW size \in Sizes \cup {0}, XMS_ResizeMemory(h, size),
           UNCHANGED <<emsVars, vcpiPages>>
    PROVE  IInv' /\ LockedStep /\ FrameStep /\ OneUser
<1>1. /\ mhandles \in Array
      /\ Block(mhandles, xms_handles[h].mem, XmsPages(h), PagesFor(xms_handles[h].size))
      /\ xms_handles \in [XmsHandles -> [size : Nat, mem : Int, locked : Nat, free : BOOLEAN]]
      /\ Row(XmsPages(h), PagesFor(xms_handles[h].size))
    BY XmsBlock
<1>2. size \in Nat /\ PagesFor(size) \in Nat /\ TRUE \in BOOLEAN
    BY XmsAssumption, Amounts
<1>3. PICK r : r = MEM_ReAllocatePages(mhandles, xms_handles[h].mem, PagesFor(size), TRUE)
    OBVIOUS
<1>4. /\ xms_handles' = [xms_handles EXCEPT
             ![h].mem = r.handle, ![h].size = IF r.ok THEN size ELSE @]
      /\ mhandles' = r.m
      /\ ~xms_handles[h].free /\ xms_handles[h].locked = 0
    BY <1>3 DEF XMS_ResizeMemory, Resize, UsedXms, FreeXms
<1>5. PICK s, had : s = XmsPages(h) /\ had = PagesFor(xms_handles[h].size)
    OBVIOUS
<1>6. r.ok \in BOOLEAN /\ \E c, k : Resizes(mhandles, s, had, PagesFor(size), TRUE, r, c, k)
    <2>1. PICK m, mem : m = mhandles /\ mem = xms_handles[h].mem
        OBVIOUS
    <2>2. PICK n \in Nat : n = PagesFor(size)
        BY <1>2
    <2>3. m \in Array /\ Block(m, mem, s, had) /\ r = MEM_ReAllocatePages(m, mem, n, TRUE)
        BY <1>1, <1>3, <1>5, <2>1, <2>2
    <2>4. r.ok \in BOOLEAN /\ \E c, k : Resizes(m, s, had, n, TRUE, r, c, k)
        BY <1>2, <2>3, ReAllocateGives
    <2> QED
        BY <2>1, <2>4, <2>2
<1>7. PICK c, k : Resizes(mhandles, s, had, PagesFor(size), TRUE, r, c, k)
    BY <1>6
<1>8. /\ Replaces(mhandles, On(s, had), r.m, r.handle, c, k)
      /\ k = IF r.ok THEN PagesFor(size) ELSE had
      /\ Row(c, k)
    BY <1>1, <1>5, <1>7 DEF Resizes
<1>9. r.handle \in Int
    BY <1>8 DEF Replaces, Block
<1>10. /\ \A g \in XmsHandles : g # h => xms_handles'[g] = xms_handles[g]
       /\ xms_handles' \in [XmsHandles -> [size : Nat, mem : Int, locked : Nat, free : BOOLEAN]]
       /\ xms_handles'[h].mem = r.handle
       /\ xms_handles'[h].size = IF r.ok THEN size ELSE xms_handles[h].size
       /\ ~xms_handles'[h].free
    BY <1>1, <1>2, <1>4, <1>9
<1>11. PagesFor(xms_handles'[h].size) = k
    BY <1>5, <1>8, <1>10
<1>12. XmsPosted(h, c)
    BY <1>4, <1>5, <1>8, <1>10, <1>11 DEF XmsPosted
<1> QED
    BY <1>12, XmsPostedKeeps

-----------------------------------------------------------------------------
(* Calls for pages of VCPI, and what calls of ems.cpp have in common.      *)

\* Both steps of a call that leaves the handles alone.
LEMMA VcpiPosted ==
    ASSUME IInv, NEW p \in Cells, NEW c, VcpiSwap(mhandles, vcpiPages, p, mhandles', vcpiPages', c),
           \A g \in Cells : g # p => (g \in vcpiPages' <=> g \in vcpiPages),
           vcpiPages' \subseteq Cells, UNCHANGED <<xms_handles, emsVars>>
    PROVE  IInv' /\ LockedStep /\ FrameStep /\ OneUser
<1>1. /\ Books(mhandles, xms_handles, emm_handles, vcpiPages) /\ Typed /\ XmsRows
    BY DEF IInv
<1>2. UNCHANGED <<xms_handles, emm_handles, emm_mappings, firstmb, context>>
    BY DEF emsVars
<1>3. /\ Books(mhandles', xms_handles, emm_handles, vcpiPages')
      /\ \A g \in EmsHandles : Chain(mhandles', emm_handles[g].mem) = Chain(mhandles, emm_handles[g].mem)
      /\ \A g \in XmsHandles : Chain(mhandles', xms_handles[g].mem) = Chain(mhandles, xms_handles[g].mem)
    BY <1>1, VcpiReplaced
<1>4. /\ \A g \in EmsHandles : EmsPages(g)' = EmsPages(g)
      /\ \A g \in XmsHandles : XmsPages(g)' = XmsPages(g)
    BY <1>2, <1>3 DEF EmsPages, XmsPages
<1>5. Typed'
    BY <1>1, <1>2 DEF Typed
<1>6. XmsRows'
    BY <1>1, <1>2, <1>4 DEF XmsRows
<1>7. LockedStep
    BY <1>4 DEF LockedStep, UsedXms
<1>8. FrameStep
    BY <1>2, <1>4, FrameUntouched
<1>9. Books(mhandles, xms_handles, emm_handles, vcpiPages)'
    BY <1>2, <1>3
<1>10. OneUser
    <2>1. PICK old : old = IF p \in vcpiPages THEN {p} ELSE {}
        OBVIOUS
    <2>2. \A x \in old : mhandles[x] # Foreign
        BY <1>1, <2>1, Blocks DEF Foreign
    <2>3. \A x \in Cells : mhandles'[x] = Foreign <=> mhandles[x] = Foreign
        BY <2>1, <2>2, ForeignKept DEF VcpiSwap
    <2> QED
        BY <1>4, <2>3 DEF OneUser, About
<1> QED
    BY <1>5, <1>6, <1>7, <1>8, <1>9, <1>10 DEF IInv

\* Function DE04h takes a page of its own, or fails.
LEMMA AllocateVcpi ==
    ASSUME IInv, VcpiAllocate, UNCHANGED <<xms_handles, emsVars>>
    PROVE  IInv' /\ LockedStep /\ FrameStep /\ OneUser
<1>1. PICK a : a = MEM_AllocatePages(mhandles, 1, FALSE)
    OBVIOUS
<1>2. a.handle # 0 /\ mhandles' = a.m /\ vcpiPages' = vcpiPages \cup {a.handle}
    BY <1>1 DEF VcpiAllocate
<1>3. /\ mhandles \in Array /\ \A p \in vcpiPages \cap Cells : mhandles[p] = -1
      /\ vcpiPages \subseteq Cells
    BY Blocks DEF IInv, Typed
<1>4. 1 \in Nat /\ FALSE \in BOOLEAN
    OBVIOUS
<1>5. PICK c : a.handle \in Cells /\ Replaces(mhandles, {}, a.m, a.handle, c, 1)
    BY <1>1, <1>2, <1>3, <1>4, AllocateGives
<1>6. a.handle \notin vcpiPages
    <2>1. c[1] = a.handle /\ mhandles[c[1]] = 0
        BY <1>5 DEF Replaces, Block
    <2> QED
        BY <2>1, <1>3, <1>5
<1>7. VcpiSwap(mhandles, vcpiPages, a.handle, mhandles', vcpiPages', c)
    BY <1>2, <1>5, <1>6 DEF VcpiSwap
<1> QED
    BY <1>2, <1>3, <1>5, <1>7, VcpiPosted

\* Function DE05h gives back a page that was taken.
LEMMA FreeVcpi ==
    ASSUME IInv, NEW p \in vcpiPages, VcpiFree(p), UNCHANGED <<xms_handles, emsVars>>
    PROVE  IInv' /\ LockedStep /\ FrameStep /\ OneUser
<1>1. mhandles' = MEM_ReleasePages(mhandles, p) /\ vcpiPages' = vcpiPages \ {p}
    BY DEF VcpiFree
<1>2. mhandles \in Array /\ vcpiPages \subseteq Cells /\ p \in Cells
    BY Blocks DEF IInv, Typed
<1>3. Block(mhandles, p, Chain(mhandles, p), 1)
    BY <1>2, Blocks DEF IInv
<1>4. On(Chain(mhandles, p), 1) = {p}
    BY <1>3 DEF Block, On
<1>5. 0 \in Int /\ 0 <= 0
    OBVIOUS
<1>6. Replaces(mhandles, {p}, mhandles', 0, <<>>, 0)
    BY <1>1, <1>2, <1>3, <1>4, <1>5, ReleaseGives
<1>7. VcpiSwap(mhandles, vcpiPages, p, mhandles', vcpiPages', <<>>)
    BY <1>1, <1>6 DEF VcpiSwap
<1> QED
    BY <1>1, <1>2, <1>7, VcpiPosted

-----------------------------------------------------------------------------

\* Two sequences that agree from lo to hi.
LEMMA SameSlice ==
    ASSUME NEW s \in Seq(Cells), NEW c \in Seq(Cells), NEW lo \in Nat \ {0}, NEW hi \in Nat,
           hi <= Len(s), hi <= Len(c), \A i \in lo..hi : c[i] = s[i]
    PROVE  SubSeq(c, lo, hi) = SubSeq(s, lo, hi)
OBVIOUS

\* A page of so many, in cells.
LEMMA PageCells ==
    ASSUME NEW page \in Nat, NEW pages \in Nat, page < pages
    PROVE  /\ page * PerPage + 1 \in Nat \ {0}
           /\ (page + 1) * PerPage \in Nat
           /\ (page + 1) * PerPage <= pages * PerPage
<1>1. PerPage \in Nat \ {0}
    BY EmsAssumption
<1>2. \A x \in Nat, y \in Nat : x <= y => x * PerPage <= y * PerPage
    BY <1>1
<1>3. page + 1 \in Nat /\ page + 1 <= pages
    OBVIOUS
<1>4. page * PerPage \in Nat /\ (page + 1) * PerPage \in Nat
    BY <1>1
<1> QED
    BY <1>2, <1>3, <1>4

EmsHandle == [pages : Nat \cup {NULL_HANDLE}, mem : Int, saved : Maps]

\* A call for expanded memory replaces the block of one handle; pages it had and
\* has keep their cells.
EmsPosted(h, c) ==
    /\ Alike(EmsHandles, h, emm_handles, emm_handles')
    /\ emm_handles' \in [EmsHandles -> EmsHandle]
    /\ EmsSwap(mhandles, emm_handles, h, mhandles', emm_handles', c)
    /\ \A i \in 1..CellsFor(emm_handles[h].pages) :
          i <= CellsFor(emm_handles'[h].pages) => c[i] = EmsPages(h)[i]
    /\ UNCHANGED <<xms_handles, vcpiPages, emm_mappings, firstmb, context>>

\* A call of ems.cpp that replaces one handle's block, and leaves the cells of the
\* pages it keeps where they are, keeps the invariant and what the slots show.
LEMMA EmsPostedKeeps ==
    ASSUME IInv, NEW h \in EmsHandles, NEW c, EmsPosted(h, c)
    PROVE  IInv' /\ LockedStep /\ FrameStep /\ OneUser
<1>1. Books(mhandles, xms_handles, emm_handles, vcpiPages) /\ Typed /\ XmsRows
    BY DEF IInv
<1>2. /\ Alike(EmsHandles, h, emm_handles, emm_handles')
      /\ EmsSwap(mhandles, emm_handles, h, mhandles', emm_handles', c)
      /\ UNCHANGED <<xms_handles, vcpiPages, emm_mappings, firstmb, context>>
    BY DEF EmsPosted
<1>3. /\ Books(mhandles', xms_handles, emm_handles', vcpiPages)
      /\ Chain(mhandles', emm_handles'[h].mem) = c
      /\ \A g \in EmsHandles : g # h =>
            Chain(mhandles', emm_handles'[g].mem) = Chain(mhandles, emm_handles[g].mem)
      /\ \A g \in XmsHandles : Chain(mhandles', xms_handles[g].mem) = Chain(mhandles, xms_handles[g].mem)
    BY <1>1, <1>2, EmsReplaced
<1>4. /\ EmsPages(h)' = c
      /\ \A g \in EmsHandles : g # h => EmsPages(g)' = EmsPages(g)
      /\ \A g \in XmsHandles : XmsPages(g)' = XmsPages(g)
    BY <1>2, <1>3 DEF EmsPages, XmsPages
<1>5. Typed'
    BY <1>1, <1>2 DEF Typed, EmsPosted, EmsHandle
<1>6. XmsRows'
    BY <1>1, <1>2, <1>4 DEF XmsRows
<1>7. LockedStep
    BY <1>4 DEF LockedStep, UsedXms
<1>8. Books(mhandles, xms_handles, emm_handles, vcpiPages)'
    BY <1>2, <1>3
<1>9. FrameStep
    <2>1. SUFFICES ASSUME NEW s \in Slots, Shows(s), HasPage(emm_mappings[s])'
                   PROVE  Shows(s)'
        BY <1>2 DEF FrameStep
    <2>2. PICK mapping : mapping = emm_mappings[s] /\ mapping = emm_mappings'[s]
        BY <1>2
    <2>3. PICK g : g = mapping.handle
        OBVIOUS
    <2>4. /\ g \in EmsHandles /\ mapping.page \in Nat
          /\ emm_handles[g].pages # NULL_HANDLE /\ mapping.page < emm_handles[g].pages
          /\ emm_handles'[g].pages # NULL_HANDLE /\ mapping.page < emm_handles'[g].pages
        <3>1. g \in EmsHandles /\ emm_handles[g].pages # NULL_HANDLE /\ mapping.page < emm_handles[g].pages
            BY <2>1, <2>2, <2>3 DEF Shows, HasPage, ValidHandle
        <3>2. emm_handles'[g].pages # NULL_HANDLE /\ mapping.page < emm_handles'[g].pages
            BY <2>1, <2>2, <2>3 DEF HasPage, ValidHandle
        <3>3. mapping # Unmapped
            BY <2>3, <3>1 DEF Unmapped, NULL_HANDLE, EmsHandles
        <3>4. mapping \in Mappings
            BY <1>1, <2>2 DEF Typed
        <3>5. mapping.page \in Nat
            BY <3>3, <3>4 DEF Mappings
        <3> QED
            BY <3>1, <3>2, <3>5
    <2>5. firstmb[s] = Shown(mapping)
        BY <2>1, <2>2 DEF Shows
    <2> DEFINE lo == mapping.page * PerPage + 1
               hi == (mapping.page + 1) * PerPage
    <2>6. SubSeq(EmsPages(g)', lo, hi) = SubSeq(EmsPages(g), lo, hi)
        <3>1. CASE g # h
            BY <3>1, <2>4, <1>4
        <3>2. CASE g = h
            <4>1. emm_handles[g].pages \in Nat /\ emm_handles'[g].pages \in Nat
                BY <1>1, <1>5, <2>4 DEF Typed
            <4>2. PICK n, n2 : n = CellsFor(emm_handles[g].pages) /\ n2 = CellsFor(emm_handles'[g].pages)
                OBVIOUS
            <4>3. lo \in Nat \ {0} /\ hi \in Nat /\ hi <= n /\ hi <= n2 /\ n \in Nat /\ n2 \in Nat
                BY <2>4, <4>1, <4>2, Amounts, PageCells
            <4>4. Block(mhandles, emm_handles[g].mem, EmsPages(g), n)
                BY <1>1, <2>4, <4>2, Blocks DEF EmsPages
            <4>5. Block(mhandles', emm_handles'[g].mem, EmsPages(g)', n2)
                BY <1>3, <2>4, <4>2, Blocks DEF EmsPages
            <4>6. PICK t, t2 : t = EmsPages(g) /\ t2 = EmsPages(g)'
                OBVIOUS
            <4>7. t \in Seq(Cells) /\ Len(t) = n /\ t2 \in Seq(Cells) /\ Len(t2) = n2
                <5>1. t \in [1..n -> Cells] /\ t2 \in [1..n2 -> Cells]
                    BY <4>4, <4>5, <4>6 DEF Block
                <5> QED
                    BY <5>1, <4>3
            <4>8. \A i \in 1..n : i <= n2 => t2[i] = t[i]
                BY <3>2, <1>4, <4>2, <4>6 DEF EmsPosted
            <4> HIDE DEF lo, hi
            <4>9. \A i \in lo..hi : t2[i] = t[i]
                BY <4>3, <4>8
            <4>10. SubSeq(t2, lo, hi) = SubSeq(t, lo, hi)
                BY <4>3, <4>7, <4>9, SameSlice
            <4> QED
                BY <4>6, <4>10
        <3> QED
            BY <3>1, <3>2
    <2>7. Shown(mapping)' = Shown(mapping)
        BY <2>3, <2>6 DEF Shown, EmsPages
    <2>8. HasPage(mapping)' /\ firstmb'[s] = Shown(mapping)'
        BY <1>2, <2>1, <2>2, <2>5, <2>7
    <2> QED
        BY <2>2, <2>8 DEF Shows
<1>10. OneUser
    <2>1. Replaces(mhandles, On(Chain(mhandles, emm_handles[h].mem), CellsFor(emm_handles[h].pages)),
                   mhandles', emm_handles'[h].mem, c, CellsFor(emm_handles'[h].pages))
        BY <1>2 DEF EmsSwap
    <2>2. \A x \in On(Chain(mhandles, emm_handles[h].mem), CellsFor(emm_handles[h].pages)) :
              mhandles[x] # Foreign
        BY <1>1, Blocks, BlockTaken
    <2>3. \A x \in Cells : mhandles'[x] = Foreign <=> mhandles[x] = Foreign
        BY <2>1, <2>2, ForeignKept
    <2>4. \A g \in EmsHandles : EmsOwner(g) # EmsOwner(h) => g # h
        OBVIOUS
    <2> QED
        BY <1>2, <1>4, <2>3, <2>4 DEF OneUser, About
<1> QED
    BY <1>5, <1>6, <1>7, <1>8, <1>9, <1>10 DEF IInv

-----------------------------------------------------------------------------
(* Calls of ems.cpp.                                                       *)

\* What the invariant says of one handle of expanded memory.
LEMMA EmsBlock ==
    ASSUME IInv, NEW h \in EmsHandles
    PROVE  /\ mhandles \in Array
           /\ Block(mhandles, emm_handles[h].mem, EmsPages(h), CellsFor(emm_handles[h].pages))
           /\ emm_handles \in [EmsHandles -> EmsHandle]
           /\ emm_handles[h].pages \in Nat \cup {NULL_HANDLE}
BY Blocks DEF IInv, Typed, EmsPages, EmsHandle

\* A handle is given n pages, in block mem.
LEMMA Given ==
    ASSUME IInv, NEW h \in EmsHandles, NEW n \in Nat, NEW mem \in Int,
           emm_handles' = [emm_handles EXCEPT ![h].pages = n, ![h].mem = mem]
    PROVE  /\ Alike(EmsHandles, h, emm_handles, emm_handles')
           /\ emm_handles' \in [EmsHandles -> EmsHandle]
           /\ emm_handles'[h].pages = n /\ emm_handles'[h].mem = mem
<1>1. emm_handles \in [EmsHandles -> EmsHandle]
    BY EmsBlock
<1>2. PICK x \in EmsHandle : x = emm_handles[h]
    BY <1>1
<1>3. PICK x1, x2 : x1 = [x EXCEPT !.pages = n] /\ x2 = [x1 EXCEPT !.mem = mem]
    OBVIOUS
<1>4. x1 \in EmsHandle /\ x1.pages = n
    BY <1>3 DEF EmsHandle
<1>5. x2 \in EmsHandle /\ x2.pages = n /\ x2.mem = mem
    BY <1>3, <1>4 DEF EmsHandle
<1>6. PICK f : f = [emm_handles EXCEPT ![h].pages = n]
    OBVIOUS
<1>7. f = [emm_handles EXCEPT ![h] = x1]
    BY <1>2, <1>3, <1>6
<1>8. f \in [EmsHandles -> EmsHandle] /\ f[h] = x1 /\ Alike(EmsHandles, h, emm_handles, f)
    BY <1>1, <1>4, <1>7 DEF Alike
<1>9. emm_handles' = [f EXCEPT ![h].mem = mem]
    BY <1>6
<1>10. emm_handles' = [f EXCEPT ![h] = x2]
    BY <1>3, <1>8, <1>9
<1> QED
    BY <1>5, <1>8, <1>10 DEF Alike

\* A handle's page map is saved, or put away.
LEMMA SavedSet ==
    ASSUME IInv, NEW h \in EmsHandles, NEW map \in Maps,
           emm_handles' = [emm_handles EXCEPT ![h].saved = map]
    PROVE  /\ emm_handles' \in [EmsHandles -> EmsHandle]
           /\ \A g \in EmsHandles : /\ emm_handles'[g].mem = emm_handles[g].mem
                                    /\ emm_handles'[g].pages = emm_handles[g].pages
<1>1. emm_handles \in [EmsHandles -> EmsHandle]
    BY EmsBlock
<1>2. PICK x \in EmsHandle : x = emm_handles[h]
    BY <1>1
<1>3. PICK y : y = [x EXCEPT !.saved = map]
    OBVIOUS
<1>4. y \in EmsHandle /\ y.mem = x.mem /\ y.pages = x.pages
    BY <1>3 DEF EmsHandle
<1>5. emm_handles' = [emm_handles EXCEPT ![h] = y]
    BY <1>2, <1>3
<1> QED
    BY <1>1, <1>2, <1>4, <1>5

\* Pages for a handle that has none.
LEMMA FirstPages ==
    ASSUME IInv, NEW h \in EmsHandles, CellsFor(emm_handles[h].pages) = 0,
           NEW n \in Nat, NEW a, a = MEM_AllocatePages(mhandles, n * PerPage, FALSE),
           n = 0 \/ a.handle # 0,
           emm_handles' = [emm_handles EXCEPT ![h].pages = n, ![h].mem = a.handle],
           mhandles' = a.m,
           UNCHANGED <<xms_handles, vcpiPages, emm_mappings, firstmb, context>>
    PROVE  IInv' /\ LockedStep /\ FrameStep /\ OneUser
<1>1. mhandles \in Array
    BY EmsBlock
<1>2. /\ n * PerPage \in Nat /\ CellsFor(n) = n * PerPage /\ (n * PerPage = 0 <=> n = 0)
      /\ FALSE \in BOOLEAN
    BY Amounts
<1>3. PICK k \in Nat : k = n * PerPage
    BY <1>2
<1>4. a.handle \in Int /\ \E c : Replaces(mhandles, {}, a.m, a.handle, c, k)
    <2>1. \/ a.handle = 0 /\ a.m = mhandles
          \/ /\ k > 0 /\ a.handle \in Cells
             /\ \E c : Replaces(mhandles, {}, a.m, a.handle, c, k)
        BY <1>1, <1>2, <1>3, AllocateGives
    <2>2. CASE a.handle = 0 /\ a.m = mhandles
        <3>1. k = 0
            BY <2>2, <1>2, <1>3
        <3>2. 0 \in Int /\ 0 <= 0
            OBVIOUS
        <3>3. Block(mhandles, 0, <<>>, 0) /\ On(<<>>, 0) = {}
            BY <3>2, NoBlock
        <3>4. Replaces(mhandles, {}, mhandles, 0, <<>>, 0)
            BY <1>1, <3>3, StaysGives
        <3>5. Replaces(mhandles, {}, a.m, a.handle, <<>>, k)
            BY <2>2, <3>1, <3>4
        <3> QED
            BY <2>2, <3>2, <3>5
    <2>3. CASE a.handle \in Cells /\ \E c : Replaces(mhandles, {}, a.m, a.handle, c, k)
        BY <2>3, CellNumber
    <2> QED
        BY <2>1, <2>2, <2>3
<1>5. PICK c : Replaces(mhandles, {}, a.m, a.handle, c, k)
    BY <1>4
<1>6. /\ Alike(EmsHandles, h, emm_handles, emm_handles')
      /\ emm_handles' \in [EmsHandles -> EmsHandle]
      /\ emm_handles'[h].pages = n /\ emm_handles'[h].mem = a.handle
    BY <1>4, Given
<1>7. On(Chain(mhandles, emm_handles[h].mem), CellsFor(emm_handles[h].pages)) = {}
    BY DEF On
<1>8. EmsSwap(mhandles, emm_handles, h, mhandles', emm_handles', c)
    BY <1>2, <1>3, <1>5, <1>6, <1>7 DEF EmsSwap
<1>9. PICK old : old = CellsFor(emm_handles[h].pages)
    OBVIOUS
<1>10. 1..old = {}
    BY <1>9
<1>11. \A i \in 1..CellsFor(emm_handles[h].pages) :
          i <= CellsFor(emm_handles'[h].pages) => c[i] = EmsPages(h)[i]
    BY <1>9, <1>10
<1>12. EmsPosted(h, c)
    BY <1>6, <1>8, <1>11 DEF EmsPosted
<1> QED
    BY <1>12, EmsPostedKeeps

\* EMM_AllocateMemory gives a handle that is not in use free pages, or fails.
LEMMA AllocateEms ==
    ASSUME IInv, NEW n \in PageCounts, EMM_AllocateMemory(n), UNCHANGED <<xms_handles, vcpiPages>>
    PROVE  IInv' /\ LockedStep /\ FrameStep /\ OneUser
<1>1. PICK unused : unused = {h \in EmsHandles \ {0} : ~ValidHandle(h)}
    OBVIOUS
<1>2. PICK h : h = Min(unused)
    OBVIOUS
<1>3. PICK a : a = MEM_AllocatePages(mhandles, n * PerPage, FALSE)
    OBVIOUS
<1>4. /\ MEM_FreeTotal(mhandles) \div PerPage >= n
      /\ unused # {}
      /\ emm_handles' = [emm_handles EXCEPT ![h].pages = n, ![h].mem = a.handle]
      /\ mhandles' = a.m
      /\ UNCHANGED <<emm_mappings, firstmb, context>>
    BY <1>1, <1>2, <1>3 DEF EMM_AllocateMemory
<1>5. h \in EmsHandles /\ emm_handles[h].pages = NULL_HANDLE
    <2>1. unused \subseteq Nat
        BY <1>1, EmsAssumption DEF EmsHandles
    <2>2. h \in unused
        BY <2>1, <1>2, <1>4, MinFacts
    <2> QED
        BY <2>2, <1>1 DEF ValidHandle
<1>6. n \in Nat /\ CellsFor(emm_handles[h].pages) = 0
    BY <1>5, EmsAssumption DEF CellsFor
<1>7. n = 0 \/ a.handle # 0
    <2>1. /\ mhandles \in Array /\ n * PerPage \in Nat /\ (n * PerPage = 0 <=> n = 0)
          /\ FALSE \in BOOLEAN
        BY <1>5, <1>6, EmsBlock, Amounts
    <2>2. n * PerPage <= MEM_FreeTotal(mhandles)
        <3>1. MEM_FreeTotal(mhandles) \in Nat
            <4>1. IsFiniteSet({p \in Pages : mhandles[p] = 0})
                BY Numbered, FS_Subset
            <4> QED
                BY <4>1, FS_CardinalityType DEF MEM_FreeTotal
        <3>2. PICK t \in Nat : t = MEM_FreeTotal(mhandles)
            BY <3>1
        <3>3. PICK P \in Nat \ {0} : P = PerPage
            BY EmsAssumption
        <3>4. PICK q \in Nat : q = t \div P
            BY <3>2, <3>3
        <3>5. q * P <= t
            BY <3>4
        <3>6. n <= q
            BY <1>4, <1>6, <3>2, <3>3, <3>4
        <3>7. n * P <= q * P
            BY <1>6, <3>6
        <3> QED
            BY <1>6, <3>2, <3>3, <3>5, <3>7
    <2>3. PICK k \in Nat : k = n * PerPage
        BY <2>1
    <2>4. k > 0 => a.handle # 0
        <3>1. \/ a.handle = 0 /\ (k > 0 /\ ~FALSE => k > MEM_FreeTotal(mhandles))
              \/ a.handle \in Cells
            BY <1>3, <2>1, <2>3, AllocateGives
        <3>2. MEM_FreeTotal(mhandles) \in Int /\ k <= MEM_FreeTotal(mhandles)
            <4>1. IsFiniteSet({p \in Pages : mhandles[p] = 0})
                BY Numbered, FS_Subset
            <4>2. MEM_FreeTotal(mhandles) \in Nat
                BY <4>1, FS_CardinalityType DEF MEM_FreeTotal
            <4> QED
                BY <4>2, <2>2, <2>3
        <3> QED
            BY <3>1, <3>2, CellNumber
    <2> QED
        BY <2>1, <2>3, <2>4
<1> QED
    BY <1>3, <1>4, <1>5, <1>6, <1>7, FirstPages

\* A step that leaves the memory and the blocks of all handles alone.
LEMMA BlocksKept ==
    ASSUME IInv, UNCHANGED <<mhandles, xms_handles, vcpiPages>>, Typed',
           \A h \in EmsHandles : /\ emm_handles'[h].mem = emm_handles[h].mem
                                 /\ emm_handles'[h].pages = emm_handles[h].pages
    PROVE  /\ IInv' /\ LockedStep /\ OneUser
           /\ \A mapping : HasPage(mapping)' = HasPage(mapping)
           /\ \A mapping : HasPage(mapping) => Shown(mapping)' = Shown(mapping)
<1>1. PICK xh, eh, vp, eh2 :
         xh = xms_handles /\ eh = emm_handles /\ vp = vcpiPages /\ eh2 = emm_handles'
    OBVIOUS
<1>2. \A h \in EmsHandles : eh2[h].mem = eh[h].mem /\ eh2[h].pages = eh[h].pages
    BY <1>1
<1>3. \A o \in Holders : /\ HeldBy(xh, eh2, vp)[o] = HeldBy(xh, eh, vp)[o]
                         /\ AmountOf(xh, eh2, vp)[o] = AmountOf(xh, eh, vp)[o]
    BY <1>2, HeldFacts, OwnerFacts
<1>4. HeldBy(xh, eh2, vp) = HeldBy(xh, eh, vp)
    <2>1. /\ HeldBy(xh, eh2, vp) = [o \in Holders |-> HeldBy(xh, eh2, vp)[o]]
          /\ HeldBy(xh, eh, vp) = [o \in Holders |-> HeldBy(xh, eh, vp)[o]]
        BY DEF HeldBy
    <2> QED
        BY <2>1, <1>3
<1>5. AmountOf(xh, eh2, vp) = AmountOf(xh, eh, vp)
    <2>1. /\ AmountOf(xh, eh2, vp) = [o \in Holders |-> AmountOf(xh, eh2, vp)[o]]
          /\ AmountOf(xh, eh, vp) = [o \in Holders |-> AmountOf(xh, eh, vp)[o]]
        BY DEF AmountOf
    <2> QED
        BY <2>1, <1>3
<1>6. Books(mhandles, xh, eh2, vp)
    BY <1>1, <1>4, <1>5 DEF IInv, Books
<1>7. Books(mhandles, xms_handles, emm_handles, vcpiPages)'
    BY <1>1, <1>6
<1>8. XmsRows'
    BY DEF IInv, XmsRows, XmsPages
<1>9. LockedStep
    BY DEF LockedStep, XmsPages
<1>10. \A mapping : HasPage(mapping)' = HasPage(mapping)
    BY DEF HasPage, ValidHandle
<1>11. ASSUME NEW mapping, HasPage(mapping) PROVE Shown(mapping)' = Shown(mapping)
    <2>1. emm_handles'[mapping.handle].mem = emm_handles[mapping.handle].mem
        BY <1>11 DEF HasPage, ValidHandle
    <2> QED
        BY <2>1 DEF Shown
<1>12. OneUser
    <2>1. /\ \A h \in XmsHandles : XmsPages(h)' = XmsPages(h)
          /\ \A h \in EmsHandles : EmsPages(h)' = EmsPages(h)
        BY DEF XmsPages, EmsPages
    <2> QED
        BY <2>1 DEF OneUser, About
<1> QED
    BY <1>7, <1>8, <1>9, <1>10, <1>11, <1>12 DEF IInv

\* A step that changes nothing of the memory.
LEMMA Unposted ==
    ASSUME IInv, UNCHANGED <<mhandles, emm_handles, emm_mappings, firstmb, context,
                             xms_handles, vcpiPages>>
    PROVE  IInv' /\ LockedStep /\ FrameStep /\ OneUser
<1>1. Typed'
    BY DEF IInv, Typed
<1>2. IInv' /\ LockedStep /\ OneUser
    BY <1>1, BlocksKept
<1>3. FrameStep
    BY FrameUntouched DEF EmsPages
<1> QED
    BY <1>2, <1>3

\* EMM_ReallocatePages changes the number of a handle's pages; those it keeps stay
\* where they are, for the block is a scattered one.
LEMMA ReallocateEms ==
    ASSUME IInv, NEW n \in PageCounts, NEW h \in EmsHandles, EMM_ReallocatePages(h, n),
           UNCHANGED <<xms_handles, vcpiPages>>
    PROVE  IInv' /\ LockedStep /\ FrameStep /\ OneUser
<1>1. PICK had : had = emm_handles[h].pages
    OBVIOUS
<1>2. PICK new : new = MEM_AllocatePages(mhandles, n * PerPage, FALSE)
    OBVIOUS
<1>3. PICK r : r = IF had # 0 THEN MEM_ReAllocatePages(mhandles, emm_handles[h].mem, n * PerPage, FALSE)
                   ELSE [ok |-> new.handle # 0, handle |-> new.handle, m |-> new.m]
    OBVIOUS
<1>4. /\ had # NULL_HANDLE
      /\ had # 0 => r.ok
      /\ IF r.ok
           THEN /\ emm_handles' = [emm_handles EXCEPT ![h].pages = n, ![h].mem = r.handle]
                /\ mhandles' = r.m
           ELSE UNCHANGED <<emm_handles, mhandles>>
      /\ UNCHANGED <<emm_mappings, firstmb, context>>
    BY <1>1, <1>2, <1>3 DEF EMM_ReallocatePages, ValidHandle
<1>5. n \in Nat /\ had \in Nat
    BY <1>1, <1>4, EmsAssumption, EmsBlock
<1>6. CASE ~r.ok
    <2>1. UNCHANGED <<emm_handles, mhandles, emm_mappings, firstmb, context, xms_handles, vcpiPages>>
        BY <1>4, <1>6
    <2> QED
        BY <2>1, Unposted
<1>7. CASE r.ok /\ had = 0
    <2>1. r.handle = new.handle /\ r.m = new.m /\ new.handle # 0
        BY <1>3, <1>7
    <2>2. CellsFor(emm_handles[h].pages) = 0
        BY <1>1, <1>5, <1>7, Amounts
    <2>3. /\ emm_handles' = [emm_handles EXCEPT ![h].pages = n, ![h].mem = new.handle]
          /\ mhandles' = new.m
        BY <1>4, <1>7, <2>1
    <2> QED
        BY <1>2, <1>4, <1>5, <2>1, <2>2, <2>3, FirstPages
<1>8. CASE r.ok /\ had # 0
    <2>1. PICK m, mem : m = mhandles /\ mem = emm_handles[h].mem
        OBVIOUS
    <2>2. PICK k \in Nat : k = n * PerPage
        BY <1>5, Amounts
    <2>3. PICK s, was : s = EmsPages(h) /\ was = CellsFor(emm_handles[h].pages)
        OBVIOUS
    <2>4. m \in Array /\ Block(m, mem, s, was)
        BY <2>1, <2>3, EmsBlock
    <2>5. r = MEM_ReAllocatePages(m, mem, k, FALSE) /\ FALSE \in BOOLEAN
        BY <1>3, <1>8, <2>1, <2>2
    <2>6. r.ok \in BOOLEAN /\ \E c, j : Resizes(m, s, was, k, FALSE, r, c, j)
        BY <2>4, <2>5, ReAllocateGives
    <2>7. PICK c, j : Resizes(m, s, was, k, FALSE, r, c, j)
        BY <2>6
    <2>8. /\ j = k
          /\ Replaces(m, On(s, was), r.m, r.handle, c, k)
          /\ \A i \in 1..was : i <= k => c[i] = s[i]
        BY <1>8, <2>7 DEF Resizes
    <2>9. r.handle \in Int
        BY <2>8 DEF Replaces, Block
    <2>10. /\ emm_handles' = [emm_handles EXCEPT ![h].pages = n, ![h].mem = r.handle]
           /\ mhandles' = r.m
        BY <1>4, <1>8
    <2>11. /\ Alike(EmsHandles, h, emm_handles, emm_handles')
           /\ emm_handles' \in [EmsHandles -> EmsHandle]
           /\ emm_handles'[h].pages = n /\ emm_handles'[h].mem = r.handle
        BY <1>5, <2>9, <2>10, Given
    <2>12. CellsFor(emm_handles'[h].pages) = k
        BY <1>5, <2>2, <2>11, Amounts
    <2>13. EmsSwap(mhandles, emm_handles, h, mhandles', emm_handles', c)
        BY <2>1, <2>3, <2>8, <2>10, <2>11, <2>12 DEF EmsSwap, EmsPages
    <2>14. EmsPosted(h, c)
        BY <1>4, <2>3, <2>8, <2>11, <2>12, <2>13 DEF EmsPosted
    <2> QED
        BY <2>14, EmsPostedKeeps
<1> QED
    BY <1>6, <1>7, <1>8

\* EMM_ReleaseMemory gives up the pages and the handle, unless a page map is saved.
LEMMA ReleaseEms ==
    ASSUME IInv, NEW h \in EmsHandles, EMM_ReleaseMemory(h), UNCHANGED <<xms_handles, vcpiPages>>
    PROVE  IInv' /\ LockedStep /\ FrameStep /\ OneUser
<1>1. PICK x : x = IF h = 0 THEN [UnusedHandle EXCEPT !.pages = 0] ELSE UnusedHandle
    OBVIOUS
<1>2. /\ mhandles' = MEM_ReleasePages(mhandles, emm_handles[h].mem)
      /\ emm_handles' = [emm_handles EXCEPT ![h] = x]
      /\ UNCHANGED <<emm_mappings, firstmb, context>>
    BY <1>1 DEF EMM_ReleaseMemory
<1>3. x \in EmsHandle /\ x.mem = 0 /\ x.pages \in {0, NULL_HANDLE}
    BY <1>1 DEF UnusedHandle, EmsHandle, Maps
<1>4. /\ mhandles \in Array
      /\ Block(mhandles, emm_handles[h].mem, EmsPages(h), CellsFor(emm_handles[h].pages))
      /\ emm_handles \in [EmsHandles -> EmsHandle]
    BY EmsBlock
<1>5. /\ Alike(EmsHandles, h, emm_handles, emm_handles')
      /\ emm_handles' \in [EmsHandles -> EmsHandle]
      /\ emm_handles'[h] = x
    BY <1>2, <1>3, <1>4 DEF Alike
<1>6. CellsFor(emm_handles'[h].pages) = 0 /\ emm_handles'[h].mem = 0
    <2>1. CellsFor(0) = 0 /\ CellsFor(NULL_HANDLE) = 0
        BY Amounts DEF CellsFor
    <2> QED
        BY <2>1, <1>3, <1>5
<1>7. 0 \in Int /\ 0 <= 0
    OBVIOUS
<1>8. Replaces(mhandles, On(EmsPages(h), CellsFor(emm_handles[h].pages)), mhandles', 0, <<>>, 0)
    BY <1>2, <1>4, <1>7, ReleaseGives
<1>9. EmsSwap(mhandles, emm_handles, h, mhandles', emm_handles', <<>>)
    BY <1>6, <1>8 DEF EmsSwap, EmsPages
<1>10. EmsPosted(h, <<>>)
    BY <1>2, <1>5, <1>6, <1>9 DEF EmsPosted
<1> QED
    BY <1>10, EmsPostedKeeps

-----------------------------------------------------------------------------

\* The slots are mapped anew: each that has a page then shows it, or is as it was.
LEMMA Remapped ==
    ASSUME IInv, UNCHANGED <<mhandles, xms_handles, vcpiPages>>, Typed',
           \A h \in EmsHandles : /\ emm_handles'[h].mem = emm_handles[h].mem
                                 /\ emm_handles'[h].pages = emm_handles[h].pages,
           \A s \in Slots :
              \/ emm_mappings'[s] = emm_mappings[s] /\ firstmb'[s] = firstmb[s]
              \/ HasPage(emm_mappings'[s]) => firstmb'[s] = Shown(emm_mappings'[s])
    PROVE  IInv' /\ LockedStep /\ FrameStep /\ OneUser
<1>1. /\ IInv' /\ LockedStep /\ OneUser
      /\ \A mapping : HasPage(mapping)' = HasPage(mapping)
      /\ \A mapping : HasPage(mapping) => Shown(mapping)' = Shown(mapping)
    BY BlocksKept
<1>2. FrameStep
    <2>1. SUFFICES ASSUME NEW s \in Slots, HasPage(emm_mappings[s])',
                          emm_mappings'[s] = emm_mappings[s] => Shows(s)
                   PROVE  Shows(s)'
        BY DEF FrameStep
    <2>2. PICK mapping : mapping = emm_mappings'[s]
        OBVIOUS
    <2>3. HasPage(mapping) /\ HasPage(mapping)' /\ Shown(mapping)' = Shown(mapping)
        <3>1. HasPage(mapping)'
            BY <2>1, <2>2
        <3> QED
            BY <3>1, <1>1
    <2>4. firstmb'[s] = Shown(mapping)
        BY <2>1, <2>2, <2>3 DEF Shows
    <2> QED
        BY <2>2, <2>3, <2>4 DEF Shows
<1> QED
    BY <1>1, <1>2

\* EMM_MapPage and EMM_MapSegment: one slot shows another page.
LEMMA MapOne ==
    ASSUME IInv, NEW s \in Slots, NEW mapping \in Mappings, MapSlot(s, mapping),
           UNCHANGED <<xms_handles, vcpiPages>>
    PROVE  IInv' /\ LockedStep /\ FrameStep /\ OneUser
<1>1. /\ emm_mappings' = [emm_mappings EXCEPT ![s] = mapping]
      /\ firstmb' = [firstmb EXCEPT ![s] = IF mapping = Unmapped THEN <<>> ELSE Shown(mapping)]
      /\ UNCHANGED <<mhandles, emm_handles, context>>
    BY DEF MapSlot
<1>2. emm_mappings \in [Slots -> Mappings] /\ DOMAIN firstmb = Slots
    BY DEF IInv, Typed
<1>3. Typed'
    BY <1>1, <1>2 DEF IInv, Typed
<1>4. ~HasPage(Unmapped)
    BY DEF HasPage, ValidHandle, Unmapped, NULL_HANDLE, EmsHandles
<1>5. ASSUME NEW x \in Slots
      PROVE  \/ emm_mappings'[x] = emm_mappings[x] /\ firstmb'[x] = firstmb[x]
             \/ HasPage(emm_mappings'[x]) => firstmb'[x] = Shown(emm_mappings'[x])
    <2>1. CASE x # s
        BY <2>1, <1>1, <1>2
    <2>2. CASE x = s
        <3>1. emm_mappings'[x] = mapping
            BY <2>2, <1>1, <1>2
        <3>2. mapping # Unmapped => firstmb'[x] = Shown(mapping)
            BY <2>2, <1>1, <1>2
        <3> QED
            BY <3>1, <3>2, <1>4
    <2> QED
        BY <2>1, <2>2
<1> QED
    BY <1>1, <1>3, <1>5, Remapped

\* Putting a page map back.
LEMMA TableRestored ==
    ASSUME IInv, NEW map \in Maps, map # NoMap, RestoreMappingTable(map)
    PROVE  /\ emm_mappings' \in [Slots -> Mappings] /\ DOMAIN firstmb' = Slots
           /\ \A s \in Slots :
                 \/ emm_mappings'[s] = emm_mappings[s] /\ firstmb'[s] = firstmb[s]
                 \/ HasPage(emm_mappings'[s]) => firstmb'[s] = Shown(emm_mappings'[s])
<1>1. PICK listed \in SUBSET Slots : map \in [listed -> Mappings]
    BY DEF Maps
<1>2. emm_mappings \in [Slots -> Mappings]
    BY DEF IInv, Typed
<1>3. emm_mappings' \in [Slots -> Mappings]
    <2>1. emm_mappings' = [x \in Slots |-> IF x \in DOMAIN map THEN map[x] ELSE emm_mappings[x]]
        BY DEF RestoreMappingTable
    <2> QED
        BY <2>1, <1>1, <1>2
<1>4. DOMAIN firstmb' = Slots
    BY DEF RestoreMappingTable
<1>5. ~HasPage(Unmapped)
    BY DEF HasPage, ValidHandle, Unmapped, NULL_HANDLE, EmsHandles
<1>6. ASSUME NEW s \in Slots, HasPage(emm_mappings'[s])
      PROVE  firstmb'[s] = Shown(emm_mappings'[s])
    BY <1>5, <1>6 DEF RestoreMappingTable
<1> QED
    BY <1>3, <1>4, <1>6

\* EMM_SavePageMap changes nothing of the memory.
LEMMA SaveEms ==
    ASSUME IInv, NEW h \in EmsHandles, EMM_SavePageMap(h), UNCHANGED <<xms_handles, vcpiPages>>
    PROVE  IInv' /\ LockedStep /\ FrameStep /\ OneUser
<1>1. /\ emm_handles' = [emm_handles EXCEPT ![h].saved = [s \in Frame |-> emm_mappings[s]]]
      /\ UNCHANGED <<mhandles, emm_mappings, firstmb, context>>
    BY DEF EMM_SavePageMap
<1>2. [s \in Frame |-> emm_mappings[s]] \in Maps
    <2>1. emm_mappings \in [Slots -> Mappings] /\ Frame \in SUBSET Slots
        BY DEF IInv, Typed, Slots
    <2>2. [s \in Frame |-> emm_mappings[s]] \in [Frame -> Mappings]
        BY <2>1
    <2> QED
        BY <2>1, <2>2 DEF Maps
<1>3. PICK map \in Maps : map = [s \in Frame |-> emm_mappings[s]]
    BY <1>2
<1>4. emm_handles' = [emm_handles EXCEPT ![h].saved = map]
    BY <1>1, <1>3
<1>5. /\ emm_handles' \in [EmsHandles -> EmsHandle]
      /\ \A g \in EmsHandles : /\ emm_handles'[g].mem = emm_handles[g].mem
                               /\ emm_handles'[g].pages = emm_handles[g].pages
    BY <1>4, SavedSet
<1>6. Typed'
    BY <1>1, <1>5 DEF IInv, Typed, EmsHandle
<1> QED
    BY <1>1, <1>5, <1>6, Remapped

\* EMM_RestorePageMap puts the saved map back and clears the saved one.
LEMMA RestoreEms ==
    ASSUME IInv, NEW h \in EmsHandles, EMM_RestorePageMap(h), UNCHANGED <<xms_handles, vcpiPages>>
    PROVE  IInv' /\ LockedStep /\ FrameStep /\ OneUser
<1>1. /\ emm_handles[h].saved # NoMap
      /\ RestoreMappingTable(emm_handles[h].saved)
      /\ emm_handles' = [emm_handles EXCEPT ![h].saved = NoMap]
      /\ UNCHANGED <<mhandles, context>>
    BY DEF EMM_RestorePageMap
<1>2. PICK map \in Maps : map = emm_handles[h].saved
    BY DEF IInv, Typed
<1>3. /\ emm_mappings' \in [Slots -> Mappings] /\ DOMAIN firstmb' = Slots
      /\ \A s \in Slots :
            \/ emm_mappings'[s] = emm_mappings[s] /\ firstmb'[s] = firstmb[s]
            \/ HasPage(emm_mappings'[s]) => firstmb'[s] = Shown(emm_mappings'[s])
    BY <1>1, <1>2, TableRestored
<1>4. NoMap \in Maps
    BY DEF Maps
<1>5. /\ emm_handles' \in [EmsHandles -> EmsHandle]
      /\ \A g \in EmsHandles : /\ emm_handles'[g].mem = emm_handles[g].mem
                               /\ emm_handles'[g].pages = emm_handles[g].pages
    BY <1>1, <1>4, SavedSet
<1>6. Typed'
    BY <1>1, <1>3, <1>5 DEF IInv, Typed, EmsHandle
<1> QED
    BY <1>1, <1>3, <1>5, <1>6, Remapped

\* Function 4Fh, subfunction 0, changes nothing of the memory.
LEMMA SaveListed ==
    ASSUME IInv, NEW listed \in SUBSET Slots, SaveContext(listed), UNCHANGED <<xms_handles, vcpiPages>>
    PROVE  IInv' /\ LockedStep /\ FrameStep /\ OneUser
<1>1. /\ context' = [s \in listed |-> emm_mappings[s]]
      /\ UNCHANGED <<mhandles, emm_handles, emm_mappings, firstmb>>
    BY DEF SaveContext
<1>2. context' \in Maps
    <2>1. emm_mappings \in [Slots -> Mappings]
        BY DEF IInv, Typed
    <2>2. context' \in [listed -> Mappings]
        BY <1>1, <2>1
    <2> QED
        BY <2>2 DEF Maps
<1>3. Typed'
    BY <1>1, <1>2 DEF IInv, Typed
<1> QED
    BY <1>1, <1>3, Remapped

\* Function 4Fh, subfunction 1, maps the listed slots as they were.
LEMMA RestoreListed ==
    ASSUME IInv, RestoreContext, UNCHANGED <<xms_handles, vcpiPages>>
    PROVE  IInv' /\ LockedStep /\ FrameStep /\ OneUser
<1>1. /\ context # NoMap /\ RestoreMappingTable(context) /\ context' = NoMap
      /\ UNCHANGED <<mhandles, emm_handles>>
    BY DEF RestoreContext
<1>2. context \in Maps /\ NoMap \in Maps
    BY DEF IInv, Typed, Maps
<1>3. /\ emm_mappings' \in [Slots -> Mappings] /\ DOMAIN firstmb' = Slots
      /\ \A s \in Slots :
            \/ emm_mappings'[s] = emm_mappings[s] /\ firstmb'[s] = firstmb[s]
            \/ HasPage(emm_mappings'[s]) => firstmb'[s] = Shown(emm_mappings'[s])
    BY <1>1, <1>2, TableRestored
<1>4. Typed'
    BY <1>1, <1>2, <1>3 DEF IInv, Typed
<1> QED
    BY <1>1, <1>3, <1>4, Remapped

-----------------------------------------------------------------------------

\* The calls of ems.cpp that take or give up pages.
LEMMA EmsBlockStep ==
    ASSUME IInv, EmsBlockCall, UNCHANGED <<xms_handles, vcpiPages>>
    PROVE  IInv' /\ LockedStep /\ FrameStep /\ OneUser
<1>1. ASSUME NEW n \in PageCounts, EMM_AllocateMemory(n)
      PROVE  IInv' /\ LockedStep /\ FrameStep /\ OneUser
    BY <1>1, AllocateEms
<1>2. ASSUME NEW n \in PageCounts, NEW h \in EmsHandles, EMM_ReallocatePages(h, n)
      PROVE  IInv' /\ LockedStep /\ FrameStep /\ OneUser
    BY <1>2, ReallocateEms
<1>3. ASSUME NEW h \in EmsHandles, EMM_ReleaseMemory(h)
      PROVE  IInv' /\ LockedStep /\ FrameStep /\ OneUser
    BY <1>3, ReleaseEms
<1> QED
    BY <1>1, <1>2, <1>3 DEF EmsBlockCall

\* The calls of ems.cpp that map pages.
LEMMA EmsMapStep ==
    ASSUME IInv, EmsMapCall, UNCHANGED <<xms_handles, vcpiPages>>
    PROVE  IInv' /\ LockedStep /\ FrameStep /\ OneUser
<1>1. ASSUME NEW s \in Slots, MapSlot(s, Unmapped)
      PROVE  IInv' /\ LockedStep /\ FrameStep /\ OneUser
    <2>1. Unmapped \in Mappings
        BY DEF Mappings
    <2> QED
        BY <1>1, <2>1, MapOne
<1>2. ASSUME NEW s \in Slots, NEW h \in EmsHandles, NEW p \in 0..(emm_handles[h].pages - 1),
             MapSlot(s, [handle |-> h, page |-> p])
      PROVE  IInv' /\ LockedStep /\ FrameStep /\ OneUser
    <2>1. emm_handles[h].pages \in Int
        BY EmsBlock DEF NULL_HANDLE
    <2>2. p \in Nat
        BY <2>1
    <2>3. [handle |-> h, page |-> p] \in Mappings
        BY <2>2 DEF Mappings
    <2> QED
        BY <1>2, <2>3, MapOne
<1>3. ASSUME NEW h \in EmsHandles, EMM_SavePageMap(h) \/ EMM_RestorePageMap(h)
      PROVE  IInv' /\ LockedStep /\ FrameStep /\ OneUser
    BY <1>3, SaveEms, RestoreEms
<1>4. ASSUME NEW listed \in SUBSET Slots, SaveContext(listed)
      PROVE  IInv' /\ LockedStep /\ FrameStep /\ OneUser
    BY <1>4, SaveListed
<1>5. ASSUME RestoreContext
      PROVE  IInv' /\ LockedStep /\ FrameStep /\ OneUser
    BY <1>5, RestoreListed
<1> QED
    BY <1>1, <1>2, <1>3, <1>4, <1>5 DEF EmsMapCall

\* The calls of xms.cpp.
LEMMA XmsStep ==
    ASSUME IInv, XmsCall, UNCHANGED <<emsVars, vcpiPages>>
    PROVE  IInv' /\ LockedStep /\ FrameStep /\ OneUser
<1>1. ASSUME NEW size \in Sizes, XMS_AllocateMemory(size)
      PROVE  IInv' /\ LockedStep /\ FrameStep /\ OneUser
    BY <1>1, AllocateXms
<1>2. ASSUME NEW h \in XmsHandles, XMS_FreeMemory(h)
      PROVE  IInv' /\ LockedStep /\ FrameStep /\ OneUser
    BY <1>2, FreeXmsBlock
<1>3. ASSUME NEW h \in XmsHandles, XMS_LockMemory(h) \/ XMS_UnlockMemory(h)
      PROVE  IInv' /\ LockedStep /\ FrameStep /\ OneUser
    BY <1>3, LockXms
<1>4. ASSUME NEW h \in XmsHandles, NEW size \in Sizes \cup {0}, XMS_ResizeMemory(h, size)
      PROVE  IInv' /\ LockedStep /\ FrameStep /\ OneUser
    BY <1>4, ResizeXms
<1> QED
    BY <1>1, <1>2, <1>3, <1>4 DEF XmsCall

\* A step of the system keeps the invariant, the blocks that are locked and what the
\* slots show.
LEMMA Step == ASSUME IInv, [Next]_vars PROVE IInv' /\ LockedStep /\ FrameStep /\ OneUser
<1>1. CASE UNCHANGED vars
    BY <1>1, Unposted DEF vars, emsVars
<1>2. CASE XmsCall /\ UNCHANGED <<emsVars, vcpiPages>>
    BY <1>2, XmsStep
<1>3. CASE EmsMapCall /\ UNCHANGED <<xms_handles, vcpiPages>>
    BY <1>3, EmsMapStep
<1>4. CASE EmsBlockCall /\ UNCHANGED <<xms_handles, vcpiPages>>
    BY <1>4, EmsBlockStep
<1>5. CASE VcpiAllocate /\ UNCHANGED <<xms_handles, emsVars>>
    BY <1>5, AllocateVcpi
<1>6. CASE (\E p \in vcpiPages : VcpiFree(p)) /\ UNCHANGED <<xms_handles, emsVars>>
    BY <1>6, FreeVcpi
<1> QED
    BY <1>1, <1>2, <1>3, <1>4, <1>5, <1>6 DEF Next

\* The inductive invariant: the books of the array, of the handles and of the guest's
\* pages agree, in every state the calls of XMS, EMS and VCPI lead to, of guests that
\* ask for no XMS block of size 0 (NoEmptyBlocks), like all theorems of this module.
THEOREM BooksKept == Spec => []IInv
<1>1. Init => IInv
    BY InitIInv
<1>2. IInv /\ [Next]_vars => IInv'
    BY Step
<1> QED
    BY <1>1, <1>2, PTL DEF Spec

\* No call of XMS, EMS or VCPI loses a page of the array mhandles or gives it to two
\* owners: every page that is not free is in the block of exactly one handle.
THEOREM PagesAccountedHolds == Spec => []PagesAccounted
<1>1. IInv => PagesAccounted
    BY Counted
<1> QED
    BY <1>1, BooksKept, PTL

\* A block of extended memory that is locked (XMS_LockMemory has told the guest its
\* address) keeps its pages until it is freed, whatever happens to other blocks.
THEOREM LockedStaysHolds == Spec => LockedStays
<1>1. IInv /\ [Next]_vars => [LockedStep]_vars
    BY Step
<1>2. IInv /\ [Next]_vars => [\A h \in UsedXms :
          xms_handles[h].locked > 0 /\ ~xms_handles'[h].free
            => XmsPages(h)' = XmsPages(h)]_vars
    BY <1>1 DEF LockedStep
<1> QED
    BY <1>2, BooksKept, PTL DEF Spec, LockedStays

\* A slot of the page frame shows the physical page of its logical page as long as
\* the mapping stands: MEM_ReAllocatePages moves no page of a handle it keeps.
THEOREM FrameKeptHolds == Spec => FrameKept
<1>1. IInv /\ [Next]_vars => [FrameStep]_vars
    BY Step
<1>2. IInv /\ [Next]_vars => [\A s \in Slots :
          LET kept == emm_mappings'[s] = emm_mappings[s]
          IN  (IF kept THEN Shows(s) ELSE HasPage(emm_mappings[s])') /\ HasPage(emm_mappings[s])'
                => Shows(s)']_vars
    BY <1>1 DEF FrameStep
<1> QED
    BY <1>2, BooksKept, PTL DEF Spec, FrameKept

-----------------------------------------------------------------------------
(* The array of links as an allocator of pages.                            *)

Others == <<"other", 0>>

\* User u has the page x.
Keeps(u, x) ==
    \/ \E h \in XmsHandles : u = XmsOwner(h) /\ x \in ToSet(XmsPages(h))
    \/ \E h \in EmsHandles : u = EmsOwner(h) /\ x \in ToSet(EmsPages(h))
    \/ u = VcpiOwner(0) /\ x \in vcpiPages
    \/ u = Others /\ x \in Cells /\ mhandles[x] = Foreign

\* The pairs of Holdings, one by one.
Kept == \A a : a \in Holdings <=> a = <<a[1], a[2]>> /\ Keeps(a[1], a[2])

\* Holdings says who has what.
LEMMA HoldingsAre == Kept
<1> DEFINE X == {{XmsOwner(h)} \X ToSet(XmsPages(h)) : h \in XmsHandles}
           E == {{EmsOwner(h)} \X ToSet(EmsPages(h)) : h \in EmsHandles}
           F == {c \in Cells : mhandles[c] = Foreign}
           V == {VcpiOwner(0)} \X vcpiPages
           O == {Others} \X F
<1>1. SUFFICES ASSUME NEW a PROVE a \in Holdings <=> a = <<a[1], a[2]>> /\ Keeps(a[1], a[2])
    BY DEF Kept
<1> DEFINE InXms == \E h \in XmsHandles : a[1] = XmsOwner(h) /\ a[2] \in ToSet(XmsPages(h))
           InEms == \E h \in EmsHandles : a[1] = EmsOwner(h) /\ a[2] \in ToSet(EmsPages(h))
           InVcpi == a[1] = VcpiOwner(0) /\ a[2] \in vcpiPages
           InOther == a[1] = Others /\ a[2] \in Cells /\ mhandles[a[2]] = Foreign
           Pair == a = <<a[1], a[2]>>
<1>2. a \in UNION X <=> \E h \in XmsHandles : a \in {XmsOwner(h)} \X ToSet(XmsPages(h))
    OBVIOUS
<1>3. a \in UNION E <=> \E h \in EmsHandles : a \in {EmsOwner(h)} \X ToSet(EmsPages(h))
    OBVIOUS
<1>4. a \in UNION X <=> Pair /\ InXms
    <2>1. ASSUME NEW h \in XmsHandles
          PROVE  a \in {XmsOwner(h)} \X ToSet(XmsPages(h))
                     <=> Pair /\ a[1] = XmsOwner(h) /\ a[2] \in ToSet(XmsPages(h))
        <3> DEFINE B == ToSet(XmsPages(h))
                   u == XmsOwner(h)
        <3> HIDE DEF B, u
        <3>1. a \in {u} \X B <=> Pair /\ a[1] = u /\ a[2] \in B
            OBVIOUS
        <3> QED BY <3>1 DEF B, u
    <2> HIDE DEF X
    <2> QED BY <1>2, <2>1
<1>5. a \in UNION E <=> Pair /\ InEms
    <2>1. ASSUME NEW h \in EmsHandles
          PROVE  a \in {EmsOwner(h)} \X ToSet(EmsPages(h))
                     <=> Pair /\ a[1] = EmsOwner(h) /\ a[2] \in ToSet(EmsPages(h))
        <3> DEFINE B == ToSet(EmsPages(h))
                   u == EmsOwner(h)
        <3> HIDE DEF B, u
        <3>1. a \in {u} \X B <=> Pair /\ a[1] = u /\ a[2] \in B
            OBVIOUS
        <3> QED BY <3>1 DEF B, u
    <2> HIDE DEF E
    <2> QED BY <1>3, <2>1
<1>6. a \in V <=> Pair /\ InVcpi
    <2> DEFINE u == VcpiOwner(0)
    <2> HIDE DEF u
    <2>1. a \in {u} \X vcpiPages <=> Pair /\ a[1] = u /\ a[2] \in vcpiPages
        OBVIOUS
    <2> QED BY <2>1 DEF u
<1>7. a \in O <=> Pair /\ InOther
    <2>1. a[2] \in F <=> a[2] \in Cells /\ mhandles[a[2]] = Foreign
        OBVIOUS
    <2> DEFINE u == Others
               B == F
    <2> HIDE DEF u, B
    <2>2. a \in {u} \X B <=> Pair /\ a[1] = u /\ a[2] \in B
        OBVIOUS
    <2> QED BY <2>1, <2>2 DEF u, B
<1>8. Keeps(a[1], a[2]) <=> InXms \/ InEms \/ InVcpi \/ InOther
    BY DEF Keeps
<1>9. a \in Holdings <=> a \in UNION X \/ a \in UNION E \/ a \in V \/ a \in O
    <2> DEFINE UX == UNION X
               UE == UNION E
    <2>1. Holdings = UX \cup UE \cup V \cup O
        BY DEF Holdings, XmsOwner, EmsOwner, VcpiOwner, Others
    <2> HIDE DEF UX, UE, V, O
    <2>2. a \in Holdings <=> a \in UX \/ a \in UE \/ a \in V \/ a \in O
        BY <2>1
    <2> QED BY <2>2 DEF UX, UE
<1> HIDE DEF X, E, V, O, InXms, InEms, InVcpi, InOther, Pair
<1>10. a \in Holdings <=> Pair /\ Keeps(a[1], a[2])
    BY <1>4, <1>5, <1>6, <1>7, <1>8, <1>9
<1> QED BY <1>10 DEF Pair

\* The ledger's owner o has the page x.
HoldsPage(o, x) ==
    \E i \in 1..AmountOf(xms_handles, emm_handles, vcpiPages)[o] :
        Chain(mhandles, HeldBy(xms_handles, emm_handles, vcpiPages)[o])[i] = x

\* The ledger lists each page of VCPI by itself.
UserOf(o) == IF o[1] = "vcpi" THEN VcpiOwner(0) ELSE o

\* What a user has is in the ledger, or it is somebody else's.
LEMMA InLedger ==
    ASSUME IInv, NEW u, NEW x, Keeps(u, x)
    PROVE  /\ u \in Users /\ x \in Cells
           /\ \/ u = Others /\ mhandles[x] = Foreign
              \/ \E o \in Holders : HoldsPage(o, x) /\ UserOf(o) = u
<1>1. /\ \A h \in XmsHandles :
            Block(mhandles, xms_handles[h].mem, XmsPages(h), PagesFor(xms_handles[h].size))
      /\ \A h \in EmsHandles :
            Block(mhandles, emm_handles[h].mem, EmsPages(h), CellsFor(emm_handles[h].pages))
      /\ \A p \in vcpiPages \cap Cells : Block(mhandles, p, Chain(mhandles, p), 1)
      /\ vcpiPages \subseteq Cells
    BY Blocks DEF IInv, Typed, XmsPages, EmsPages
<1>2. CASE \E h \in XmsHandles : u = XmsOwner(h) /\ x \in ToSet(XmsPages(h))
    <2>1. PICK h \in XmsHandles : u = XmsOwner(h) /\ x \in ToSet(XmsPages(h))
        BY <1>2
    <2>2. PICK n : n = PagesFor(xms_handles[h].size)
        OBVIOUS
    <2>3. Block(mhandles, xms_handles[h].mem, XmsPages(h), n)
        BY <1>1, <2>2
    <2>4. PICK i \in 1..n : XmsPages(h)[i] = x
        BY <2>1, <2>3, BlockSet
    <2>5. x \in Cells
        BY <2>3, <2>4 DEF Block
    <2>6. u \in Holders /\ HoldsPage(u, x)
        BY <2>1, <2>2, <2>4, OwnerFacts, HeldFacts DEF HoldsPage, XmsPages
    <2>7. u \in Users /\ UserOf(u) = u
        BY <2>1, XmsAssumption DEF XmsOwner, Users, UserOf, XmsHandles
    <2> QED
        BY <2>5, <2>6, <2>7
<1>3. CASE \E h \in EmsHandles : u = EmsOwner(h) /\ x \in ToSet(EmsPages(h))
    <2>1. PICK h \in EmsHandles : u = EmsOwner(h) /\ x \in ToSet(EmsPages(h))
        BY <1>3
    <2>2. PICK n : n = CellsFor(emm_handles[h].pages)
        OBVIOUS
    <2>3. Block(mhandles, emm_handles[h].mem, EmsPages(h), n)
        BY <1>1, <2>2
    <2>4. PICK i \in 1..n : EmsPages(h)[i] = x
        BY <2>1, <2>3, BlockSet
    <2>5. x \in Cells
        BY <2>3, <2>4 DEF Block
    <2>6. u \in Holders /\ HoldsPage(u, x)
        BY <2>1, <2>2, <2>4, OwnerFacts, HeldFacts DEF HoldsPage, EmsPages
    <2>7. u \in Users /\ UserOf(u) = u
        BY <2>1, EmsAssumption DEF EmsOwner, Users, UserOf, EmsHandles
    <2> QED
        BY <2>5, <2>6, <2>7
<1>4. CASE u = VcpiOwner(0) /\ x \in vcpiPages
    <2>1. x \in Cells /\ Block(mhandles, x, Chain(mhandles, x), 1)
        BY <1>1, <1>4
    <2>2. Chain(mhandles, x)[1] = x
        BY <2>1 DEF Block
    <2>3. VcpiOwner(x) \in Holders /\ HoldsPage(VcpiOwner(x), x)
        BY <1>4, <2>1, <2>2, OwnerFacts, HeldFacts DEF HoldsPage
    <2>4. u \in Users /\ UserOf(VcpiOwner(x)) = u
        BY <1>4 DEF VcpiOwner, Users, UserOf
    <2> QED
        BY <2>1, <2>3, <2>4
<1>5. CASE u = Others /\ x \in Cells /\ mhandles[x] = Foreign
    BY <1>5 DEF Others, Users
<1> QED
    BY <1>2, <1>3, <1>4, <1>5 DEF Keeps

\* Nobody has a page that another has.
LEMMA KeepsApart ==
    ASSUME IInv, NEW u, NEW v, NEW x, Keeps(u, x), Keeps(v, x)
    PROVE  u = v
<1>1. \A o, q \in Holders : HoldsPage(o, x) /\ HoldsPage(q, x) => o = q
    BY DEF IInv, Books, Ledger, HoldsPage
<1>2. \A o \in Holders : HoldsPage(o, x) => mhandles[x] # Foreign
    BY BlockTaken DEF IInv, Books, Ledger, HoldsPage
<1> QED
    BY <1>1, <1>2, InLedger

\* Held by users, and no page by two.
Apportioned(H) ==
    /\ H \subseteq Users \X Cells
    /\ \A a, b \in H : a[2] = b[2] => a = b

\* In a state of the invariant the holdings are those of an allocator.
LEMMA HoldingsApportioned == IInv => Apportioned(Holdings)
<1> SUFFICES ASSUME IInv PROVE Apportioned(Holdings)
    OBVIOUS
<1>1. \A a \in Holdings : a = <<a[1], a[2]>> /\ Keeps(a[1], a[2])
    BY HoldingsAre DEF Kept
<1>2. ASSUME NEW a \in Holdings PROVE a \in Users \X Cells
    <2>1. a[1] \in Users /\ a[2] \in Cells
        BY <1>1, InLedger
    <2> QED
        BY <2>1, <1>1
<1>3. ASSUME NEW a \in Holdings, NEW b \in Holdings, a[2] = b[2] PROVE a = b
    <2>1. a[1] = b[1]
        BY <1>1, <1>3, KeepsApart
    <2> QED
        BY <2>1, <1>1, <1>3
<1> QED
    BY <1>2, <1>3 DEF Apportioned

\* What one user alone gains and loses is a step of the allocator.
LEMMA OneUserGains ==
    ASSUME NEW before, NEW after, Apportioned(before), Apportioned(after), NEW u,
           \A a \in before \cup after : a[1] # u => a \in before /\ a \in after
    PROVE  /\ after \ before \subseteq Users \X Cells
           /\ \A a, b \in (after \ before) \cup (before \ after) : a[1] = b[1]
           /\ \A a \in after \ before, b \in before : a[2] # b[2]
<1>1. \A a \in (after \ before) \cup (before \ after) : a[1] = u
    OBVIOUS
<1>2. ASSUME NEW a \in after \ before, NEW b \in before, a[2] = b[2]
      PROVE  FALSE
    <2>1. CASE b[1] # u
        BY <1>2, <2>1 DEF Apportioned
    <2>2. CASE b[1] = u
        <3>1. a \in Users \X Cells /\ b \in Users \X Cells /\ a[1] = b[1]
            BY <1>1, <2>2 DEF Apportioned
        <3> HIDE DEF Users
        <3>2. a = b
            BY <3>1, <1>2
        <3> QED
            BY <3>2, <1>2
    <2> QED
        BY <2>1, <2>2
<1> QED
    BY <1>1, <1>2 DEF Apportioned

\* A step of the three interfaces is a step of the allocator.
LEMMA AllocatorStep ==
    ASSUME IInv, IInv', OneUser
    PROVE  Memory!Next
<1>1. PICK u : About(u)
    BY DEF OneUser
<1>2. Apportioned(Holdings) /\ Apportioned(Holdings')
    <2>1. Apportioned(Holdings)
        BY HoldingsApportioned
    <2>2. Apportioned(Holdings)'
        BY HoldingsApportioned, PTL
    <2> QED
        BY <2>1, <2>2 DEF Apportioned
<1>3. Kept /\ Kept'
    BY HoldingsAre, PTL
<1>4. ASSUME NEW v, v # u, NEW x PROVE Keeps(v, x)' <=> Keeps(v, x)
    BY <1>1, <1>4 DEF About, Keeps
<1>5. ASSUME NEW a \in Holdings \cup Holdings', a[1] # u
      PROVE  a \in Holdings /\ a \in Holdings'
    <2>1. Keeps(a[1], a[2])' <=> Keeps(a[1], a[2])
        BY <1>4, <1>5
    <2>2. a \in Holdings <=> a = <<a[1], a[2]>> /\ Keeps(a[1], a[2])
        BY <1>3 DEF Kept
    <2>3. a \in Holdings' <=> a = <<a[1], a[2]>> /\ Keeps(a[1], a[2])'
        BY <1>3 DEF Kept
    <2> QED
        BY <2>1, <2>2, <2>3, <1>5
<1> DEFINE before == Holdings
           after == Holdings'
<1>6. /\ Apportioned(before) /\ Apportioned(after)
      /\ \A a \in before \cup after : a[1] # u => a \in before /\ a \in after
    BY <1>2, <1>5
<1> HIDE DEF before, after
<1>7. /\ after \ before \subseteq Users \X Cells
      /\ \A a, b \in (after \ before) \cup (before \ after) : a[1] = b[1]
      /\ \A a \in after \ before, b \in before : a[2] # b[2]
    BY <1>6, OneUserGains
<1> QED
    BY <1>7 DEF before, after, Memory!Next

\* ImplementsAllocator: however XMS, EMS and VCPI allocate, resize, move and free, a
\* page belongs to one handle at a time, a call changes what one handle has, and what
\* that gains was free, for any size of the memory and any number of handles.
THEOREM AllocatorImplemented == Spec => ImplementsAllocator
<1>1. Init => Memory!Init
    BY InitIInv, HoldingsApportioned DEF Memory!Init, Memory!Disjoint, Apportioned
<1>2. IInv /\ IInv' /\ [Next]_vars => [Memory!Next]_Holdings
    BY Step, AllocatorStep
<1> QED
    BY <1>1, <1>2, BooksKept, PTL DEF Spec, ImplementsAllocator, Memory!Spec
=============================================================================
