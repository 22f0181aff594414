-------------------------- MODULE EventListProofs --------------------------
(***************************************************************************)
(* Proofs about the event queue: no entry is lost, the core never sleeps   *)
(* past an event, and the linked lists and the budget of cycles implement  *)
(* Agenda, for every pool, delay, length of tick and cost of instructions. *)
(*                                                                         *)
(* The two lists are given as sequences of entries without repetition      *)
(* (Listed), and what each operation does to the pointers is shown to be   *)
(* what it should do to the sequences.  Time is kept in whole cycles: the  *)
(* invariant bounds how far the clock may be past the end of the tick, the *)
(* head of the queue and the event being served, by what the core still    *)
(* holds and by the interrupts raised since it was handed its cycles.      *)
(***************************************************************************)
EXTENDS EventList, FiniteSetTheorems, SequenceTheorems, WellFoundedInduction, TLAPS

-----------------------------------------------------------------------------
(* Numbers.                                                                *)

\* A set of numbers that is not empty has a smallest one.
LEMMA Smallest ==
    ASSUME NEW T, T \subseteq Nat, T # {}
    PROVE  \E n \in T : \A m \in T : n <= m
<1>1. \E n \in T : \A m \in T : ~ (<<m, n>> \in OpToRel(<, Nat))
    BY NatLessThanWellFounded, WFMin, Zenon
<1>2. PICK n \in T : \A m \in T : ~ (<<m, n>> \in OpToRel(<, Nat))
    BY <1>1
<1>3. \A m \in T : ~ (m < n)
    <2>1. SUFFICES ASSUME NEW m \in T, m < n PROVE FALSE
        OBVIOUS
    <2>2. m \in Nat /\ n \in Nat
        OBVIOUS
    <2>3. <<m, n>> \in OpToRel(<, Nat)
        BY <2>1, <2>2 DEF OpToRel
    <2> QED
        BY <1>2, <2>3
<1> QED
    BY <1>3

\* What holds of 0 and goes from each number to the next holds up to n.
LEMMA UpTo ==
    ASSUME NEW n \in Nat, NEW S, 0 \in S,
           \A k \in 0..(n - 1) : k \in S => k + 1 \in S
    PROVE  0..n \subseteq S
<1>1. SUFFICES ASSUME (0..n) \ S # {} PROVE FALSE
    OBVIOUS
<1>2. PICK k \in (0..n) \ S : \A m \in (0..n) \ S : k <= m
    <2>1. (0..n) \ S \subseteq Nat
        OBVIOUS
    <2> QED
        BY <1>1, <2>1, Smallest
<1>3. k # 0 /\ k \in 0..n
    BY <1>2
<1>4. k - 1 \in 0..(n - 1) /\ ~ (k <= k - 1) /\ (k - 1) + 1 = k
    BY <1>3
<1>5. k - 1 \in S
    BY <1>2, <1>4
<1>6. k \in S
    BY <1>4, <1>5
<1> QED
    BY <1>2, <1>6

-----------------------------------------------------------------------------
(* Linked lists.                                                           *)

\* The pool has places.
LEMMA Pool == PoolSize \in Nat \ {0} /\ Sub \in Nat \ {0} /\ CycleMax \in Nat \ {0}
              /\ MaxCost \in Nat \ {0}
    BY EventListAssumption

\* One next pointer further on.
After(nx, p) == IF p = 0 THEN 0 ELSE nx[p]

\* It leads to a place of the pool or to the end.
LEMMA AfterType ==
    ASSUME NEW nx \in [Entries -> 0..PoolSize], NEW p \in 0..PoolSize
    PROVE  After(nx, p) \in 0..PoolSize
<1>1. p # 0 => p \in Entries
    BY Pool DEF Entries
<1>2. 0 \in 0..PoolSize
    BY Pool
<1> QED
    BY <1>1, <1>2 DEF After

\* Node is the walk along the next pointers that its definition describes.
LEMMA NodeWalks ==
    ASSUME NEW nx \in [Entries -> 0..PoolSize], NEW first \in 0..PoolSize
    PROVE  /\ Node(nx, first) \in [0..PoolSize -> 0..PoolSize]
           /\ Node(nx, first)[0] = first
           /\ \A k \in Entries :
                 Node(nx, first)[k] = After(nx, Node(nx, first)[k - 1])
<1> DEFINE Walk(f) == [k \in 0..PoolSize |->
                IF k = 0 THEN first
                ELSE LET p == f[k - 1] IN IF p = 0 THEN 0 ELSE nx[p]]
           Walks(n, g) == /\ g \in [0..n -> 0..PoolSize]
                          /\ g[0] = first
                          /\ \A k \in 1..n : g[k] = After(nx, g[k - 1])
           S == {n \in 0..PoolSize : \E g \in [0..n -> 0..PoolSize] : Walks(n, g)}
<1>1. 0 \in S
    <2> DEFINE g == [k \in 0..0 |-> first]
    <2>1. g \in [0..0 -> 0..PoolSize] /\ g[0] = first /\ 1..0 = {}
        OBVIOUS
    <2>2. Walks(0, g)
        BY <2>1
    <2>3. 0 \in 0..PoolSize
        BY Pool
    <2> HIDE DEF g, Walks
    <2> QED
        BY <2>1, <2>2, <2>3
<1>2. \A n \in 0..(PoolSize - 1) : n \in S => n + 1 \in S
    <2>1. SUFFICES ASSUME NEW n \in 0..(PoolSize - 1), n \in S PROVE n + 1 \in S
        OBVIOUS
    <2>2. PICK g \in [0..n -> 0..PoolSize] : Walks(n, g)
        BY <2>1
    <2> DEFINE h == [k \in 0..(n + 1) |-> IF k <= n THEN g[k] ELSE After(nx, g[n])]
    <2>3. n \in Nat /\ n + 1 \in 0..PoolSize
        BY Pool
    <2>4. After(nx, g[n]) \in 0..PoolSize
        <3>1. g[n] \in 0..PoolSize
            BY <2>3
        <3> QED
            BY <3>1, AfterType
    <2>5. h \in [0..(n + 1) -> 0..PoolSize]
        BY <2>4, <2>3
    <2>6. h[0] = first
        BY <2>2, <2>3
    <2>7. \A k \in 1..(n + 1) : h[k] = After(nx, h[k - 1])
        <3>1. TAKE k \in 1..(n + 1)
        <3>2. CASE k <= n
            <4>1. h[k] = g[k] /\ h[k - 1] = g[k - 1] /\ k \in 1..n
                BY <2>3, <3>2
            <4> QED
                BY <4>1, <2>2
        <3>3. CASE k = n + 1
            <4>1. h[k] = After(nx, g[n]) /\ h[k - 1] = g[n]
                BY <2>3, <3>3
            <4> QED
                BY <4>1
        <3> QED
            BY <3>2, <3>3, <2>3
    <2>8. Walks(n + 1, h)
        BY <2>5, <2>6, <2>7
    <2> QED
        BY <2>3, <2>5, <2>8
<1>3. PoolSize \in S
    <2> HIDE DEF S
    <2> QED
        BY <1>1, <1>2, UpTo, Pool
<1>4. PICK g \in [0..PoolSize -> 0..PoolSize] : Walks(PoolSize, g)
    BY <1>3
<1>5. g = Walk(g)
    <2>1. g = [k \in 0..PoolSize |-> g[k]]
        OBVIOUS
    <2>2. ASSUME NEW k \in 0..PoolSize
          PROVE  g[k] = Walk(g)[k]
        <3>1. CASE k = 0
            BY <1>4, <3>1
        <3>2. CASE k # 0
            <4>1. k \in 1..PoolSize
                BY <3>2, Pool
            <4>2. g[k] = After(nx, g[k - 1])
                BY <4>1, <1>4
            <4> QED
                BY <4>2, <3>2 DEF After
        <3> QED
            BY <3>1, <3>2
    <2>3. Walk(g) = [k \in 0..PoolSize |-> Walk(g)[k]]
        OBVIOUS
    <2> HIDE DEF Walk
    <2> QED
        BY <2>1, <2>2, <2>3
<1> DEFINE f == Node(nx, first)
<1>6. f = CHOOSE x : x = Walk(x)
    BY DEF Node
<1>7. f = Walk(f)
    <2> HIDE DEF Walk, f
    <2> QED
        BY <1>5, <1>6
<1>8. /\ DOMAIN f = 0..PoolSize
      /\ f[0] = first
      /\ \A k \in Entries : f[k] = After(nx, f[k - 1])
    <2> HIDE DEF f
    <2>1. DOMAIN Walk(f) = 0..PoolSize
        OBVIOUS
    <2>2. \A k \in 0..PoolSize :
             Walk(f)[k] = IF k = 0 THEN first ELSE After(nx, f[k - 1])
        BY DEF After
    <2> HIDE DEF Walk
    <2>3. \A k \in 0..PoolSize :
             f[k] = IF k = 0 THEN first ELSE After(nx, f[k - 1])
        BY <1>7, <2>2
    <2>4. DOMAIN f = 0..PoolSize
        BY <1>7, <2>1
    <2>5. 0 \in 0..PoolSize /\ \A k \in Entries : k \in 0..PoolSize /\ k # 0
        BY Pool DEF Entries
    <2> QED
        BY <2>3, <2>4, <2>5
<1>9. \A k \in 0..PoolSize : f[k] \in 0..PoolSize
    <2> DEFINE V == {k \in 0..PoolSize : f[k] \in 0..PoolSize}
    <2>1. 0 \in V
        BY <1>8, Pool
    <2>2. \A k \in 0..(PoolSize - 1) : k \in V => k + 1 \in V
        <3>1. SUFFICES ASSUME NEW k \in 0..(PoolSize - 1), k \in V PROVE k + 1 \in V
            OBVIOUS
        <3>2. k + 1 \in Entries /\ (k + 1) - 1 = k /\ k + 1 \in 0..PoolSize
            BY Pool DEF Entries
        <3>3. f[k + 1] = After(nx, f[k])
            BY <1>8, <3>2
        <3>4. After(nx, f[k]) \in 0..PoolSize
            <4>1. f[k] \in 0..PoolSize
                BY <3>1
            <4> HIDE DEF f, V, S, Walk, Walks
            <4> QED
                BY <4>1, AfterType
        <3> QED
            BY <3>2, <3>3, <3>4
    <2>3. 0..PoolSize \subseteq V
        <3> HIDE DEF V
        <3> QED
            BY <2>1, <2>2, UpTo, Pool
    <2> QED
        BY <2>3
<1>10. f = [k \in 0..PoolSize |-> f[k]]
    <2> HIDE DEF f
    <2> QED
        BY <1>7
<1> HIDE DEF f
<1> QED
    BY <1>8, <1>9, <1>10 DEF f
-----------------------------------------------------------------------------
\* The list that starts at first holds the n entries of s, in this order.
Listed(nx, first, s, n) ==
    /\ n \in 0..PoolSize
    /\ s \in [1..n -> Entries]
    /\ first = IF n = 0 THEN 0 ELSE s[1]
    /\ \A i \in 1..n : nx[s[i]] = IF i = n THEN 0 ELSE s[i + 1]
    /\ \A i, j \in 1..n : s[i] = s[j] => i = j

\* The entries on a list.
On(s, n) == {s[i] : i \in 1..n}

\* The definitions of the model find the list: Node ends, Chain is the sequence.
LEMMA ListFound ==
    ASSUME NEW nx \in [Entries -> 0..PoolSize], NEW first \in 0..PoolSize,
           NEW s, NEW n, Listed(nx, first, s, n)
    PROVE  /\ Chain(nx, first) = s
           /\ DOMAIN Chain(nx, first) = 1..n
           /\ Len(Chain(nx, first)) = n
           /\ ToSet(Chain(nx, first)) = On(s, n)
           /\ Node(nx, first)[PoolSize] = 0
<1> DEFINE f == Node(nx, first)
           At(k) == IF k < n THEN s[k + 1] ELSE 0
           V == {k \in 0..PoolSize : f[k] = At(k)}
<1>0. /\ n \in 0..PoolSize
      /\ s \in [1..n -> Entries]
      /\ first = IF n = 0 THEN 0 ELSE s[1]
      /\ \A i \in 1..n : nx[s[i]] = IF i = n THEN 0 ELSE s[i + 1]
    BY DEF Listed
<1>1. 0 \in V
    <2>1. f[0] = first
        BY NodeWalks, Zenon
    <2>2. first = At(0)
        BY <1>0, Pool
    <2>3. 0 \in 0..PoolSize
        BY Pool
    <2> QED
        BY <2>1, <2>2, <2>3, Zenon
<1>2. \A k \in 0..(PoolSize - 1) : k \in V => k + 1 \in V
    <2>1. SUFFICES ASSUME NEW k \in 0..(PoolSize - 1), k \in V PROVE k + 1 \in V
        OBVIOUS
    <2>2. k + 1 \in Entries /\ (k + 1) - 1 = k /\ k + 1 \in 0..PoolSize
        BY Pool DEF Entries
    <2>3. f[k + 1] = After(nx, At(k))
        <3>1. \A j \in Entries : f[j] = After(nx, f[j - 1])
            BY NodeWalks, Zenon
        <3>2. f[k] = At(k)
            BY <2>1
        <3> HIDE DEF f, At, V
        <3> QED
            BY <2>2, <3>1, <3>2
    <2>4. After(nx, At(k)) = At(k + 1)
        <3> HIDE DEF V, f
        <3>1. CASE k < n
            <4>1. k + 1 \in 1..n /\ s[k + 1] \in Entries
                BY <1>0, <3>1
            <4>2. s[k + 1] # 0
                BY <4>1 DEF Entries
            <4>3. After(nx, At(k)) = IF k + 1 = n THEN 0 ELSE s[(k + 1) + 1]
                BY <4>1, <4>2, <3>1, <1>0 DEF After
            <4>4. (k + 1 < n) <=> ~ (k + 1 = n)
                BY <3>1, <1>0
            <4> QED
                BY <4>3, <4>4
        <3>2. CASE ~ (k < n)
            <4>1. ~ (k + 1 < n)
                BY <3>2, <1>0
            <4> QED
                BY <4>1, <3>2 DEF After
        <3> QED
            BY <3>1, <3>2
    <2>5. f[k + 1] = At(k + 1)
        BY <2>3, <2>4, Zenon
    <2> HIDE DEF f, At
    <2> QED
        BY <2>2, <2>5
<1>3. \A k \in 0..PoolSize : f[k] = At(k)
    <2>1. 0..PoolSize \subseteq V
        <3> HIDE DEF V
        <3> QED
            BY <1>1, <1>2, UpTo, Pool
    <2> HIDE DEF f, At
    <2> QED
        BY <2>1
<1>4. f[PoolSize] = 0
    <2>1. PoolSize \in 0..PoolSize /\ ~ (PoolSize < n)
        BY Pool, <1>0
    <2> HIDE DEF f
    <2> QED
        BY <2>1, <1>3
<1>5. \A j \in Entries : f[j - 1] # 0 <=> j \in 1..n
    <2>1. TAKE j \in Entries
    <2>2. j - 1 \in 0..PoolSize /\ j \in Nat /\ j >= 1
        BY Pool DEF Entries
    <2>3. f[j - 1] = IF j - 1 < n THEN s[(j - 1) + 1] ELSE 0
        BY <2>2, <1>3, Zenon
    <2>4. (j - 1 < n) <=> j \in 1..n
        BY <2>2, <1>0
    <2>5. (j - 1) + 1 = j
        BY <2>2
    <2>6. j \in 1..n => s[j] # 0
        BY <1>0 DEF Entries
    <2> HIDE DEF f
    <2> QED
        BY <2>3, <2>4, <2>5, <2>6
<1>6. \A j \in 1..n : f[j - 1] = s[j]
    <2>1. TAKE j \in 1..n
    <2>2. j - 1 \in 0..PoolSize /\ j - 1 < n /\ (j - 1) + 1 = j
        BY Pool, <1>0
    <2> HIDE DEF f
    <2> QED
        BY <2>2, <1>3
<1>7. {j \in Entries : f[j - 1] # 0} = 1..n
    <2>1. 1..n \subseteq Entries
        BY <1>0, Pool DEF Entries
    <2> HIDE DEF f
    <2> QED
        BY <2>1, <1>5
<1>8. Chain(nx, first) = [k \in {j \in Entries : f[j - 1] # 0} |-> f[k - 1]]
    BY DEF Chain
<1>9. Chain(nx, first) = [k \in 1..n |-> s[k]]
    <2> HIDE DEF f
    <2> QED
        BY <1>6, <1>7, <1>8
<1>10. Chain(nx, first) = s /\ DOMAIN s = 1..n /\ n \in Nat
    BY <1>9, <1>0
<1>11. Len(s) = n
    BY <1>0, <1>10
<1>12. ToSet(s) = On(s, n)
    BY <1>10, Zenon DEF ToSet, On
<1> QED
    BY <1>4, <1>10, <1>11, <1>12

\* A list does not change with pointers of entries that are not on it.
LEMMA ListedFrame ==
    ASSUME NEW nx, NEW nx2, NEW first, NEW s, NEW n, Listed(nx, first, s, n),
           \A e \in On(s, n) : nx2[e] = nx[e]
    PROVE  Listed(nx2, first, s, n)
    BY DEF Listed, On

\* The entry that becomes the first.
Pushed(e, s, n) == [i \in 1..(n + 1) |-> IF i = 1 THEN e ELSE s[i - 1]]

\* An entry put in front of a list.
LEMMA ListedPush ==
    ASSUME NEW nx \in [Entries -> 0..PoolSize], NEW first, NEW s, NEW n,
           Listed(nx, first, s, n), n < PoolSize,
           NEW e \in Entries, e \notin On(s, n),
           NEW nx2, nx2[e] = first, \A x \in Entries : x # e => nx2[x] = nx[x]
    PROVE  /\ Listed(nx2, e, Pushed(e, s, n), n + 1)
           /\ On(Pushed(e, s, n), n + 1) = On(s, n) \cup {e}
<1> DEFINE t == Pushed(e, s, n)
<1>0. /\ n \in 0..PoolSize
      /\ s \in [1..n -> Entries]
      /\ first = IF n = 0 THEN 0 ELSE s[1]
      /\ \A i \in 1..n : nx[s[i]] = IF i = n THEN 0 ELSE s[i + 1]
      /\ \A i, j \in 1..n : s[i] = s[j] => i = j
    BY DEF Listed
<1>1. /\ n + 1 \in 0..PoolSize
      /\ 1 \in 1..(n + 1)
      /\ \A i \in 1..(n + 1) : i # 1 => i - 1 \in 1..n /\ (i - 1) + 1 = i
      /\ \A i \in 1..n : i + 1 \in 1..(n + 1) /\ i + 1 # 1 /\ (i + 1) - 1 = i
    BY <1>0, Pool
<1>2. /\ t[1] = e
      /\ \A i \in 1..(n + 1) : i # 1 => t[i] = s[i - 1]
      /\ \A i \in 1..n : t[i + 1] = s[i]
    BY <1>1 DEF Pushed
<1>3. t \in [1..(n + 1) -> Entries]
    BY <1>1, <1>0 DEF Pushed
<1>4. \A i \in 1..n : s[i] # e
    BY DEF On
<1>5. /\ nx2[e] = first
      /\ \A i \in 1..n : nx2[s[i]] = nx[s[i]]
    BY <1>4, <1>0
<1> HIDE DEF t
<1>6. \A i \in 1..(n + 1) : nx2[t[i]] = IF i = n + 1 THEN 0 ELSE t[i + 1]
    <2>1. TAKE i \in 1..(n + 1)
    <2>2. CASE i = 1
        <3>1. n = 0 \/ (n # 0 /\ 1 \in 1..n)
            BY <1>0
        <3> QED
            BY <3>1, <2>2, <1>5, <1>2, <1>0
    <2>3. CASE i # 1
        <3>1. i - 1 \in 1..n /\ (i - 1) + 1 = i /\ (i - 1 = n <=> i = n + 1)
            BY <2>3, <1>1, <1>0
        <3>2. nx2[t[i]] = IF i - 1 = n THEN 0 ELSE s[i]
            BY <3>1, <2>3, <1>2, <1>5, <1>0
        <3>3. i # n + 1 => i \in 1..n
            BY <1>0
        <3> QED
            BY <3>1, <3>2, <3>3, <1>2
    <2> QED
        BY <2>2, <2>3
<1>7. \A i, j \in 1..(n + 1) : t[i] = t[j] => i = j
    <2>1. TAKE i, j \in 1..(n + 1)
    <2>2. i # 1 /\ j # 1 /\ t[i] = t[j] => i = j
        <3>1. i # 1 /\ j # 1 /\ t[i] = t[j] => i - 1 = j - 1
            BY <1>0, <1>1, <1>2
        <3> QED
            BY <3>1, <1>0
    <2> QED
        BY <2>2, <1>1, <1>2, <1>4
<1>8. On(t, n + 1) = On(s, n) \cup {e}
    BY <1>1, <1>2 DEF On
<1>9. Listed(nx2, e, t, n + 1)
    <2>1. e = IF n + 1 = 0 THEN 0 ELSE t[1]
        BY <1>0, <1>2
    <2> QED
        BY <2>1, <1>1, <1>3, <1>6, <1>7 DEF Listed
<1> QED
    BY <1>8, <1>9 DEF t

\* The first entry is taken off.
Popped(s, n) == [i \in 1..(n - 1) |-> s[i + 1]]

\* The list behind its first entry.
LEMMA ListedPop ==
    ASSUME NEW nx \in [Entries -> 0..PoolSize], NEW first, NEW s, NEW n,
           Listed(nx, first, s, n), n # 0
    PROVE  /\ first = s[1] /\ first \in Entries
           /\ Listed(nx, nx[first], Popped(s, n), n - 1)
           /\ On(s, n) = On(Popped(s, n), n - 1) \cup {first}
           /\ first \notin On(Popped(s, n), n - 1)
<1> DEFINE t == Popped(s, n)
<1>0. /\ n \in 0..PoolSize /\ n - 1 \in 0..PoolSize /\ n \in Nat \ {0}
      /\ s \in [1..n -> Entries]
      /\ first = s[1] /\ 1 \in 1..n
      /\ \A i \in 1..n : nx[s[i]] = IF i = n THEN 0 ELSE s[i + 1]
      /\ \A i, j \in 1..n : s[i] = s[j] => i = j
    BY Pool DEF Listed
<1>1. \A i \in 1..(n - 1) : i + 1 \in 1..n /\ i + 1 # 1 /\ i \in 1..n
    BY <1>0
<1>2. \A i \in 1..n : i = 1 \/ (i - 1 \in 1..(n - 1) /\ (i - 1) + 1 = i)
    BY <1>0
<1>3. t \in [1..(n - 1) -> Entries] /\ \A i \in 1..(n - 1) : t[i] = s[i + 1]
    BY <1>0, <1>1 DEF Popped
<1> HIDE DEF t
<1>4. nx[first] = IF n - 1 = 0 THEN 0 ELSE t[1]
    <2>1. n = 1 \/ (n # 1 /\ n - 1 # 0 /\ 1 \in 1..(n - 1))
        BY <1>0
    <2> QED
        BY <2>1, <1>0, <1>3
<1>5. \A i \in 1..(n - 1) : nx[t[i]] = IF i = n - 1 THEN 0 ELSE t[i + 1]
    <2>1. TAKE i \in 1..(n - 1)
    <2>2. nx[t[i]] = IF i + 1 = n THEN 0 ELSE s[(i + 1) + 1]
        BY <1>0, <1>1, <1>3
    <2>3. /\ i + 1 = n <=> i = n - 1
          /\ i # n - 1 => i + 1 \in 1..(n - 1)
        BY <1>0
    <2> QED
        BY <2>2, <2>3, <1>3
<1>6. \A i, j \in 1..(n - 1) : t[i] = t[j] => i = j
    <2>1. TAKE i, j \in 1..(n - 1)
    <2>2. t[i] = t[j] => i + 1 = j + 1
        BY <1>0, <1>1, <1>3
    <2> QED
        BY <2>2, <1>0
<1>7. On(s, n) = On(t, n - 1) \cup {first}
    <2>1. \A i \in 1..n : s[i] \in On(t, n - 1) \cup {first}
        <3>1. TAKE i \in 1..n
        <3>2. CASE i = 1
            BY <3>2, <1>0
        <3>3. CASE i # 1
            <4>1. i - 1 \in 1..(n - 1) /\ t[i - 1] = s[i]
                BY <3>3, <1>2, <1>3
            <4> QED
                BY <4>1 DEF On
        <3> QED
            BY <3>2, <3>3
    <2>2. \A i \in 1..(n - 1) : t[i] \in On(s, n)
        BY <1>1, <1>3 DEF On
    <2>3. first \in On(s, n)
        BY <1>0 DEF On
    <2> QED
        BY <2>1, <2>2, <2>3 DEF On
<1>8. first \notin On(t, n - 1)
    BY <1>0, <1>1, <1>3 DEF On
<1>9. Listed(nx, nx[first], t, n - 1)
    BY <1>0, <1>3, <1>4, <1>5, <1>6 DEF Listed
<1> QED
    BY <1>0, <1>7, <1>8, <1>9 DEF t

\* An entry goes in at place k.
Spliced(s, k, e, n) ==
    [i \in 1..(n + 1) |-> IF i < k THEN s[i] ELSE IF i = k THEN e ELSE s[i - 1]]

\* An entry linked behind place k - 1.
LEMMA ListedSplice ==
    ASSUME NEW nx \in [Entries -> 0..PoolSize], NEW first, NEW s, NEW n,
           Listed(nx, first, s, n), n < PoolSize,
           NEW e \in Entries, e \notin On(s, n),
           NEW k \in 2..(n + 1),
           NEW nx2, nx2[e] = nx[s[k - 1]], nx2[s[k - 1]] = e,
           \A x \in Entries : x # e /\ x # s[k - 1] => nx2[x] = nx[x]
    PROVE  /\ Listed(nx2, first, Spliced(s, k, e, n), n + 1)
           /\ On(Spliced(s, k, e, n), n + 1) = On(s, n) \cup {e}
<1> DEFINE t == Spliced(s, k, e, n)
<1>0. /\ n \in 0..PoolSize
      /\ s \in [1..n -> Entries]
      /\ first = IF n = 0 THEN 0 ELSE s[1]
      /\ \A i \in 1..n : nx[s[i]] = IF i = n THEN 0 ELSE s[i + 1]
      /\ \A i, j \in 1..n : s[i] = s[j] => i = j
    BY DEF Listed
<1>1. /\ n + 1 \in 0..PoolSize /\ n \in Nat \ {0} /\ k \in 1..(n + 1)
      /\ k - 1 \in 1..n /\ k # 1 /\ 1 \in 1..n /\ 1 < k /\ k \in Nat
      /\ \A i \in 1..(n + 1) : i < k => i \in 1..n
      /\ \A i \in 1..(n + 1) : ~ (i < k) /\ i # k => i - 1 \in 1..n /\ (i - 1) + 1 = i
      /\ \A i \in 1..n : i < k => i \in 1..(n + 1)
      /\ \A i \in 1..n : ~ (i < k) =>
            i + 1 \in 1..(n + 1) /\ ~ (i + 1 < k) /\ i + 1 # k /\ (i + 1) - 1 = i
    BY <1>0, Pool
<1>2. /\ t[k] = e
      /\ \A i \in 1..(n + 1) : i < k => t[i] = s[i]
      /\ \A i \in 1..(n + 1) : ~ (i < k) /\ i # k => t[i] = s[i - 1]
      /\ \A i \in 1..n : ~ (i < k) => t[i + 1] = s[i]
    BY <1>1 DEF Spliced
<1>3. t \in [1..(n + 1) -> Entries]
    <2>1. t = [i \in 1..(n + 1) |-> t[i]]
        BY DEF Spliced
    <2>2. \A i \in 1..(n + 1) : t[i] \in Entries
        <3> HIDE DEF t
        <3> QED
            BY <1>0, <1>1, <1>2
    <2> HIDE DEF t
    <2> QED
        BY <2>1, <2>2
<1>4. \A i \in 1..n : s[i] # e
    BY DEF On
<1>5. /\ nx2[e] = nx[s[k - 1]]
      /\ nx2[s[k - 1]] = e
      /\ \A i \in 1..n : i # k - 1 => nx2[s[i]] = nx[s[i]]
    <2>1. s[k - 1] \in Entries /\ s[k - 1] # e
        BY <1>0, <1>1, <1>4
    <2>2. \A i \in 1..n : i # k - 1 => s[i] \in Entries /\ s[i] # s[k - 1] /\ s[i] # e
        BY <1>0, <1>1, <1>4
    <2> QED
        BY <2>1, <2>2
<1> HIDE DEF t
<1>6. \A i \in 1..(n + 1) : nx2[t[i]] = IF i = n + 1 THEN 0 ELSE t[i + 1]
    <2>1. TAKE i \in 1..(n + 1)
    <2>2. CASE i < k - 1
        <3>1. i \in 1..n /\ i # n /\ i # n + 1 /\ i < k /\ i # k - 1 /\ i + 1 < k
              /\ i + 1 \in 1..(n + 1)
            BY <2>2, <1>1
        <3> QED
            BY <3>1, <1>0, <1>2, <1>5
    <2>3. CASE i = k - 1
        <3>1. i < k /\ i # n + 1 /\ i + 1 = k
            BY <2>3, <1>1
        <3> QED
            BY <3>1, <2>3, <1>2, <1>5
    <2>4. CASE i = k
        <3>1. nx2[t[i]] = IF k - 1 = n THEN 0 ELSE s[(k - 1) + 1]
            BY <2>4, <1>0, <1>1, <1>2, <1>5
        <3>2. /\ k - 1 = n <=> i = n + 1
              /\ (k - 1) + 1 = i
              /\ i # n + 1 => i \in 1..n /\ ~ (i < k)
            BY <2>4, <1>1
        <3> QED
            BY <3>1, <3>2, <1>2
    <2>5. CASE i > k
        <3>1. /\ ~ (i < k) /\ i # k /\ i - 1 \in 1..n /\ i - 1 # k - 1 /\ (i - 1) + 1 = i
              /\ i - 1 = n <=> i = n + 1
              /\ i # n + 1 => i \in 1..n
            BY <2>5, <1>1
        <3>2. nx2[t[i]] = IF i - 1 = n THEN 0 ELSE s[(i - 1) + 1]
            <4>1. t[i] = s[i - 1]
                BY <3>1, <1>2
            <4>2. nx2[s[i - 1]] = nx[s[i - 1]]
                BY <3>1, <1>5
            <4>3. nx[s[i - 1]] = IF i - 1 = n THEN 0 ELSE s[(i - 1) + 1]
                BY <3>1, <1>0
            <4> QED
                BY <4>1, <4>2, <4>3, Zenon
        <3> QED
            BY <3>1, <3>2, <1>2
    <2> QED
        BY <2>2, <2>3, <2>4, <2>5, <1>1
<1>7. \A i, j \in 1..(n + 1) : t[i] = t[j] => i = j
    <2> DEFINE o(i) == IF i < k THEN i ELSE i - 1
    <2>1. \A i \in 1..(n + 1) : i # k => o(i) \in 1..n /\ t[i] = s[o(i)]
        BY <1>1, <1>2
    <2>2. \A i, j \in 1..(n + 1) : i # k /\ j # k /\ o(i) = o(j) => i = j
        BY <1>1
    <2> HIDE DEF o
    <2>3. TAKE i, j \in 1..(n + 1)
    <2>4. i # k /\ j # k /\ t[i] = t[j] => o(i) = o(j)
        BY <2>1, <1>0
    <2>5. \A x \in 1..(n + 1) : x # k => t[x] # e
        BY <2>1, <1>4
    <2>6. t[k] = e
        BY <1>2
    <2> QED
        BY <2>2, <2>4, <2>5, <2>6
<1>8. On(t, n + 1) = On(s, n) \cup {e}
    <2>1. \A i \in 1..(n + 1) : t[i] \in On(s, n) \cup {e}
        BY <1>1, <1>2 DEF On
    <2>2. \A i \in 1..n : s[i] \in On(t, n + 1)
        <3>1. TAKE i \in 1..n
        <3>2. CASE i < k
            <4>1. i \in 1..(n + 1) /\ t[i] = s[i]
                BY <3>2, <1>1, <1>2
            <4> QED
                BY <4>1 DEF On
        <3>3. CASE ~ (i < k)
            <4>1. i + 1 \in 1..(n + 1) /\ t[i + 1] = s[i]
                BY <3>3, <1>1, <1>2
            <4> QED
                BY <4>1 DEF On
        <3> QED
            BY <3>2, <3>3
    <2>3. e \in On(t, n + 1)
        BY <1>1, <1>2 DEF On
    <2> QED
        BY <2>1, <2>2, <2>3 DEF On
<1>9. Listed(nx2, first, t, n + 1)
    <2>1. first = IF n + 1 = 0 THEN 0 ELSE t[1]
        <3>1. n + 1 # 0 /\ n # 0 /\ 1 \in 1..(n + 1)
            BY <1>1
        <3> QED
            BY <3>1, <1>0, <1>1, <1>2
    <2> QED
        BY <2>1, <1>1, <1>3, <1>6, <1>7 DEF Listed
<1> QED
    BY <1>8, <1>9 DEF t

\* The entry at place k goes out.
Cut(s, k, n) == [i \in 1..(n - 1) |-> IF i < k THEN s[i] ELSE s[i + 1]]

\* The entry at place k unlinked: the one before it takes its next pointer.
LEMMA ListedCut ==
    ASSUME NEW nx \in [Entries -> 0..PoolSize], NEW first, NEW s, NEW n,
           Listed(nx, first, s, n), NEW k \in 2..n
    PROVE  /\ Listed([nx EXCEPT ![s[k - 1]] = nx[s[k]]], first, Cut(s, k, n), n - 1)
           /\ On(s, n) = On(Cut(s, k, n), n - 1) \cup {s[k]}
           /\ s[k] \notin On(Cut(s, k, n), n - 1)
<1> DEFINE t == Cut(s, k, n)
           nx2 == [nx EXCEPT ![s[k - 1]] = nx[s[k]]]
           o(i) == IF i < k THEN i ELSE i + 1
<1>0. /\ n \in 0..PoolSize
      /\ s \in [1..n -> Entries]
      /\ first = IF n = 0 THEN 0 ELSE s[1]
      /\ \A i \in 1..n : nx[s[i]] = IF i = n THEN 0 ELSE s[i + 1]
      /\ \A i, j \in 1..n : s[i] = s[j] => i = j
    BY DEF Listed
<1>1. /\ n - 1 \in 0..PoolSize /\ n \in Nat /\ n # 0 /\ n - 1 # 0 /\ k \in 1..n
      /\ k - 1 \in 1..n /\ k - 1 \in 1..(n - 1) /\ 1 \in 1..(n - 1) /\ 1 < k /\ k - 1 < k
      /\ (k - 1) + 1 = k /\ k \in Nat
      /\ \A i \in 1..(n - 1) : o(i) \in 1..n /\ o(i) # k
      /\ \A i \in 1..n : i # k => \E j \in 1..(n - 1) : o(j) = i
      /\ \A i, j \in 1..(n - 1) : o(i) = o(j) => i = j
    <2>1. \A i \in 1..n : i # k => \E j \in 1..(n - 1) : o(j) = i
        <3>1. TAKE i \in 1..n
        <3>2. CASE i < k
            <4>1. i \in 1..(n - 1) /\ o(i) = i
                BY <3>2, <1>0
            <4> QED
                BY <4>1
        <3>3. CASE i > k
            <4>1. i - 1 \in 1..(n - 1) /\ o(i - 1) = i
                BY <3>3, <1>0
            <4> QED
                BY <4>1
        <3> QED
            BY <3>2, <3>3, <1>0
    <2> QED
        BY <2>1, <1>0, Pool
<1>2. \A i \in 1..(n - 1) : t[i] = s[o(i)]
    BY DEF Cut
<1>3. t \in [1..(n - 1) -> Entries]
    <2>1. t = [i \in 1..(n - 1) |-> t[i]]
        BY DEF Cut
    <2>2. \A i \in 1..(n - 1) : t[i] \in Entries
        <3> HIDE DEF t, o, nx2
        <3>1. TAKE i \in 1..(n - 1)
        <3>2. o(i) \in 1..n /\ t[i] = s[o(i)]
            BY <1>1, <1>2
        <3>3. s[o(i)] \in Entries
            BY <3>2, <1>0
        <3> QED
            BY <3>2, <3>3, Zenon
    <2> HIDE DEF t
    <2> QED
        BY <2>1, <2>2
<1>4. /\ nx2[s[k - 1]] = IF k = n THEN 0 ELSE s[k + 1]
      /\ \A i \in 1..n : i # k - 1 => nx2[s[i]] = nx[s[i]]
    <2>1. s[k - 1] \in Entries
        BY <1>0, <1>1
    <2>2. \A i \in 1..n : i # k - 1 => s[i] \in Entries /\ s[i] # s[k - 1]
        BY <1>0, <1>1
    <2>3. nx[s[k]] = IF k = n THEN 0 ELSE s[k + 1]
        BY <1>0, <1>1
    <2> QED
        BY <2>1, <2>2, <2>3
<1> HIDE DEF t, nx2
<1>5. \A i \in 1..(n - 1) : nx2[t[i]] = IF i = n - 1 THEN 0 ELSE t[i + 1]
    <2>1. TAKE i \in 1..(n - 1)
    <2>2. CASE i = k - 1
        <3>1. /\ o(i) = k - 1
              /\ k = n <=> i = n - 1
              /\ i # n - 1 => i + 1 \in 1..(n - 1) /\ o(i + 1) = k + 1
            BY <2>2, <1>1
        <3> HIDE DEF o
        <3> QED
            BY <3>1, <1>2, <1>4
    <2>3. CASE i # k - 1
        <3>1. /\ o(i) # k - 1 /\ o(i) \in 1..n
              /\ o(i) = n <=> i = n - 1
              /\ i # n - 1 => i + 1 \in 1..(n - 1) /\ o(i + 1) = o(i) + 1
            BY <2>3, <1>1
        <3> HIDE DEF o
        <3>2. t[i] = s[o(i)]
            BY <1>2
        <3>3. nx2[s[o(i)]] = nx[s[o(i)]]
            BY <3>1, <1>4
        <3>4. nx[s[o(i)]] = IF o(i) = n THEN 0 ELSE s[o(i) + 1]
            BY <3>1, <1>0
        <3>5. i # n - 1 => t[i + 1] = s[o(i) + 1]
            BY <3>1, <1>2
        <3> QED
            BY <3>1, <3>2, <3>3, <3>4, <3>5, Zenon
    <2> QED
        BY <2>2, <2>3
<1> HIDE DEF o
<1>6. \A i, j \in 1..(n - 1) : t[i] = t[j] => i = j
    BY <1>0, <1>1, <1>2
<1>7. On(s, n) = On(t, n - 1) \cup {s[k]}
    <2>1. \A i \in 1..n : s[i] \in On(t, n - 1) \cup {s[k]}
        <3>1. TAKE i \in 1..n
        <3>2. CASE i # k
            <4>1. PICK j \in 1..(n - 1) : o(j) = i
                BY <3>2, <1>1
            <4>2. t[j] = s[i]
                BY <4>1, <1>2
            <4> QED
                BY <4>2 DEF On
        <3> QED
            BY <3>2
    <2>2. \A i \in 1..(n - 1) : t[i] \in On(s, n)
        BY <1>1, <1>2 DEF On
    <2>3. s[k] \in On(s, n)
        BY <1>1 DEF On
    <2> QED
        BY <2>1, <2>2, <2>3 DEF On
<1>8. s[k] \notin On(t, n - 1)
    BY <1>0, <1>1, <1>2 DEF On
<1>9. Listed(nx2, first, t, n - 1)
    <2>1. t[1] = s[1]
        BY <1>1, <1>2 DEF o
    <2> QED
        BY <2>1, <1>0, <1>1, <1>3, <1>5, <1>6 DEF Listed
<1> QED
    BY <1>7, <1>8, <1>9 DEF t, nx2

-----------------------------------------------------------------------------
(* The removal loop.                                                       *)

ListRecord == [next : [Entries -> 0..PoolSize], head : 0..PoolSize,
               free : 0..PoolSize, prev : 0..PoolSize]

\* What one visit makes of each field.
LEMMA VisitFields ==
    ASSUME NEW doomed, NEW list \in ListRecord, NEW e \in Entries
    PROVE  /\ e \notin doomed =>
                 /\ Visit(doomed, list, e) =
                       [next |-> list.next, head |-> list.head,
                        free |-> list.free, prev |-> e]
           /\ e \in doomed /\ list.prev # 0 =>
                 /\ Visit(doomed, list, e) =
                       [next |-> [list.next EXCEPT ![list.prev] = list.next[e],
                                                   ![e] = list.free],
                        head |-> list.head, free |-> e, prev |-> list.prev]
           /\ e \in doomed /\ list.prev = 0 =>
                 /\ Visit(doomed, list, e) =
                       [next |-> [list.next EXCEPT ![e] = list.free],
                        head |-> list.next[e], free |-> e, prev |-> list.prev]
<1>1. e \notin doomed =>
                 /\ Visit(doomed, list, e) =
                       [next |-> list.next, head |-> list.head,
                        free |-> list.free, prev |-> e]
    BY DEF Visit, ListRecord
<1>2. e \in doomed /\ list.prev # 0 =>
                 /\ Visit(doomed, list, e) =
                       [next |-> [list.next EXCEPT ![list.prev] = list.next[e],
                                                   ![e] = list.free],
                        head |-> list.head, free |-> e, prev |-> list.prev]
    BY DEF Visit, ListRecord
<1>3. e \in doomed /\ list.prev = 0 =>
                 /\ Visit(doomed, list, e) =
                       [next |-> [list.next EXCEPT ![e] = list.free],
                        head |-> list.next[e], free |-> e, prev |-> list.prev]
    BY DEF Visit, ListRecord
<1> QED
    BY <1>1, <1>2, <1>3

\* The entries at the places c of the sequence q.
At(q, c, z) == [x \in 1..z |-> q[c[x]]]

\* After i visits: places c of the queue q are linked from the head, all that is
\* not doomed up to i and everything behind it; the rest is on the free list.
Walked(q, n, g, m, doomed, i, list, c, z, gg, gm) ==
    /\ list \in ListRecord
    /\ z \in (n - i)..n /\ gm = m + n - z
    /\ c \in [1..z -> 1..n]
    /\ \A x, y \in 1..z : x < y => c[x] < c[y]
    /\ \A x \in 1..z : x > z - (n - i) => c[x] = x + (n - z)
    /\ \A x \in 1..z : x <= z - (n - i) => c[x] <= i /\ q[c[x]] \notin doomed
    /\ \A j \in 1..i : q[j] \notin doomed => \E x \in 1..z : c[x] = j
    /\ list.prev = IF z = n - i THEN 0 ELSE q[c[z - (n - i)]]
    /\ Listed(list.next, list.head, At(q, c, z), z)
    /\ Listed(list.next, list.free, gg, gm)
    /\ On(gg, gm) = On(g, m) \cup {q[j] : j \in {y \in 1..i : q[y] \in doomed}}

\* Before the first visit nothing is taken out.
LEMMA WalkStarts ==
    ASSUME NEW q, NEW n, NEW g, NEW m, NEW doomed, NEW list \in ListRecord,
           Listed(list.next, list.head, q, n), Listed(list.next, list.free, g, m),
           list.prev = 0
    PROVE  Walked(q, n, g, m, doomed, 0, list, [x \in 1..n |-> x], n, g, m)
<1> DEFINE c == [x \in 1..n |-> x]
<1>0. n \in Nat /\ m \in Nat /\ q \in [1..n -> Entries]
    BY Pool DEF Listed
<1>1. At(q, c, n) = q
    BY <1>0 DEF At
<1>2. /\ n \in (n - 0)..n /\ m = m + n - n /\ c \in [1..n -> 1..n]
      /\ \A x, y \in 1..n : x < y => c[x] < c[y]
      /\ \A x \in 1..n : x > n - (n - 0) => c[x] = x + (n - n)
      /\ \A x \in 1..n : ~ (x <= n - (n - 0))
      /\ 1..0 = {}
      /\ n = n - 0
    BY <1>0
<1>3. {q[j] : j \in {y \in 1..0 : q[y] \in doomed}} = {}
    BY <1>2
<1> HIDE DEF c
<1> QED
    BY <1>1, <1>2, <1>3 DEF Walked

\* A visit to an entry that stays.
LEMMA WalkKeeps ==
    ASSUME NEW q, NEW n \in Nat, NEW g, NEW m \in Nat, NEW doomed,
           NEW i \in 0..(n - 1), NEW list, NEW c, NEW z, NEW gg, NEW gm,
           q \in [1..n -> Entries],
           Walked(q, n, g, m, doomed, i, list, c, z, gg, gm),
           q[i + 1] \notin doomed
    PROVE  Walked(q, n, g, m, doomed, i + 1, Visit(doomed, list, q[i + 1]),
                  c, z, gg, gm)
<1> DEFINE e == q[i + 1]
           list2 == [next |-> list.next, head |-> list.head,
                     free |-> list.free, prev |-> e]
<1>0. /\ list \in ListRecord
      /\ z \in (n - i)..n /\ gm = m + n - z
      /\ c \in [1..z -> 1..n]
      /\ \A x, y \in 1..z : x < y => c[x] < c[y]
      /\ \A x \in 1..z : x > z - (n - i) => c[x] = x + (n - z)
      /\ \A x \in 1..z : x <= z - (n - i) => c[x] <= i /\ q[c[x]] \notin doomed
      /\ \A j \in 1..i : q[j] \notin doomed => \E x \in 1..z : c[x] = j
      /\ list.prev = IF z = n - i THEN 0 ELSE q[c[z - (n - i)]]
      /\ Listed(list.next, list.head, At(q, c, z), z)
      /\ Listed(list.next, list.free, gg, gm)
      /\ On(gg, gm) = On(g, m) \cup {q[j] : j \in {y \in 1..i : q[y] \in doomed}}
    BY DEF Walked
<1>1. e \in Entries /\ i + 1 \in 1..n
    BY <1>0
<1>2. Visit(doomed, list, e) = list2
    <2>1. list \in ListRecord /\ e \in Entries /\ e \notin doomed
        BY <1>0, <1>1
    <2> HIDE DEF e
    <2> QED
        BY <2>1, VisitFields
<1> DEFINE k == z - (n - i)
<1>3. /\ z - (n - (i + 1)) = k + 1 /\ k + 1 \in 1..z /\ k \in Nat /\ z # n - (i + 1)
      /\ (k + 1) + (n - z) = i + 1 /\ k + 1 > k
      /\ z \in (n - (i + 1))..n
    BY <1>0
<1>4. c[k + 1] = i + 1
    BY <1>0, <1>3
<1>5. \A x \in 1..z : x > k + 1 => c[x] = x + (n - z)
    BY <1>0, <1>3
<1>6. \A x \in 1..z : x <= k + 1 => c[x] <= i + 1 /\ q[c[x]] \notin doomed
    <2>1. TAKE x \in 1..z
    <2>2. CASE x = k + 1
        BY <2>2, <1>4, <1>1
    <2>3. CASE x <= k
        <3>1. c[x] <= i /\ q[c[x]] \notin doomed /\ c[x] \in 1..n
            BY <2>3, <1>0
        <3> QED
            BY <3>1
    <2> QED
        BY <2>2, <2>3, <1>3
<1>7. \A j \in 1..(i + 1) : q[j] \notin doomed => \E x \in 1..z : c[x] = j
    <2>1. TAKE j \in 1..(i + 1)
    <2>2. j = i + 1 \/ j \in 1..i
        OBVIOUS
    <2> QED
        BY <2>2, <1>0, <1>3, <1>4
<1>8. {q[j] : j \in {y \in 1..(i + 1) : q[y] \in doomed}}
        = {q[j] : j \in {y \in 1..i : q[y] \in doomed}}
    <2>1. {y \in 1..(i + 1) : q[y] \in doomed} = {y \in 1..i : q[y] \in doomed}
        <3>1. \A y : y \in 1..(i + 1) <=> y \in 1..i \/ y = i + 1
            OBVIOUS
        <3> QED
            BY <3>1
    <2> QED
        BY <2>1
<1>9. /\ list2 \in ListRecord
      /\ list2.next = list.next /\ list2.head = list.head /\ list2.free = list.free
      /\ list2.prev = q[i + 1]
    <2>1. e \in 0..PoolSize
        BY <1>1, Pool DEF Entries
    <2> HIDE DEF e
    <2>2. list2 \in ListRecord
        BY <2>1, <1>0 DEF ListRecord
    <2> QED
        BY <2>2 DEF e
<1>10. list2.prev = IF z = n - (i + 1) THEN 0 ELSE q[c[z - (n - (i + 1))]]
    BY <1>3, <1>4, <1>9
<1> HIDE DEF list2
<1>11. Walked(q, n, g, m, doomed, i + 1, list2, c, z, gg, gm)
    <2>1. /\ \A x \in 1..z : x > z - (n - (i + 1)) => c[x] = x + (n - z)
          /\ \A x \in 1..z : x <= z - (n - (i + 1)) => c[x] <= i + 1 /\ q[c[x]] \notin doomed
        <3> HIDE DEF k
        <3> QED
            BY <1>3, <1>5, <1>6
    <2> QED
        BY <2>1, <1>0, <1>3, <1>7, <1>8, <1>9, <1>10, Zenon DEF Walked
<1> QED
    BY <1>2, <1>11, Zenon

\* A visit to an entry that goes.
LEMMA WalkRemoves ==
    ASSUME NEW q, NEW n \in 0..PoolSize, NEW g, NEW m \in Nat, NEW doomed,
           NEW i \in 0..(n - 1), NEW list, NEW c, NEW z, NEW gg, NEW gm,
           q \in [1..n -> Entries], n + m <= PoolSize,
           \A x, y \in 1..n : q[x] = q[y] => x = y,
           On(q, n) \cap On(g, m) = {},
           Walked(q, n, g, m, doomed, i, list, c, z, gg, gm),
           q[i + 1] \in doomed
    PROVE  LET e == q[i + 1] IN
           Walked(q, n, g, m, doomed, i + 1, Visit(doomed, list, e),
                  Cut(c, z - (n - i) + 1, z), z - 1, Pushed(e, gg, gm), gm + 1)
<1> DEFINE e == q[i + 1]
           k == z - (n - i)
           s == At(q, c, z)
           c2 == Cut(c, k + 1, z)
           list2 == Visit(doomed, list, e)
           gone(j) == {q[x] : x \in {y \in 1..j : q[y] \in doomed}}
<1>0. /\ list \in ListRecord
      /\ z \in (n - i)..n /\ gm = m + n - z
      /\ c \in [1..z -> 1..n]
      /\ \A x, y \in 1..z : x < y => c[x] < c[y]
      /\ \A x \in 1..z : x > z - (n - i) => c[x] = x + (n - z)
      /\ \A x \in 1..z : x <= z - (n - i) => c[x] <= i /\ q[c[x]] \notin doomed
      /\ \A j \in 1..i : q[j] \notin doomed => \E x \in 1..z : c[x] = j
      /\ list.prev = IF z = n - i THEN 0 ELSE q[c[z - (n - i)]]
      /\ Listed(list.next, list.head, At(q, c, z), z)
      /\ Listed(list.next, list.free, gg, gm)
      /\ On(gg, gm) = On(g, m) \cup gone(i)
    BY DEF Walked
<1>a. /\ list.next \in [Entries -> 0..PoolSize] /\ list.head \in 0..PoolSize
      /\ list.free \in 0..PoolSize /\ list.prev \in 0..PoolSize
    BY <1>0 DEF ListRecord
<1>1. e \in Entries /\ i + 1 \in 1..n /\ e \in doomed /\ e \in 0..PoolSize /\ e # 0
    BY Pool DEF Entries
<1>3. /\ k + 1 \in 1..z /\ k \in Nat /\ z \in Nat \ {0} /\ z - 1 \in (n - (i + 1))..n
      /\ (k + 1) + (n - z) = i + 1 /\ k + 1 > k /\ (k + 1) - 1 = k
      /\ z - 1 - (n - (i + 1)) = k
      /\ z - 1 = n - (i + 1) <=> k = 0
      /\ z = n - i <=> k = 0
      /\ k # 0 => k \in 1..z /\ k + 1 \in 2..z /\ k \in 1..(z - 1)
      /\ gm \in Nat /\ gm + 1 = m + n - (z - 1) /\ gm < PoolSize
      /\ n \in Nat /\ i \in Nat
    <2>1. n \in Nat /\ i \in Nat /\ PoolSize \in Nat /\ i < n
        BY Pool
    <2>2. z \in (n - i)..n /\ gm = m + n - z
        BY <1>0
    <2>3. z \in Nat /\ n - i <= z /\ z <= n
        BY <2>1, <2>2
    <2>4. gm \in Nat /\ gm + 1 = m + n - (z - 1) /\ gm < PoolSize
        BY <2>1, <2>2, <2>3
    <2> QED
        BY <2>1, <2>3, <2>4
<1>4. c[k + 1] = i + 1
    BY <1>0, <1>3
<1>5. s \in [1..z -> Entries] /\ \A x \in 1..z : s[x] = q[c[x]]
    BY <1>0 DEF At
<1>6. s[k + 1] = e
    BY <1>3, <1>4, <1>5
<1>7. At(q, c2, z - 1) = Cut(s, k + 1, z)
    <2>1. \A x \in 1..(z - 1) : x \in 1..z /\ x + 1 \in 1..z
        BY <1>3
    <2>2. \A x \in 1..(z - 1) : q[c2[x]] = IF x < k + 1 THEN s[x] ELSE s[x + 1]
        BY <2>1, <1>5 DEF Cut
    <2> HIDE DEF c2, s, k
    <2> QED
        BY <2>2 DEF At, Cut
<1>8. /\ On(s, z) = On(At(q, c2, z - 1), z - 1) \cup {e}
      /\ e \notin On(At(q, c2, z - 1), z - 1)
      /\ k = 0 => Listed(list.next, list.next[e], At(q, c2, z - 1), z - 1)
      /\ k # 0 => /\ Listed([list.next EXCEPT ![s[k]] = list.next[e]], list.head,
                             At(q, c2, z - 1), z - 1)
                  /\ s[k] = list.prev /\ s[k] \in Entries /\ s[k] # 0
                  /\ s[k] \in On(s, z)
    <2> HIDE DEF s, k, c2, e
    <2>1. Listed(list.next, list.head, s, z)
        BY <1>0 DEF s
    <2>2. CASE k = 0
        <3>0. z # 0 /\ list.next \in [Entries -> 0..PoolSize]
            BY <1>3, <1>a
        <3>1. /\ list.head = s[1]
              /\ Listed(list.next, list.next[list.head], Popped(s, z), z - 1)
              /\ On(s, z) = On(Popped(s, z), z - 1) \cup {list.head}
              /\ list.head \notin On(Popped(s, z), z - 1)
            BY <2>1, <3>0, ListedPop
        <3>2. Popped(s, z) = Cut(s, k + 1, z)
            BY <2>2 DEF Popped, Cut
        <3>3. list.head = e
            BY <3>1, <1>6, <2>2
        <3> QED
            BY <3>1, <3>2, <3>3, <1>7, <2>2
    <2>3. CASE k # 0
        <3>1. /\ Listed([list.next EXCEPT ![s[(k + 1) - 1]] = list.next[s[k + 1]]],
                         list.head, Cut(s, k + 1, z), z - 1)
              /\ On(s, z) = On(Cut(s, k + 1, z), z - 1) \cup {s[k + 1]}
              /\ s[k + 1] \notin On(Cut(s, k + 1, z), z - 1)
            BY <2>1, <1>3, <1>a, <2>3, ListedCut
        <3>2. s[k] = list.prev
            BY <1>0, <1>3, <1>5, <2>3 DEF k
        <3>3. s[k] \in Entries /\ s[k] # 0 /\ s[k] \in On(s, z)
            <4>1. k \in 1..z
                BY <1>3, <2>3
            <4>2. s[k] \in Entries
                BY <4>1, <1>5
            <4>3. s[k] \in On(s, z)
                BY <4>1 DEF On
            <4>4. \A x \in Entries : x # 0
                BY DEF Entries
            <4> QED
                BY <4>2, <4>3, <4>4
        <3> QED
            BY <3>1, <3>2, <3>3, <1>3, <1>6, <1>7, <2>3
    <2> QED
        BY <2>2, <2>3
\* no entry of the queue that is linked is on the free list
<1>9. e \notin On(gg, gm)
    <2>1. e \in On(q, n)
        BY <1>1 DEF On
    <2>2. e \notin gone(i)
        BY <1>1
    <2> HIDE DEF e, gone
    <2> QED
        BY <2>1, <2>2, <1>0
<1>10. k # 0 => s[k] \notin On(gg, gm) /\ s[k] # e
    <2>1. SUFFICES ASSUME k # 0 PROVE s[k] \notin On(gg, gm) /\ s[k] # e
        OBVIOUS
    <2>2. s[k] = q[c[k]] /\ c[k] \in 1..n /\ q[c[k]] \notin doomed
        BY <2>1, <1>0, <1>3, <1>5
    <2>3. s[k] \in On(q, n) /\ s[k] \notin doomed
        BY <2>2 DEF On
    <2>4. s[k] \notin gone(i)
        BY <2>3
    <2> HIDE DEF gone, s, k, e
    <2> QED
        BY <2>3, <2>4, <1>0, <1>1
<1>11. /\ list2 \in ListRecord
       /\ Listed(list2.next, list2.head, At(q, c2, z - 1), z - 1)
       /\ Listed(list2.next, list2.free, Pushed(e, gg, gm), gm + 1)
       /\ list2.prev = list.prev
    <2> DEFINE nx == IF k = 0 THEN list.next
                     ELSE [list.next EXCEPT ![list.prev] = list.next[e]]
               head == IF k = 0 THEN list.next[e] ELSE list.head
    <2>0. list.prev = 0 <=> k = 0
        BY <1>0, <1>3, <1>8
    <2>1. list2 = [next |-> [nx EXCEPT ![e] = list.free], head |-> head,
                   free |-> e, prev |-> list.prev]
        <3>1. k # 0 => list2 = [next |-> [list.next EXCEPT ![list.prev] = list.next[e],
                                                   ![e] = list.free],
                        head |-> list.head, free |-> e, prev |-> list.prev]
            <4>1. list \in ListRecord /\ e \in Entries /\ e \in doomed
                BY <1>0, <1>1
            <4> HIDE DEF e, k
            <4> QED
                BY <2>0, <4>1, VisitFields
        <3>2. k = 0 => list2 = [next |-> [list.next EXCEPT ![e] = list.free],
                        head |-> list.next[e], free |-> e, prev |-> list.prev]
            <4>1. list \in ListRecord /\ e \in Entries /\ e \in doomed
                BY <1>0, <1>1
            <4>2. k = 0 => list.prev = 0
                BY <2>0
            <4> HIDE DEF e, k, nx, head
            <4>3. list.prev = 0 => list2 = [next |-> [list.next EXCEPT ![e] = list.free],
                        head |-> list.next[e], free |-> e, prev |-> list.prev]
                BY <4>1, VisitFields
            <4> HIDE DEF list2
            <4> QED
                BY <4>2, <4>3
        <3> HIDE DEF k, e, list2
        <3> QED
            BY <3>1, <3>2
    <2>2. nx \in [Entries -> 0..PoolSize] /\ head \in 0..PoolSize
        <3> HIDE DEF k, e
        <3> QED
            BY <1>a, <1>1
    <2>3. Listed(nx, head, At(q, c2, z - 1), z - 1)
        <3> HIDE DEF k, e, c2
        <3> QED
            BY <1>8
    <2>4. Listed(nx, list.free, gg, gm)
        <3> HIDE DEF k, e, s
        <3>1. \A x \in On(gg, gm) : nx[x] = list.next[x]
            <4>1. \A x \in On(gg, gm) : x \in Entries
                BY <1>0 DEF On, Listed
            <4> QED
                BY <4>1, <1>8, <1>10, <1>a
        <3> HIDE DEF nx
        <3> QED
            BY <3>1, <1>0, ListedFrame
    <2> HIDE DEF nx, head
    <2>5. Listed([nx EXCEPT ![e] = list.free], e, Pushed(e, gg, gm), gm + 1)
        <3> DEFINE nx2 == [nx EXCEPT ![e] = list.free]
        <3> HIDE DEF e
        <3>1. nx2[e] = list.free /\ \A x \in Entries : x # e => nx2[x] = nx[x]
            BY <2>2, <1>1
        <3> HIDE DEF nx2
        <3>2. Listed(nx2, e, Pushed(e, gg, gm), gm + 1)
            BY <3>1, <2>2, <2>4, <1>1, <1>3, <1>9, ListedPush
        <3> QED
            BY <3>2 DEF nx2
    <2>6. Listed([nx EXCEPT ![e] = list.free], head, At(q, c2, z - 1), z - 1)
        <3> HIDE DEF e, c2
        <3>1. \A x \in On(At(q, c2, z - 1), z - 1) : [nx EXCEPT ![e] = list.free][x] = nx[x]
            <4>1. \A x \in On(At(q, c2, z - 1), z - 1) : x # e /\ x \in Entries
                BY <1>8, <2>3 DEF On, Listed
            <4> QED
                BY <4>1, <2>2
        <3> DEFINE nx2 == [nx EXCEPT ![e] = list.free]
        <3> HIDE DEF nx2
        <3>2. \A x \in On(At(q, c2, z - 1), z - 1) : nx2[x] = nx[x]
            BY <3>1 DEF nx2
        <3>3. Listed(nx2, head, At(q, c2, z - 1), z - 1)
            BY <3>2, <2>3, ListedFrame
        <3> QED
            BY <3>3 DEF nx2
    <2>7. [nx EXCEPT ![e] = list.free] \in [Entries -> 0..PoolSize]
        <3> HIDE DEF e
        <3> QED
            BY <2>2, <1>a
    <2> HIDE DEF list2, e, c2
    <2> QED
        BY <2>1, <2>2, <2>5, <2>6, <2>7, <1>a, <1>1 DEF ListRecord
<1>12. On(Pushed(e, gg, gm), gm + 1) = On(g, m) \cup gone(i + 1)
    <2>1. On(Pushed(e, gg, gm), gm + 1) = On(gg, gm) \cup {e}
        <3>1. Listed(list.next, list.free, gg, gm)
            BY <1>0
        <3>2. gm < PoolSize /\ e \in Entries /\ list.next \in [Entries -> 0..PoolSize]
            BY <1>3, <1>1, <1>a
        <3> HIDE DEF e, c2, k, s, list2, gone
        <3> DEFINE nx2 == [list.next EXCEPT ![e] = list.free]
        <3>3. nx2[e] = list.free /\ \A x \in Entries : x # e => nx2[x] = list.next[x]
            BY <3>2
        <3> HIDE DEF nx2
        <3>4. /\ Listed(nx2, e, Pushed(e, gg, gm), gm + 1)
              /\ On(Pushed(e, gg, gm), gm + 1) = On(gg, gm) \cup {e}
            BY <3>1, <3>2, <3>3, <1>9, ListedPush
        <3> QED
            BY <3>4
    <2>2. gone(i + 1) = gone(i) \cup {e}
        <3>1. {y \in 1..(i + 1) : q[y] \in doomed} = {y \in 1..i : q[y] \in doomed} \cup {i + 1}
            <4>1. \A y : y \in 1..(i + 1) <=> y \in 1..i \/ y = i + 1
                BY <1>3
            <4> QED
                BY <4>1, <1>1
        <3> QED
            BY <3>1
    <2> HIDE DEF e, gone
    <2> QED
        BY <2>1, <2>2, <1>0
<1>13. /\ c2 \in [1..(z - 1) -> 1..n]
       /\ \A x, y \in 1..(z - 1) : x < y => c2[x] < c2[y]
       /\ \A x \in 1..(z - 1) : x > k => c2[x] = x + (n - (z - 1))
       /\ \A x \in 1..(z - 1) : x <= k => c2[x] = c[x]
    <2>1. \A x \in 1..(z - 1) :
             /\ x \in 1..z /\ x + 1 \in 1..z
             /\ c2[x] = IF x < k + 1 THEN c[x] ELSE c[x + 1]
        BY <1>3 DEF Cut
    <2>2. \A x \in 1..(z - 1) : x <= k <=> x < k + 1
        BY <1>3
    <2>3. \A x \in 1..(z - 1) : x > k => c2[x] = x + (n - (z - 1))
        BY <2>1, <2>2, <1>0, <1>3
    <2>4. \A x, y \in 1..(z - 1) : x < y => c2[x] < c2[y]
        <3>1. TAKE x, y \in 1..(z - 1)
        <3>2. SUFFICES ASSUME x < y PROVE c2[x] < c2[y]
            OBVIOUS
        <3>3. CASE x <= k /\ y <= k
            <4> HIDE DEF c2, k
            <4> QED
                BY <3>2, <3>3, <2>1, <2>2, <1>0
        <3>4. CASE x <= k /\ y > k
            <4>1. x < y + 1
                BY <3>2
            <4> HIDE DEF c2, k
            <4>2. c2[x] = c[x] /\ c2[y] = c[y + 1]
                BY <3>4, <2>1, <2>2, <1>3
            <4> QED
                BY <4>1, <4>2, <2>1, <1>0
        <3>5. CASE x > k /\ y > k
            <4>1. c2[x] = x + (n - (z - 1)) /\ c2[y] = y + (n - (z - 1))
                BY <3>5, <2>3
            <4> QED
                BY <4>1, <3>2, <1>3
        <3> QED
            BY <3>2, <3>3, <3>4, <3>5, <1>3
    <2>5. c2 = [x \in 1..(z - 1) |-> c2[x]]
        BY DEF Cut
    <2>6. \A x \in 1..(z - 1) : c2[x] \in 1..n
        <3> HIDE DEF c2, k
        <3>1. TAKE x \in 1..(z - 1)
        <3>2. c2[x] = c[x] \/ c2[x] = c[x + 1]
            BY <2>1
        <3>3. c[x] \in 1..n /\ c[x + 1] \in 1..n
            BY <2>1, <1>0
        <3> QED
            BY <3>2, <3>3
    <2>7. c2 \in [1..(z - 1) -> 1..n]
        <3> HIDE DEF c2
        <3> QED
            BY <2>5, <2>6
    <2> HIDE DEF c2, k
    <2> QED
        BY <2>1, <2>2, <2>3, <2>4, <2>7
<1>14. \A x \in 1..(z - 1) : x <= k => c2[x] <= i + 1 /\ q[c2[x]] \notin doomed
    <2>1. TAKE x \in 1..(z - 1)
    <2>2. SUFFICES ASSUME x <= k PROVE c2[x] <= i + 1 /\ q[c2[x]] \notin doomed
        OBVIOUS
    <2>3. x \in 1..z /\ c2[x] = c[x] /\ c[x] <= i /\ q[c[x]] \notin doomed /\ c[x] \in 1..n
        BY <2>2, <1>0, <1>3, <1>13
    <2> QED
        BY <2>3, <1>3
<1>15. \A j \in 1..(i + 1) : q[j] \notin doomed => \E x \in 1..(z - 1) : c2[x] = j
    <2>1. TAKE j \in 1..(i + 1)
    <2>2. SUFFICES ASSUME q[j] \notin doomed PROVE \E x \in 1..(z - 1) : c2[x] = j
        OBVIOUS
    <2>3. j \in 1..i
        BY <2>2, <1>1, <1>3
    <2>4. PICK x \in 1..z : c[x] = j
        BY <2>2, <2>3, <1>0
    <2>5. x <= k
        <3>1. SUFFICES ASSUME x > k PROVE FALSE
            BY <1>3
        <3>2. c[x] = x + (n - z)
            BY <3>1, <1>0
        <3> QED
            BY <3>1, <3>2, <2>3, <2>4, <1>3
    <2>6. x \in 1..(z - 1)
        BY <2>5, <1>3
    <2>7. c2[x] = j
        BY <2>4, <2>5, <2>6, <1>13
    <2> QED
        BY <2>6, <2>7
<1>16. list2.prev = IF z - 1 = n - (i + 1) THEN 0 ELSE q[c2[z - 1 - (n - (i + 1))]]
    <2>1. k # 0 => c2[k] = c[k]
        BY <1>3, <1>13
    <2>2. list2.prev = IF k = 0 THEN 0 ELSE q[c[k]]
        BY <1>0, <1>3, <1>11
    <2>3. k # 0 => q[c2[k]] = q[c[k]]
        BY <2>1
    <2> HIDE DEF k, c2, list2
    <2> QED
        BY <2>2, <2>3, <1>3
<1>17. Walked(q, n, g, m, doomed, i + 1, list2, c2, z - 1, Pushed(e, gg, gm), gm + 1)
    <2>1. /\ \A x \in 1..(z - 1) : x > z - 1 - (n - (i + 1)) => c2[x] = x + (n - (z - 1))
          /\ \A x \in 1..(z - 1) : x <= z - 1 - (n - (i + 1)) =>
                  c2[x] <= i + 1 /\ q[c2[x]] \notin doomed
        <3> HIDE DEF k, c2
        <3> QED
            BY <1>3, <1>13, <1>14
    <2> HIDE DEF list2, c2, e, k
    <2> QED
        BY <2>1, <1>3, <1>11, <1>12, <1>13, <1>15, <1>16, Zenon DEF Walked
<1> QED
    BY <1>17

\* The whole loop, as RemoveAll has it.
Visits(doomed, start, q, n) ==
    LET list[i \in 0..n] ==
            IF i = 0 THEN start ELSE Visit(doomed, list[i - 1], q[i])
    IN  list

\* After the last visit the kept entries are queued, and the doomed ones free.
LEMMA WalkEnds ==
    ASSUME NEW q, NEW n \in 0..PoolSize, NEW g, NEW m \in Nat, NEW doomed,
           NEW start \in ListRecord,
           Listed(start.next, start.head, q, n), Listed(start.next, start.free, g, m),
           start.prev = 0, n + m <= PoolSize, On(q, n) \cap On(g, m) = {}
    PROVE  \E c, z, gg, gm :
               Walked(q, n, g, m, doomed, n, Visits(doomed, start, q, n)[n], c, z, gg, gm)
<1> DEFINE Good(i, l) == \E c, z, gg, gm : Walked(q, n, g, m, doomed, i, l, c, z, gg, gm)
           Loop_(f) == [i \in 0..n |-> IF i = 0 THEN start ELSE Visit(doomed, f[i - 1], q[i])]
           Runs(j, h) == /\ DOMAIN h = 0..j
                         /\ h[0] = start
                         /\ \A i \in 1..j : h[i] = Visit(doomed, h[i - 1], q[i])
                         /\ Good(j, h[j])
           S == {j \in 0..n : \E h : Runs(j, h)}
<1>0. n \in Nat /\ q \in [1..n -> Entries] /\ \A x, y \in 1..n : q[x] = q[y] => x = y
    BY Pool DEF Listed
<1>1. 0 \in S
    <2> DEFINE h == [i \in 0..0 |-> start]
    <2>1. DOMAIN h = 0..0 /\ h[0] = start /\ 1..0 = {} /\ 0 \in 0..n
        BY <1>0
    <2>2. Good(0, start)
        BY WalkStarts
    <2> HIDE DEF h, Good
    <2>3. Runs(0, h)
        BY <2>1, <2>2
    <2> QED
        BY <2>1, <2>3
<1>2. \A j \in 0..(n - 1) : j \in S => j + 1 \in S
    <2>1. SUFFICES ASSUME NEW j \in 0..(n - 1), j \in S PROVE j + 1 \in S
        OBVIOUS
    <2>2. PICK h : Runs(j, h)
        BY <2>1
    <2> DEFINE v == Visit(doomed, h[j], q[j + 1])
               h2 == [i \in 0..(j + 1) |-> IF i <= j THEN h[i] ELSE v]
    <2>3. Good(j + 1, v)
        <3>1. PICK c, z, gg, gm : Walked(q, n, g, m, doomed, j, h[j], c, z, gg, gm)
            BY <2>2
        <3>2. CASE q[j + 1] \notin doomed
            BY <3>1, <3>2, <1>0, WalkKeeps
        <3>3. CASE q[j + 1] \in doomed
            <4>1. Walked(q, n, g, m, doomed, j + 1, v,
                         Cut(c, z - (n - j) + 1, z), z - 1,
                         Pushed(q[j + 1], gg, gm), gm + 1)
                <5> DEFINE l == h[j]
                <5>2. Walked(q, n, g, m, doomed, j, l, c, z, gg, gm)
                    BY <3>1
                <5> HIDE DEF l
                <5>3. Walked(q, n, g, m, doomed, j + 1, Visit(doomed, l, q[j + 1]),
                         Cut(c, z - (n - j) + 1, z), z - 1,
                         Pushed(q[j + 1], gg, gm), gm + 1)
                    BY <5>2, <3>3, <1>0, WalkRemoves
                <5> QED
                    BY <5>3 DEF l
            <4> HIDE DEF v
            <4> QED
                BY <4>1
        <3> QED
            BY <3>2, <3>3
    <2>4. /\ j \in Nat /\ j + 1 \in 0..n /\ j + 1 \in 0..(j + 1) /\ ~ (j + 1 <= j)
          /\ 0 \in 0..(j + 1) /\ 0 <= j
          /\ \A i \in 1..(j + 1) : i \in 0..(j + 1) /\ i - 1 \in 0..(j + 1) /\ i - 1 <= j
          /\ \A i \in 1..(j + 1) : i <= j => i \in 1..j
          /\ \A i \in 1..(j + 1) : ~ (i <= j) => i = j + 1 /\ i - 1 = j
        BY <1>0
    <2>5. /\ DOMAIN h2 = 0..(j + 1) /\ h2[0] = h[0] /\ h2[j + 1] = v
          /\ \A i \in 1..(j + 1) : h2[i] = IF i <= j THEN h[i] ELSE v
          /\ \A i \in 1..(j + 1) : h2[i - 1] = h[i - 1]
        <3> HIDE DEF v
        <3> QED
            BY <2>4
    <2> HIDE DEF h2, Good
    <2>6. \A i \in 1..(j + 1) : h2[i] = Visit(doomed, h2[i - 1], q[i])
        <3>1. TAKE i \in 1..(j + 1)
        <3>2. CASE i <= j
            BY <3>2, <2>2, <2>4, <2>5
        <3>3. CASE ~ (i <= j)
            BY <3>3, <2>4, <2>5
        <3> QED
            BY <3>2, <3>3
    <2> HIDE DEF v
    <2>7. Runs(j + 1, h2)
        BY <2>2, <2>3, <2>5, <2>6
    <2> QED
        BY <2>4, <2>7
<1>3. n \in S
    <2> HIDE DEF S
    <2>1. 0..n \subseteq S
        BY <1>0, <1>1, <1>2, UpTo
    <2> QED
        BY <2>1, <1>0
<1>4. PICK h : Runs(n, h)
    BY <1>3
<1> HIDE DEF Good
\* the loop of the model has one run, the one that was built
<1> DEFINE f == CHOOSE x : x = Loop_(x)
<1>5. \E x : x = Loop_(x)
    <2> DEFINE x == [i \in 0..n |-> h[i]]
    <2>1. \A i \in 0..n : x[i] = Loop_(x)[i]
        <3>1. TAKE i \in 0..n
        <3>2. CASE i = 0
            BY <3>2, <1>4
        <3>3. CASE i # 0
            <4>1. i \in 1..n /\ i - 1 \in 0..n
                BY <3>3, <1>0
            <4> QED
                BY <4>1, <3>3, <1>4
        <3> QED
            BY <3>2, <3>3
    <2>2. Loop_(x) = [i \in 0..n |-> Loop_(x)[i]]
        OBVIOUS
    <2> HIDE DEF Loop_
    <2>3. x = Loop_(x)
        BY <2>1, <2>2
    <2> HIDE DEF x
    <2> QED
        BY <2>3
<1>6. f = Loop_(f)
    <2> HIDE DEF Loop_
    <2> QED
        BY <1>5
<1>7. \A i \in 0..n : f[i] = IF i = 0 THEN start ELSE Visit(doomed, f[i - 1], q[i])
    <2> HIDE DEF f
    <2>1. \A i \in 0..n : Loop_(f)[i] = IF i = 0 THEN start ELSE Visit(doomed, f[i - 1], q[i])
        OBVIOUS
    <2> HIDE DEF Loop_
    <2> QED
        BY <1>6, <2>1
<1> HIDE DEF f
<1>8. f[n] = h[n]
    <2> DEFINE V == {i \in 0..n : f[i] = h[i]}
    <2>1. 0 \in V
        BY <1>0, <1>4, <1>7
    <2>2. \A i \in 0..(n - 1) : i \in V => i + 1 \in V
        <3>1. SUFFICES ASSUME NEW i \in 0..(n - 1), i \in V PROVE i + 1 \in V
            OBVIOUS
        <3>2. i + 1 \in 0..n /\ i + 1 \in 1..n /\ i + 1 # 0 /\ (i + 1) - 1 = i
            BY <1>0
        <3>3. f[i + 1] = Visit(doomed, f[i], q[i + 1])
            BY <3>2, <1>7
        <3>4. h[i + 1] = Visit(doomed, h[i], q[i + 1])
            BY <3>2, <1>4
        <3> QED
            BY <3>1, <3>2, <3>3, <3>4
    <2> HIDE DEF V
    <2>3. 0..n \subseteq V
        BY <1>0, <2>1, <2>2, UpTo
    <2> QED
        BY <2>3, <1>0 DEF V
<1>9. Good(n, f[n])
    BY <1>4, <1>8
<1>10. f = Visits(doomed, start, q, n)
    BY DEF f, Visits
<1> QED
    BY <1>9, <1>10 DEF Good

-----------------------------------------------------------------------------
(* Cycles and parts of cycles.                                             *)

\* The whole cycles in so many parts, rounded down.
Whole(i) == i \div Sub

\* A product with Sub is an integer, and distributes.
LEMMA Times ==
    /\ \A n \in Int : n * Sub \in Int
    /\ \A n, k \in Int : (n + k) * Sub = n * Sub + k * Sub
    /\ \A n, k \in Int : (n - k) * Sub = n * Sub - k * Sub
    BY Pool

\* Whole is the largest number of cycles that fits.
LEMMA WholeAtLeast ==
    ASSUME NEW i \in Int, NEW n \in Int
    PROVE  Whole(i) \in Int /\ (n * Sub <= i <=> n <= Whole(i))
<1>1. Sub \in Nat /\ Sub > 0
    BY Pool
<1>2. PICK k \in Int : k = i \div Sub
    BY <1>1
<1>3. k * Sub <= i /\ i < k * Sub + Sub
    BY <1>1, <1>2
<1>4. n <= k => n * Sub <= k * Sub
    BY <1>1
<1>5. n >= k + 1 => n * Sub >= (k + 1) * Sub
    BY <1>1
<1>6. (k + 1) * Sub = k * Sub + Sub
    BY <1>1
<1>7. n * Sub \in Int /\ k * Sub \in Int
    BY <1>1
<1> QED
    BY <1>1, <1>2, <1>3, <1>4, <1>5, <1>6, <1>7 DEF Whole

\* A later index is no fewer cycles away.
LEMMA WholeMonotone ==
    ASSUME NEW i \in Int, NEW j \in Int, i <= j
    PROVE  Whole(i) <= Whole(j)
<1>1. Whole(i) \in Int /\ Whole(j) \in Int
    BY WholeAtLeast
<1>2. Whole(i) * Sub <= i
    BY <1>1, WholeAtLeast
<1>3. Whole(i) * Sub \in Int
    BY <1>1, Times
<1>4. Whole(i) * Sub <= j
    BY <1>2, <1>3
<1> QED
    BY <1>1, <1>4, WholeAtLeast

\* Cycles to an index from a time in cycles.
LEMMA WholeFrom ==
    ASSUME NEW i \in Int, NEW n \in Int
    PROVE  Whole(i - n * Sub) = Whole(i) - n
<1>1. n * Sub \in Int /\ i - n * Sub \in Int
    BY Pool
<1>2. Whole(i) \in Int /\ Whole(i - n * Sub) \in Int
    BY <1>1, WholeAtLeast
<1> DEFINE a == Whole(i)
           b == Whole(i - n * Sub)
<1>3. \A x \in Int : x <= b <=> x <= a - n
    <2>1. TAKE x \in Int
    <2>2. x <= b <=> x * Sub <= i - n * Sub
        BY <1>1, WholeAtLeast
    <2>3. (x + n) * Sub = x * Sub + n * Sub /\ x * Sub \in Int
        BY Times
    <2>4. (x + n) * Sub <= i <=> x + n <= a
        BY WholeAtLeast
    <2> HIDE DEF a, b
    <2> QED
        BY <2>2, <2>3, <2>4, <1>1, <1>2 DEF a
<1> HIDE DEF a, b
<1>4. a \in Int /\ b \in Int
    BY <1>2 DEF a, b
<1>5. a - n <= b
    BY <1>3, <1>4
<1>6. b <= a - n
    BY <1>3, <1>4
<1>7. b = a - n
    BY <1>4, <1>5, <1>6
<1> QED
    BY <1>7 DEF a, b

\* The conversion to whole cycles of the code, for what lies ahead and behind.
LEMMA MakeCycles ==
    ASSUME NEW i \in Int, NEW n \in Int
    PROVE  /\ i >= n * Sub => PIC_MakeCycles(i - n * Sub) = Whole(i) - n
           /\ i < n * Sub => PIC_MakeCycles(i - n * Sub) <= 0
           /\ PIC_MakeCycles(i - n * Sub) \in Int
           /\ i >= n * Sub => Whole(i) - n >= 0
<1>1. n * Sub \in Int /\ i - n * Sub \in Int /\ Sub \in Nat \ {0}
    BY Times, Pool
<1>2. Whole(i - n * Sub) = Whole(i) - n /\ Whole(i) \in Int
    BY WholeFrom, WholeAtLeast
<1>3. i >= n * Sub => Whole(i) >= n
    BY <1>1, <1>2, WholeAtLeast
<1> DEFINE p == i - n * Sub
<1>4. p \in Int
    BY <1>1
<1>5. p < 0 <=> i < n * Sub
    BY <1>1
<1>6. ~ (p < 0) => PIC_MakeCycles(p) = Whole(p)
    BY DEF PIC_MakeCycles, Whole
<1>7. p < 0 => PIC_MakeCycles(p) <= 0 /\ PIC_MakeCycles(p) \in Int
    <2> HIDE DEF p
    <2>1. SUFFICES ASSUME p < 0 PROVE PIC_MakeCycles(p) <= 0 /\ PIC_MakeCycles(p) \in Int
        OBVIOUS
    <2>2. -p \in Int /\ 0 * Sub <= -p
        BY <2>1, <1>4, <1>1
    <2>3. 0 <= Whole(-p) /\ Whole(-p) \in Int
        BY <2>2, WholeAtLeast
    <2>4. PIC_MakeCycles(p) = -Whole(-p)
        BY <2>1 DEF PIC_MakeCycles, Whole
    <2> QED
        BY <2>3, <2>4
<1> QED
    <2>1. Whole(p) = Whole(i) - n
        BY <1>2
    <2> HIDE DEF p
    <2>2. /\ i >= n * Sub => PIC_MakeCycles(p) = Whole(i) - n
          /\ i < n * Sub => PIC_MakeCycles(p) <= 0
          /\ PIC_MakeCycles(p) \in Int
        BY <2>1, <1>1, <1>2, <1>4, <1>5, <1>6, <1>7
    <2> QED
        BY <2>2, <1>1, <1>2, <1>3 DEF p

\* Cycles that each interrupt raised within a grant may add to its end.
Extra == IF MaxCost = 1 THEN 1 ELSE MaxCost + 1
Backlog(raised) == Extra * Cardinality(raised)
MaxBacklog == Extra * Cardinality(Irqs)

\* What Slack leaves for the interrupts raised within a grant.
LEMMA Backlogs ==
    /\ MaxBacklog \in Nat /\ Slack \in Nat
    /\ MaxCost = 1 => Slack >= 2 /\ Slack >= MaxBacklog + 1
    /\ MaxCost # 1 => Slack >= MaxBacklog + MaxCost + 1
    /\ Backlog({}) = 0
    /\ \A raised \in SUBSET Irqs :
          /\ Backlog(raised) \in Nat /\ Backlog(raised) <= MaxBacklog
          /\ \A irq \in Irqs \ raised : Backlog(raised \cup {irq}) = Backlog(raised) + Extra
<1>1. IsFiniteSet(Irqs) /\ Cardinality(Irqs) \in Nat
    BY EventListAssumption, FS_CardinalityType
<1>2. Extra \in Nat
    BY Pool DEF Extra
<1>3. MaxBacklog \in Nat
    BY <1>1, <1>2 DEF MaxBacklog
<1>4. Slack \in Nat
    BY SlackAssumption
<1>5. MaxCost = 1 => Slack >= 2 /\ Slack >= MaxBacklog + 1
    <2>1. SUFFICES ASSUME MaxCost = 1 PROVE Slack >= 2 /\ Slack >= MaxBacklog + 1
        OBVIOUS
    <2> DEFINE a == Cardinality(Irqs) + 1
    <2>2. a \in Nat
        BY <1>1
    <2> HIDE DEF a
    <2>3. Slack >= Max({2, a})
        BY <2>1, SlackAssumption DEF a
    <2>4. Max({2, a}) \in {2, a} /\ \A y \in {2, a} : Max({2, a}) >= y
        <3>1. \E x \in {2, a} : \A y \in {2, a} : x >= y
            BY <2>2
        <3> QED
            BY <3>1 DEF Max
    <2>5. Slack >= 2 /\ Slack >= a
        BY <2>2, <2>3, <2>4, <1>4
    <2>6. MaxBacklog + 1 = a
        BY <2>1, <1>1 DEF MaxBacklog, Extra, a
    <2> QED
        BY <2>5, <2>6
<1>6. MaxCost # 1 => Slack >= MaxBacklog + MaxCost + 1
    <2>1. SUFFICES ASSUME MaxCost # 1 PROVE Slack >= MaxBacklog + MaxCost + 1
        OBVIOUS
    <2>2. Slack >= (MaxCost + 1) * (Cardinality(Irqs) + 1)
        BY <2>1, SlackAssumption
    <2>3. (MaxCost + 1) * (Cardinality(Irqs) + 1) = (MaxCost + 1) * Cardinality(Irqs) + (MaxCost + 1)
        BY <1>1, Pool
    <2>4. (MaxCost + 1) * Cardinality(Irqs) = MaxBacklog
        BY <2>1 DEF MaxBacklog, Extra
    <2> QED
        BY <2>2, <2>3, <2>4, <1>3, <1>4, Pool
<1>7. Backlog({}) = 0
    BY <1>2, FS_EmptySet DEF Backlog
<1>8. ASSUME NEW raised \in SUBSET Irqs
      PROVE  /\ Backlog(raised) \in Nat /\ Backlog(raised) <= MaxBacklog
             /\ \A irq \in Irqs \ raised : Backlog(raised \cup {irq}) = Backlog(raised) + Extra
    <2>1. IsFiniteSet(raised) /\ Cardinality(raised) <= Cardinality(Irqs)
        BY <1>1, FS_Subset
    <2>2. Cardinality(raised) \in Nat
        BY <2>1, FS_CardinalityType
    <2>3. Backlog(raised) \in Nat
        BY <2>2, <1>2 DEF Backlog
    <2>4. Backlog(raised) <= MaxBacklog
        BY <2>1, <2>2, <1>1, <1>2 DEF Backlog, MaxBacklog
    <2>5. ASSUME NEW irq \in Irqs \ raised
          PROVE  Backlog(raised \cup {irq}) = Backlog(raised) + Extra
        <3>1. Cardinality(raised \cup {irq}) = Cardinality(raised) + 1
            BY <2>1, FS_AddElement
        <3>2. Extra * (Cardinality(raised) + 1) = Extra * Cardinality(raised) + Extra
            BY <2>2, <1>2
        <3> QED
            BY <3>1, <3>2 DEF Backlog
    <2> QED
        BY <2>3, <2>4, <2>5
<1> QED
    BY <1>3, <1>4, <1>5, <1>6, <1>7, <1>8

-----------------------------------------------------------------------------
(* The budget of cycles.                                                   *)

\* In mode md, with c cycles left of the grant, l cycles of the tick not handed
\* out and b the backlog of raised interrupts: how far the clock may be past
\* the end of the tick, past the head of the queue (v cycles ahead, if there is
\* one) and past the event being served (w cycles ahead, if there is one).
InGrant(md, c, b, v) ==
    IF MaxCost = 1
      THEN /\ 1 <= c => v >= c - b \/ (c = 1 /\ md = "fetch" /\ v >= 0)
           /\ v >= 0 - b \/ v >= 0 - 1
      ELSE /\ 1 <= c => v >= c - 1 - b
           /\ v >= 0 - MaxCost - b

InTick(c, l, b) ==
    /\ 1 <= c => l + c >= c - b
    /\ l + c >= 1 - MaxCost - b
    /\ MaxCost = 1 => c >= 0

Running(md) == md \in {"fetch", "execute"}

Timely(md, c, l, b, has, v, served, w) ==
    /\ md \in {"service", "handler", "host", "ticker"} => c = 0
    /\ md \in {"service", "handler"} => l > 0
    /\ md = "host" => l <= 0
    /\ l + c >= 0 - Slack
    /\ has => v >= 0 - Slack
    /\ served => w >= 0 - Slack
    /\ Running(md) => InTick(c, l, b)
    /\ Running(md) /\ has => InGrant(md, c, b, v)

\* A head that is due no sooner is no worse.
LEMMA LaterHead ==
    ASSUME NEW md, NEW c \in Int, NEW b \in Int, NEW v \in Int, NEW v2 \in Int,
           InGrant(md, c, b, v), v <= v2
    PROVE  InGrant(md, c, b, v2)
    BY Pool DEF InGrant

\* Without cycles, or with the head no sooner than they last, nothing is late.
LEMMA Ahead ==
    ASSUME NEW md, NEW c \in Int, NEW b \in Nat, NEW v \in Int,
           v >= 0, 1 <= c => v >= c
    PROVE  InGrant(md, c, b, v)
    BY Pool DEF InGrant

\* The core gives its cycles back.
LEMMA Stopped ==
    ASSUME NEW md, NEW c \in Int, NEW l \in Int, NEW b \in Nat, NEW v \in Int,
           InTick(c, l, b)
    PROVE  /\ InTick(0, l + c, b)
           /\ InGrant(md, c, b, v) => InGrant(md, 0, b, v)
    BY Pool DEF InTick, InGrant

\* The core spends k cycles, as an instruction or within one.
LEMMA Spent ==
    ASSUME NEW md, NEW c \in Int, NEW l \in Int, NEW b \in Nat, b <= MaxBacklog,
           NEW v \in Int, c > 0, NEW k \in 1..MaxCost, InTick(c, l, b)
    PROVE  /\ InTick(c - k, l, b)
           /\ l + (c - k) >= 0 - Slack
           /\ InGrant(md, c, b, v) => /\ InGrant("execute", c - k, b, v - k)
                                     /\ v - k >= 0 - Slack
<1>1. MaxCost = 1 => k = 1
    OBVIOUS
<1>2. k \in Int /\ k >= 1 /\ k <= MaxCost
    BY Pool
<1>3. MaxBacklog \in Nat /\ Slack \in Nat
      /\ (MaxCost = 1 => Slack >= 2 /\ Slack >= MaxBacklog + 1)
      /\ (MaxCost # 1 => Slack >= MaxBacklog + MaxCost + 1)
    BY Backlogs
<1>4. InTick(c - k, l, b) /\ l + (c - k) >= 0 - Slack
    BY <1>1, <1>2, <1>3, Pool DEF InTick
<1>5. InGrant(md, c, b, v) => /\ InGrant("execute", c - k, b, v - k)
                              /\ v - k >= 0 - Slack
    BY <1>1, <1>2, <1>3, Pool DEF InGrant
<1> QED
    BY <1>4, <1>5

\* Within an instruction it spends all but d of what is left.
LEMMA SpentWithin ==
    ASSUME NEW c \in Int, NEW l \in Int, NEW b \in Nat, b <= MaxBacklog,
           NEW v \in Int, c > 0, NEW d \in 0..(c - 1), InTick(c, l, b)
    PROVE  /\ InTick(d, l, b)
           /\ l + d >= 0 - Slack
           /\ InGrant("execute", c, b, v) => /\ InGrant("execute", d, b, v - (c - d))
                                            /\ v - (c - d) >= 0 - Slack
<1>3. MaxBacklog \in Nat /\ Slack \in Nat
      /\ (MaxCost = 1 => Slack >= 2 /\ Slack >= MaxBacklog + 1)
      /\ (MaxCost # 1 => Slack >= MaxBacklog + MaxCost + 1)
    BY Backlogs
<1>4. InTick(d, l, b) /\ l + d >= 0 - Slack
    BY <1>3, Pool DEF InTick
<1>5. InGrant("execute", c, b, v) => /\ InGrant("execute", d, b, v - (c - d))
                                     /\ v - (c - d) >= 0 - Slack
    <2>1. SUFFICES ASSUME InGrant("execute", c, b, v)
                   PROVE  /\ InGrant("execute", d, b, v - (c - d))
                          /\ v - (c - d) >= 0 - Slack
        OBVIOUS
    <2>2. CASE MaxCost = 1
        <3>1. v >= c - b
            BY <2>1, <2>2 DEF InGrant
        <3>2. v - (c - d) >= d - b /\ v - (c - d) \in Int
            BY <3>1
        <3> QED
            BY <2>2, <3>2, <1>3 DEF InGrant
    <2>3. CASE MaxCost # 1
        BY <2>1, <2>3, <1>3, Pool DEF InGrant
    <2> QED
        BY <2>2, <2>3
<1> QED
    BY <1>4, <1>5

\* The loop of the core finds no cycles left, and takes one more.
LEMMA Overrun ==
    ASSUME NEW md, NEW c \in Int, NEW l \in Int, NEW b \in Nat, b <= MaxBacklog,
           NEW v \in Int, c <= 0, InTick(c, l, b)
    PROVE  /\ l + (c - 1) >= 0 - Slack
           /\ InGrant(md, c, b, v) => v - 1 >= 0 - Slack
    BY Backlogs, Pool DEF InTick, InGrant

\* A raised interrupt makes two cycles of what is left within an instruction.
LEMMA Raised ==
    ASSUME NEW c \in Int, NEW l \in Int, NEW b \in Nat, NEW v \in Int,
           c # 0, InTick(c, l, b)
    PROVE  /\ InTick(2, l + c - 2, b + Extra)
           /\ InGrant("execute", c, b, v) => InGrant("execute", 2, b + Extra, v)
<1>1. Extra \in Nat /\ (MaxCost = 1 => Extra = 1) /\ (MaxCost # 1 => Extra = MaxCost + 1)
    BY Pool DEF Extra
<1>2. InTick(2, l + c - 2, b + Extra)
    BY <1>1, Pool DEF InTick
<1>3. InGrant("execute", c, b, v) => InGrant("execute", 2, b + Extra, v)
    <2>1. CASE MaxCost = 1
        <3>1. c >= 1
            BY <2>1 DEF InTick
        <3> QED
            BY <2>1, <3>1, <1>1 DEF InGrant
    <2>2. CASE MaxCost # 1
        BY <2>2, <1>1, Pool DEF InGrant
    <2> QED
        BY <2>1, <2>2
<1> QED
    BY <1>2, <1>3

\* A longer backlog allows no less.
LEMMA LongerBacklog ==
    ASSUME NEW md, NEW c \in Int, NEW l \in Int, NEW b \in Nat, NEW b2 \in Nat,
           b <= b2, NEW v \in Int
    PROVE  /\ InTick(c, l, b) => InTick(c, l, b2)
           /\ InGrant(md, c, b, v) => InGrant(md, c, b2, v)
    BY Pool DEF InTick, InGrant

-----------------------------------------------------------------------------
(* The two lists and the entry being served.                               *)

Served(run) == IF run = 0 THEN {} ELSE {run}

\* The queue q of n entries, the free list g of m and the served entry share
\* the pool.
Pooled(nx, head, free, run, q, n, g, m) ==
    /\ nx \in [Entries -> 0..PoolSize]
    /\ {head, free, run} \subseteq 0..PoolSize
    /\ Listed(nx, head, q, n)
    /\ Listed(nx, free, g, m)
    /\ On(q, n) \cap On(g, m) = {}
    /\ Served(run) \cap On(q, n) = {}
    /\ Served(run) \cap On(g, m) = {}
    /\ On(q, n) \cup On(g, m) \cup Served(run) = Entries
    /\ n + m + (IF run = 0 THEN 0 ELSE 1) = PoolSize

\* The entries of the queue hold events, in order of time.
Ordered(en, q, n) ==
    /\ \A i \in 1..n : en[q[i]] \in Event
    /\ \A i, j \in 1..n : i < j => en[q[i]].index <= en[q[j]].index

\* Where AddEntry links an event: behind those due no later, before the others.
LEMMA PlaceFound ==
    ASSUME NEW q, NEW n, NEW index \in Int, next \in [Entries -> 0..PoolSize],
           next_entry \in 0..PoolSize,
           Listed(next, next_entry, q, n), Ordered(entries, q, n)
    PROVE  /\ next_entry = 0 \/ entries[next_entry].index > index =>
                 \A j \in 1..n : j < 1 <=> entries[q[j]].index <= index
           /\ ~ (next_entry = 0 \/ entries[next_entry].index > index) =>
                 \E k \in 2..(n + 1) :
                    /\ Predecessor(index) = q[k - 1]
                    /\ \A j \in 1..n : j < k <=> entries[q[j]].index <= index
<1>0. /\ n \in Nat
      /\ q \in [1..n -> Entries]
      /\ next_entry = IF n = 0 THEN 0 ELSE q[1]
      /\ \A i \in 1..n : next[q[i]] = IF i = n THEN 0 ELSE q[i + 1]
    BY Pool DEF Listed
<1>1. \A e \in Entries : e # 0
    BY DEF Entries
<1> DEFINE at(i) == entries[q[i]].index
<1>2. /\ \A i \in 1..n : at(i) \in Int
      /\ \A i, j \in 1..n : i < j => at(i) <= at(j)
    BY DEF Ordered, Event
<1>3. n # 0 => 1 \in 1..n /\ next_entry = q[1] /\ next_entry # 0 /\ n \in 1..n
    BY <1>0, <1>1
<1>4. ASSUME next_entry = 0 \/ entries[next_entry].index > index
      PROVE  \A j \in 1..n : j < 1 <=> at(j) <= index
    <2>1. TAKE j \in 1..n
    <2>2. n # 0 /\ ~ (j < 1) /\ (j = 1 \/ 1 < j)
        BY <1>0
    <2>3. at(1) > index
        BY <1>3, <1>4, <2>2
    <2>4. at(1) <= at(j)
        BY <1>2, <1>3, <2>2
    <2> HIDE DEF at
    <2> QED
        BY <2>2, <2>3, <2>4, <1>2, <1>3
<1>5. ASSUME ~ (next_entry = 0 \/ entries[next_entry].index > index)
      PROVE  \E k \in 2..(n + 1) :
                /\ Predecessor(index) = q[k - 1]
                /\ \A j \in 1..n : j < k <=> at(j) <= index
    <2>1. n # 0 /\ at(1) <= index
        BY <1>0, <1>2, <1>3, <1>5
    <2> DEFINE stops == {i \in 1..n : next[q[i]] = 0 \/ entries[next[q[i]]].index > index}
    <2>2. Predecessor(index) = q[Min(stops)]
        <3>1. Chain(next, next_entry) = q /\ DOMAIN Chain(next, next_entry) = 1..n
            BY ListFound
        <3> QED
            BY <3>1, Zenon DEF Predecessor
    <2>3. \A i \in 1..n : i \in stops <=> i = n \/ at(i + 1) > index
        <3>1. TAKE i \in 1..n
        <3>2. CASE i = n
            BY <3>2, <1>0
        <3>3. CASE i # n
            <4>1. i + 1 \in 1..n
                BY <3>3, <1>0
            <4>2. next[q[i]] = q[i + 1] /\ q[i + 1] # 0
                BY <3>3, <4>1, <1>0, <1>1
            <4> QED
                BY <3>3, <4>2
        <3> QED
            BY <3>2, <3>3
    <2>4. Min(stops) \in stops /\ \A y \in stops : Min(stops) <= y
        <3>1. stops \subseteq Nat /\ stops # {}
            <4>1. n \in stops
                BY <2>1, <2>3, <1>3
            <4> QED
                BY <4>1
        <3> HIDE DEF stops
        <3>2. \E x \in stops : \A y \in stops : x <= y
            BY <3>1, Smallest
        <3> QED
            BY <3>2, Zenon DEF Min
    <2>5. PICK p \in 1..n : p = Min(stops)
        BY <2>4
    <2> HIDE DEF stops
    <2>6. (p = n \/ at(p + 1) > index) /\ \A i \in 1..n : i < p => i # n /\ ~ (at(i + 1) > index)
        <3>1. \A i \in 1..n : i < p => i \notin stops
            BY <2>4, <2>5
        <3>2. p \in stops
            BY <2>4, <2>5
        <3> QED
            BY <3>1, <3>2, <2>3
    <2>7. \A j \in 1..n : j < p + 1 <=> at(j) <= index
        <3>1. TAKE j \in 1..n
        <3>2. CASE j = 1
            BY <3>2, <2>1
        <3>3. CASE j # 1 /\ j < p + 1
            <4>1. j - 1 \in 1..n /\ j - 1 < p /\ (j - 1) + 1 = j
                BY <3>3, <1>0
            <4>2. ~ (at(j) > index)
                BY <4>1, <2>6
            <4> HIDE DEF at
            <4> QED
                BY <4>2, <3>3, <1>2
        <3>4. CASE ~ (j < p + 1)
            <4>1. p + 1 \in 1..n /\ p # n /\ (j = p + 1 \/ p + 1 < j)
                BY <3>4, <1>0
            <4>2. at(p + 1) > index /\ at(p + 1) <= at(j)
                BY <4>1, <2>6, <1>2
            <4> HIDE DEF at
            <4> QED
                BY <4>1, <4>2, <3>4, <1>2
        <3> QED
            BY <3>2, <3>3, <3>4
    <2>8. p + 1 \in 2..(n + 1) /\ (p + 1) - 1 = p
        BY <1>0
    <2> HIDE DEF at
    <2> QED
        BY <2>2, <2>5, <2>7, <2>8
<1> QED
    BY <1>4, <1>5

\* The pushed entry is the one that goes in at place 1.
LEMMA PushedSpliced ==
    ASSUME NEW s, NEW n \in Nat, NEW e
    PROVE  Pushed(e, s, n) = Spliced(s, 1, e, n)
<1>1. \A i \in 1..(n + 1) : ~ (i < 1)
    OBVIOUS
<1> QED
    BY <1>1 DEF Pushed, Spliced

\* AddEntry links the head of the free list into the queue.
LEMMA LinkLists ==
    ASSUME NEW q, NEW n, NEW g, NEW m, NEW event \in Event,
           Pooled(next, next_entry, free_entry, running, q, n, g, m),
           Ordered(entries, q, n), entries \in [Entries -> Event \cup {Blank}],
           free_entry # 0, Link(free_entry, event)
    PROVE  \E k \in 1..(n + 1) :
             /\ \A j \in 1..n : j < k <=> entries[q[j]].index <= event.index
             /\ entries' = [entries EXCEPT ![free_entry] = event]
             /\ Pooled(next', next_entry', next[free_entry], running,
                       Spliced(q, k, free_entry, n), n + 1, Popped(g, m), m - 1)
<1> DEFINE new == free_entry
           g2 == Popped(g, m)
<1>0. /\ next \in [Entries -> 0..PoolSize]
      /\ next_entry \in 0..PoolSize /\ new \in 0..PoolSize /\ running \in 0..PoolSize
      /\ Listed(next, next_entry, q, n)
      /\ Listed(next, new, g, m)
      /\ On(q, n) \cap On(g, m) = {}
      /\ Served(running) \cap On(q, n) = {}
      /\ Served(running) \cap On(g, m) = {}
      /\ On(q, n) \cup On(g, m) \cup Served(running) = Entries
      /\ n + m + (IF running = 0 THEN 0 ELSE 1) = PoolSize
    BY DEF Pooled
<1>1. n \in Nat /\ m \in Nat /\ PoolSize \in Nat
    BY <1>0, Pool DEF Listed
<1>2. m # 0
    BY <1>0 DEF Listed
<1>3. n < PoolSize /\ 1 \in 1..(n + 1) /\ \A k \in 2..(n + 1) : k \in 1..(n + 1)
    BY <1>0, <1>1, <1>2
<1>4. /\ new \in Entries
      /\ Listed(next, next[new], g2, m - 1)
      /\ On(g, m) = On(g2, m - 1) \cup {new}
      /\ new \notin On(g2, m - 1)
    BY <1>0, <1>2, ListedPop
<1>5. new \notin On(q, n)
    BY <1>0, <1>4
<1>a. /\ next \in [Entries -> 0..PoolSize] /\ Listed(next, next_entry, q, n)
      /\ n < PoolSize /\ new \in Entries /\ new \notin On(q, n)
    BY <1>0, <1>3, <1>4, <1>5
<1>6. event.index \in Int
    BY DEF Event
<1>7. entries' = [entries EXCEPT ![new] = event]
    BY DEF Link
<1>8. next[new] \in 0..PoolSize
    BY <1>0, <1>4
\* whatever the place, the rest of the pool is as it should be
<1>9. ASSUME NEW k \in 1..(n + 1), NEW nx \in [Entries -> 0..PoolSize],
             NEW head \in 0..PoolSize,
             Listed(nx, head, Spliced(q, k, new, n), n + 1),
             On(Spliced(q, k, new, n), n + 1) = On(q, n) \cup {new},
             \A e \in On(g2, m - 1) : nx[e] = next[e]
      PROVE  Pooled(nx, head, next[new], running, Spliced(q, k, new, n), n + 1,
                    g2, m - 1)
    <2>1. Listed(nx, next[new], g2, m - 1)
        BY <1>4, <1>9, ListedFrame
    <2>2. (n + 1) + (m - 1) + (IF running = 0 THEN 0 ELSE 1) = PoolSize
        BY <1>0, <1>1
    <2> HIDE DEF g2, new
    <2>3. /\ (On(q, n) \cup {new}) \cap On(g2, m - 1) = {}
          /\ Served(running) \cap (On(q, n) \cup {new}) = {}
          /\ Served(running) \cap On(g2, m - 1) = {}
          /\ (On(q, n) \cup {new}) \cup On(g2, m - 1) \cup Served(running) = Entries
        BY <1>0, <1>4, <1>5
    <2>4. {head, next[new], running} \subseteq 0..PoolSize
        BY <1>0, <1>8
    <2> QED
        BY <2>1, <2>2, <2>3, <2>4, <1>9 DEF Pooled
<1>10. CASE next_entry = 0 \/ entries[next_entry].index > event.index
    <2>1. next_entry' = new /\ next' = [next EXCEPT ![new] = next_entry]
        BY <1>10 DEF Link
    <2>2. \A j \in 1..n : j < 1 <=> entries[q[j]].index <= event.index
        BY <1>0, <1>6, <1>10, PlaceFound
    <2> DEFINE nx == [next EXCEPT ![new] = next_entry]
    <2>3. /\ Listed(nx, new, Pushed(new, q, n), n + 1)
          /\ On(Pushed(new, q, n), n + 1) = On(q, n) \cup {new}
        <3>1. nx[new] = next_entry /\ \A x \in Entries : x # new => nx[x] = next[x]
            BY <1>a
        <3> HIDE DEF new, g2, nx
        <3> QED
            BY <1>a, <3>1, ListedPush
    <2>4. Pushed(new, q, n) = Spliced(q, 1, new, n)
        BY <1>1, PushedSpliced
    <2>5. nx \in [Entries -> 0..PoolSize] /\ \A e \in On(g2, m - 1) : nx[e] = next[e]
        BY <1>0, <1>4
    <2> HIDE DEF nx
    <2>6. Pooled(nx, new, next[new], running, Spliced(q, 1, new, n), n + 1, g2, m - 1)
        BY <2>3, <2>4, <2>5, <1>3, <1>4, <1>9, <1>0
    <2> QED
        BY <2>1, <2>2, <2>6, <1>3, <1>7 DEF nx
<1>11. CASE ~ (next_entry = 0 \/ entries[next_entry].index > event.index)
    <2>1. PICK k \in 2..(n + 1) :
             /\ Predecessor(event.index) = q[k - 1]
             /\ \A j \in 1..n : j < k <=> entries[q[j]].index <= event.index
        BY <1>0, <1>6, <1>11, PlaceFound
    <2> DEFINE pred == q[k - 1]
               nx == [next EXCEPT ![new] = next[pred], ![pred] = new]
    <2>2. next_entry' = next_entry /\ next' = nx
        BY <1>11, <2>1 DEF Link
    <2>3. /\ Listed(nx, next_entry, Spliced(q, k, new, n), n + 1)
          /\ On(Spliced(q, k, new, n), n + 1) = On(q, n) \cup {new}
        <3>1. pred \in Entries /\ pred # new
            <4>1. k - 1 \in 1..n
                BY <1>1
            <4>2. \A i \in 1..n : q[i] \in Entries
                BY <1>0 DEF Listed
            <4> QED
                BY <4>1, <4>2, <1>a DEF On
        <3>2. /\ nx[new] = next[pred] /\ nx[pred] = new
              /\ \A x \in Entries : x # new /\ x # pred => nx[x] = next[x]
            <4> HIDE DEF new, g2, pred
            <4> QED
                BY <1>a, <3>1
        <3> HIDE DEF new, g2, nx
        <3> QED
            BY <1>a, <3>2, ListedSplice
    <2>4. pred \in On(q, n) /\ pred \in Entries
        <3>1. k - 1 \in 1..n
            BY <1>1
        <3>2. \A i \in 1..n : q[i] \in Entries
            BY <1>0 DEF Listed
        <3> QED
            BY <3>1, <3>2 DEF On
    <2>5. nx \in [Entries -> 0..PoolSize] /\ \A e \in On(g2, m - 1) : nx[e] = next[e]
        <3>1. \A e \in On(g2, m - 1) : e # new /\ e # pred /\ e \in Entries
            BY <1>0, <1>4, <2>4
        <3>2. next[pred] \in 0..PoolSize /\ new \in 0..PoolSize
            BY <1>0, <2>4
        <3> HIDE DEF pred, new, g2
        <3> QED
            BY <3>1, <3>2, <1>0
    <2> HIDE DEF nx
    <2>6. Pooled(nx, next_entry, next[new], running, Spliced(q, k, new, n), n + 1, g2, m - 1)
        BY <2>3, <2>5, <1>3, <1>9, <1>0
    <2>7. k \in 1..(n + 1)
        BY <1>3
    <2> QED
        BY <2>1, <2>2, <2>6, <2>7, <1>7
<1> QED
    BY <1>10, <1>11

\* The events of the queue, as the agenda holds them.
View(en, q, n) == [i \in 1..n |-> en[q[i]]]

\* The order of the queue holds the new event.
LEMMA LinkOrdered ==
    ASSUME NEW en, NEW en2, NEW q, NEW n \in Nat,
           NEW e \in Entries, NEW event \in Event, NEW k \in 1..(n + 1),
           en2[e] = event, \A x \in Entries : x # e => en2[x] = en[x],
           q \in [1..n -> Entries], e \notin On(q, n), Ordered(en, q, n),
           \A j \in 1..n : j < k <=> en[q[j]].index <= event.index
    PROVE  /\ Ordered(en2, Spliced(q, k, e, n), n + 1)
           /\ View(en2, Spliced(q, k, e, n), n + 1)
                 = Spliced(View(en, q, n), k, event, n)
<1> DEFINE q2 == Spliced(q, k, e, n)
           at(i) == en[q[i]].index
<1>1. /\ \A i \in 1..n : q[i] \in Entries /\ q[i] # e
      /\ \A i \in 1..n : en2[q[i]] = en[q[i]]
      /\ en2[e] = event
    BY DEF On
<1>2. \A i \in 1..(n + 1) :
         /\ i < k => i \in 1..n /\ en2[q2[i]] = en[q[i]]
         /\ i = k => en2[q2[i]] = event
         /\ ~ (i < k) /\ i # k => i - 1 \in 1..n /\ en2[q2[i]] = en[q[i - 1]]
    <2>1. TAKE i \in 1..(n + 1)
    <2>2. CASE i < k
        <3>1. i \in 1..n /\ q2[i] = q[i]
            BY <2>2 DEF Spliced
        <3> QED
            BY <3>1, <2>2, <1>1
    <2>3. CASE i = k
        <3>1. q2[i] = e
            BY <2>3 DEF Spliced
        <3> QED
            BY <3>1, <2>3, <1>1
    <2>4. CASE ~ (i < k) /\ i # k
        <3>1. i - 1 \in 1..n /\ q2[i] = q[i - 1]
            BY <2>4 DEF Spliced
        <3> HIDE DEF q2
        <3> QED
            BY <3>1, <2>4, <1>1
    <2> QED
        BY <2>2, <2>3, <2>4
<1>3. [i \in 1..(n + 1) |-> en2[q2[i]]] = Spliced([i \in 1..n |-> en[q[i]]], k, event, n)
    <2>1. \A i \in 1..(n + 1) : en2[q2[i]] =
             IF i < k THEN [j \in 1..n |-> en[q[j]]][i]
             ELSE IF i = k THEN event ELSE [j \in 1..n |-> en[q[j]]][i - 1]
        <3> HIDE DEF q2
        <3> QED
            BY <1>2
    <2> HIDE DEF q2
    <2> QED
        BY <2>1 DEF Spliced
<1>4. /\ \A i \in 1..n : en[q[i]] \in Event /\ at(i) \in Int
      /\ \A i, j \in 1..n : i < j => at(i) <= at(j)
      /\ event.index \in Int
    BY DEF Ordered, Event
<1> HIDE DEF q2
<1>5. \A i \in 1..(n + 1) : en2[q2[i]] \in Event
    BY <1>2, <1>4
<1>6. \A i, j \in 1..(n + 1) : i < j => en2[q2[i]].index <= en2[q2[j]].index
    <2>1. TAKE i, j \in 1..(n + 1)
    <2>2. SUFFICES ASSUME i < j PROVE en2[q2[i]].index <= en2[q2[j]].index
        OBVIOUS
    <2>3. CASE j < k
        <3>1. i < k
            BY <2>2, <2>3
        <3>2. en2[q2[i]].index = at(i) /\ en2[q2[j]].index = at(j) /\ i \in 1..n /\ j \in 1..n
            BY <2>3, <3>1, <1>2
        <3> HIDE DEF at
        <3> QED
            BY <3>2, <2>2, <1>4
    <2>4. CASE j = k
        <3>1. i < k /\ i \in 1..n /\ en2[q2[i]].index = at(i) /\ en2[q2[j]].index = event.index
            BY <2>2, <2>4, <1>2
        <3> QED
            BY <3>1
    <2>5. CASE j > k
        <3>1. en2[q2[j]].index = at(j - 1) /\ j - 1 \in 1..n
            BY <2>5, <1>2
        <3>2. CASE i < k
            <4>1. en2[q2[i]].index = at(i) /\ i \in 1..n /\ i < j - 1
                BY <3>2, <2>5, <1>2
            <4> HIDE DEF at
            <4> QED
                BY <4>1, <3>1, <1>4
        <3>3. CASE i = k
            <4>1. en2[q2[i]].index = event.index /\ ~ (j - 1 < k)
                BY <3>3, <2>5, <1>2
            <4>2. ~ (at(j - 1) <= event.index)
                BY <4>1, <3>1
            <4> HIDE DEF at
            <4> QED
                BY <4>1, <4>2, <3>1, <1>4
        <3>4. CASE i > k
            <4>1. en2[q2[i]].index = at(i - 1) /\ i - 1 \in 1..n /\ i - 1 < j - 1
                BY <3>4, <2>2, <1>2
            <4> HIDE DEF at
            <4> QED
                BY <4>1, <3>1, <1>4
        <3> QED
            BY <3>2, <3>3, <3>4
    <2> QED
        BY <2>3, <2>4, <2>5
<1>7. Ordered(en2, q2, n + 1)
    BY <1>5, <1>6 DEF Ordered
<1> QED
    BY <1>3, <1>7 DEF q2, View

\* The head of the queue becomes the entry being served.
LEMMA StartLists ==
    ASSUME NEW q, NEW n, NEW g, NEW m, next_entry # 0,
           Pooled(next, next_entry, free_entry, 0, q, n, g, m)
    PROVE  /\ n # 0 /\ n \in Nat /\ next_entry = q[1] /\ next_entry \in Entries
           /\ Pooled(next, next[next_entry], free_entry, next_entry,
                     Popped(q, n), n - 1, g, m)
<1> DEFINE e == next_entry
           q2 == Popped(q, n)
<1>0. /\ next \in [Entries -> 0..PoolSize]
      /\ e \in 0..PoolSize /\ free_entry \in 0..PoolSize
      /\ Listed(next, e, q, n)
      /\ Listed(next, free_entry, g, m)
      /\ On(q, n) \cap On(g, m) = {}
      /\ On(q, n) \cup On(g, m) = Entries
      /\ n + m = PoolSize
    <2>1. n \in Nat /\ m \in Nat
        BY Pool DEF Pooled, Listed
    <2> QED
        BY <2>1, Pool DEF Pooled, Served
<1>1. n \in Nat /\ m \in Nat /\ n # 0
    BY <1>0, Pool DEF Listed
<1>2. /\ e = q[1] /\ e \in Entries
      /\ Listed(next, next[e], q2, n - 1)
      /\ On(q, n) = On(q2, n - 1) \cup {e}
      /\ e \notin On(q2, n - 1)
    <2>1. Listed(next, e, q, n) /\ next \in [Entries -> 0..PoolSize] /\ n # 0
        BY <1>0, <1>1
    <2> HIDE DEF e
    <2> QED
        BY <2>1, ListedPop
<1>3. Served(e) = {e}
    BY DEF Served
<1>4. next[e] \in 0..PoolSize
    BY <1>0, <1>2
<1>5. (n - 1) + m + (IF e = 0 THEN 0 ELSE 1) = PoolSize
    BY <1>0, <1>1
<1> HIDE DEF e, q2
<1>6. /\ On(q2, n - 1) \cap On(g, m) = {}
      /\ Served(e) \cap On(q2, n - 1) = {}
      /\ Served(e) \cap On(g, m) = {}
      /\ On(q2, n - 1) \cup On(g, m) \cup Served(e) = Entries
    BY <1>0, <1>2, <1>3
<1>7. Pooled(next, next[e], free_entry, e, q2, n - 1, g, m)
    BY <1>0, <1>2, <1>4, <1>5, <1>6 DEF Pooled
<1> QED
    BY <1>1, <1>2, <1>7 DEF e, q2

\* The served entry becomes the head of the free list.
LEMMA FinishLists ==
    ASSUME NEW q, NEW n, NEW g, NEW m, running # 0,
           Pooled(next, next_entry, free_entry, running, q, n, g, m)
    PROVE  Pooled([next EXCEPT ![running] = free_entry], next_entry, running, 0,
                  q, n, Pushed(running, g, m), m + 1)
<1> DEFINE e == running
           g2 == Pushed(running, g, m)
           nx == [next EXCEPT ![e] = free_entry]
<1>0. /\ next \in [Entries -> 0..PoolSize]
      /\ next_entry \in 0..PoolSize /\ free_entry \in 0..PoolSize /\ e \in 0..PoolSize
      /\ Listed(next, next_entry, q, n)
      /\ Listed(next, free_entry, g, m)
      /\ On(q, n) \cap On(g, m) = {}
      /\ e \notin On(q, n) /\ e \notin On(g, m)
      /\ On(q, n) \cup On(g, m) \cup {e} = Entries
      /\ n + m + 1 = PoolSize
    BY DEF Pooled, Served
<1>1. n \in Nat /\ m \in Nat /\ m < PoolSize /\ e \in Entries
    BY <1>0, Pool DEF Listed
<1>2. /\ Listed(nx, e, g2, m + 1)
      /\ On(g2, m + 1) = On(g, m) \cup {e}
    <2>1. /\ Listed(next, free_entry, g, m) /\ next \in [Entries -> 0..PoolSize]
          /\ e \in Entries /\ e \notin On(g, m) /\ m < PoolSize
        BY <1>0, <1>1
    <2>2. nx[e] = free_entry /\ \A x \in Entries : x # e => nx[x] = next[x]
        BY <2>1
    <2> HIDE DEF nx
    <2> QED
        BY <2>1, <2>2, ListedPush
<1>3. nx \in [Entries -> 0..PoolSize] /\ \A x \in On(q, n) : nx[x] = next[x]
    <2>1. \A x \in On(q, n) : x \in Entries /\ x # e
        BY <1>0
    <2> QED
        BY <2>1, <1>0, <1>1
<1> HIDE DEF nx, g2
<1>4. Listed(nx, next_entry, q, n)
    BY <1>0, <1>3, ListedFrame
<1>5. Served(0) = {}
    BY DEF Served
<1>6. n + (m + 1) + (IF 0 = 0 THEN 0 ELSE 1) = PoolSize
    BY <1>0, <1>1
<1> HIDE DEF e
<1>7. /\ On(q, n) \cap On(g2, m + 1) = {}
      /\ On(q, n) \cup On(g2, m + 1) \cup {} = Entries
    BY <1>0, <1>2
<1>8. {next_entry, e, 0} \subseteq 0..PoolSize
    BY <1>0, Pool
<1>9. Pooled(nx, next_entry, e, 0, q, n, g2, m + 1)
    BY <1>2, <1>3, <1>4, <1>5, <1>6, <1>7, <1>8 DEF Pooled
<1> QED
    BY <1>9 DEF nx, g2, e

\* RemoveAll takes some entries out of the queue; the others stay in order.
LEMMA RemoveLists ==
    ASSUME NEW q, NEW n, NEW g, NEW m, NEW doomed \in SUBSET On(q, n),
           Pooled(next, next_entry, free_entry, running, q, n, g, m),
           RemoveAll(doomed)
    PROVE  \E z \in 0..n : \E c \in [1..z -> 1..n] :
             /\ \A x, y \in 1..z : x < y => c[x] < c[y]
             /\ {c[x] : x \in 1..z} = {i \in 1..n : q[i] \notin doomed}
             /\ \E g2, m2 : Pooled(next', next_entry', free_entry', running,
                                   At(q, c, z), z, g2, m2)
<1>0. /\ next \in [Entries -> 0..PoolSize]
      /\ next_entry \in 0..PoolSize /\ free_entry \in 0..PoolSize /\ running \in 0..PoolSize
      /\ Listed(next, next_entry, q, n)
      /\ Listed(next, free_entry, g, m)
      /\ On(q, n) \cap On(g, m) = {}
      /\ Served(running) \cap On(q, n) = {}
      /\ Served(running) \cap On(g, m) = {}
      /\ On(q, n) \cup On(g, m) \cup Served(running) = Entries
      /\ n + m + (IF running = 0 THEN 0 ELSE 1) = PoolSize
    BY DEF Pooled
<1>1. /\ n \in 0..PoolSize /\ n \in Nat /\ m \in Nat /\ PoolSize \in Nat
      /\ q \in [1..n -> Entries]
      /\ \A x, y \in 1..n : q[x] = q[y] => x = y
    BY <1>0, Pool DEF Listed
<1>2. n + m <= PoolSize
    BY <1>0, <1>1
<1> DEFINE start == [next |-> next, head |-> next_entry, free |-> free_entry, prev |-> 0]
<1>3. /\ start \in ListRecord
      /\ start.next = next /\ start.head = next_entry /\ start.free = free_entry
      /\ start.prev = 0
    BY <1>0, Pool DEF ListRecord
<1> HIDE DEF start
<1> DEFINE done == Visits(doomed, start, q, n)[n]
<1>4. \E c, z, gg, gm : Walked(q, n, g, m, doomed, n, done, c, z, gg, gm)
    <2>1. /\ Listed(start.next, start.head, q, n) /\ Listed(start.next, start.free, g, m)
        BY <1>0, <1>3
    <2> QED
        BY <2>1, <1>0, <1>1, <1>2, <1>3, WalkEnds
<1>5. /\ next' = done.next
      /\ next_entry' = done.head
      /\ free_entry' = done.free
    <2>1. Chain(next, next_entry) = q /\ Len(Chain(next, next_entry)) = n
        BY <1>0, ListFound
    <2>2. Len(q) = n
        BY <2>1
    <2> QED
        BY <2>1, <2>2, Zenon DEF RemoveAll, Visits, start
<1>6. PICK c, z, gg, gm : Walked(q, n, g, m, doomed, n, done, c, z, gg, gm)
    BY <1>4
<1> HIDE DEF done
<1>7. /\ done \in ListRecord
      /\ z \in (n - n)..n /\ gm = m + n - z
      /\ c \in [1..z -> 1..n]
      /\ \A x, y \in 1..z : x < y => c[x] < c[y]
      /\ \A x \in 1..z : x <= z - (n - n) => c[x] <= n /\ q[c[x]] \notin doomed
      /\ \A j \in 1..n : q[j] \notin doomed => \E x \in 1..z : c[x] = j
      /\ Listed(done.next, done.head, At(q, c, z), z)
      /\ Listed(done.next, done.free, gg, gm)
      /\ On(gg, gm) = On(g, m) \cup {q[j] : j \in {y \in 1..n : q[y] \in doomed}}
    BY <1>6 DEF Walked
<1>8. /\ z \in 0..n /\ z \in Nat
      /\ \A x \in 1..z : q[c[x]] \notin doomed
      /\ z + gm + (IF running = 0 THEN 0 ELSE 1) = PoolSize
    <2>1. z \in 0..n /\ z \in Nat /\ z - (n - n) = z
        BY <1>1, <1>7
    <2>2. \A x \in 1..z : x <= z
        BY <2>1
    <2>3. \A x \in 1..z : q[c[x]] \notin doomed
        BY <2>1, <2>2, <1>7
    <2>4. gm = m + n - z
        BY <1>7
    <2>5. z + gm + (IF running = 0 THEN 0 ELSE 1) = PoolSize
        BY <2>1, <2>4, <1>0, <1>1
    <2> QED
        BY <2>1, <2>3, <2>5
<1>9. {c[x] : x \in 1..z} = {i \in 1..n : q[i] \notin doomed}
    BY <1>7, <1>8
<1>10. {q[j] : j \in {y \in 1..n : q[y] \in doomed}} = doomed
    BY DEF On
<1>11. On(At(q, c, z), z) = On(q, n) \ doomed
    <2>1. \A x \in 1..z : At(q, c, z)[x] = q[c[x]] /\ c[x] \in 1..n
        BY <1>7 DEF At
    <2>2. \A x \in 1..z : At(q, c, z)[x] \in On(q, n) \ doomed
        BY <2>1, <1>8 DEF On
    <2>3. ASSUME NEW j \in 1..n, q[j] \notin doomed
          PROVE  q[j] \in On(At(q, c, z), z)
        <3>1. PICK x \in 1..z : c[x] = j
            BY <2>3, <1>7
        <3>2. At(q, c, z)[x] = q[j]
            BY <3>1, <2>1
        <3> QED
            BY <3>2 DEF On
    <2> QED
        BY <2>2, <2>3 DEF On
<1>12. Pooled(done.next, done.head, done.free, running, At(q, c, z), z, gg, gm)
    <2> DEFINE s == At(q, c, z)
               gone == {q[j] : j \in {y \in 1..n : q[y] \in doomed}}
    <2>1. On(gg, gm) = On(g, m) \cup doomed
        BY <1>7, <1>10
    <2>2. On(s, z) = On(q, n) \ doomed
        BY <1>11
    <2> HIDE DEF s
    <2>3. /\ On(s, z) \cap On(gg, gm) = {}
          /\ Served(running) \cap On(s, z) = {}
          /\ Served(running) \cap On(gg, gm) = {}
          /\ On(s, z) \cup On(gg, gm) \cup Served(running) = Entries
        BY <2>1, <2>2, <1>0
    <2>4. /\ done.next \in [Entries -> 0..PoolSize]
          /\ {done.head, done.free, running} \subseteq 0..PoolSize
        BY <1>0, <1>7 DEF ListRecord
    <2>5. Listed(done.next, done.head, s, z) /\ Listed(done.next, done.free, gg, gm)
        BY <1>7 DEF s
    <2>6. Pooled(done.next, done.head, done.free, running, s, z, gg, gm)
        BY <2>3, <2>4, <2>5, <1>8 DEF Pooled
    <2> QED
        BY <2>6 DEF s
<1>13. Pooled(next', next_entry', free_entry', running, At(q, c, z), z, gg, gm)
    BY <1>5, <1>12
<1>14. /\ c \in [1..z -> 1..n]
       /\ \A x, y \in 1..z : x < y => c[x] < c[y]
    BY <1>7
<1> QED
    BY <1>8, <1>9, <1>13, <1>14

-----------------------------------------------------------------------------
(* The invariant.                                                          *)

PoolInv ==
    \E q, n, g, m :
        /\ Pooled(next, next_entry, free_entry, running, q, n, g, m)
        /\ Ordered(entries, q, n)

\* An entry is served when its handler runs, and PIC_AddEvent counts from the
\* time it was due.
ModeInv ==
    /\ running # 0 <=> mode = "handler"
    /\ InEventService = (mode \in {"service", "handler"})
    /\ running # 0 => entries[running] \in Event /\ srv_lag = entries[running].index

\* cycles from now to the time of an entry
Until(e) == Whole(entries[e].index) - PIC_TickIndexND

\* NoOversleep, in whole cycles.
Awake(c, v, raised) == c <= v \/ c <= IF raised = {} THEN 1 ELSE 2

TimeInv ==
    /\ Timely(mode, CPU_Cycles, CPU_CycleLeft, Backlog(irqs),
              next_entry # 0, Until(next_entry), running # 0, Until(running))
    /\ next_entry # 0 => Awake(CPU_Cycles, Until(next_entry), irqs)

Inv == TypeOK /\ PoolInv /\ ModeInv /\ TimeInv

\* What the invariant says of the head of the queue and of the numbers.
LEMMA HeadFacts ==
    ASSUME Inv
    PROVE  /\ CPU_Cycles \in Int /\ CPU_CycleLeft \in Int /\ PIC_TickIndexND \in Int
           /\ Backlog(irqs) \in Nat /\ Backlog(irqs) <= MaxBacklog
           /\ next_entry # 0 => /\ next_entry \in Entries
                                /\ entries[next_entry] \in Event
                                /\ entries[next_entry].index \in Int
                                /\ Until(next_entry) \in Int
           /\ running # 0 => /\ running \in Entries
                             /\ entries[running].index \in Int
                             /\ Until(running) \in Int
<1>1. CPU_Cycles \in Int /\ CPU_CycleLeft \in Int /\ PIC_TickIndexND \in Int
    BY Pool DEF Inv, TypeOK, PIC_TickIndexND
<1>2. irqs \in SUBSET Irqs
    BY DEF Inv, TypeOK
<1>3. Backlog(irqs) \in Nat /\ Backlog(irqs) <= MaxBacklog
    BY <1>2, Backlogs
<1>4. next_entry # 0 => next_entry \in Entries /\ entries[next_entry] \in Event
    <2>1. PICK q, n, g, m :
             /\ Pooled(next, next_entry, free_entry, running, q, n, g, m)
             /\ Ordered(entries, q, n)
        BY DEF Inv, PoolInv
    <2>2. /\ n \in Nat /\ q \in [1..n -> Entries]
          /\ next_entry = IF n = 0 THEN 0 ELSE q[1]
        BY <2>1, Pool DEF Pooled, Listed
    <2>3. n # 0 => 1 \in 1..n
        BY <2>2
    <2> QED
        BY <2>1, <2>2, <2>3 DEF Ordered
<1>5. running # 0 => running \in Entries /\ entries[running] \in Event
    BY Pool DEF Inv, ModeInv, TypeOK, Entries
<1>6. \A e : entries[e] \in Event => entries[e].index \in Int
    BY DEF Event
<1>7. \A e : entries[e].index \in Int => Until(e) \in Int
    <2>1. TAKE e
    <2>2. entries[e].index \in Int => Whole(entries[e].index) \in Int
        BY WholeAtLeast
    <2> QED
        BY <2>2, <1>1 DEF Until
<1> QED
    BY <1>1, <1>3, <1>4, <1>5, <1>6, <1>7

\* The three checked invariants follow.
LEMMA InvTyped == Inv => TypeOK
    BY DEF Inv

\* PoolIntact follows: Chain and Node find the lists of the invariant.
LEMMA InvIntact ==
    ASSUME Inv
    PROVE  PoolIntact
<1>1. PICK q, n, g, m :
             /\ Pooled(next, next_entry, free_entry, running, q, n, g, m)
             /\ Ordered(entries, q, n)
    BY DEF Inv, PoolInv
<1>2. /\ next \in [Entries -> 0..PoolSize]
      /\ next_entry \in 0..PoolSize /\ free_entry \in 0..PoolSize
      /\ Listed(next, next_entry, q, n)
      /\ Listed(next, free_entry, g, m)
      /\ On(q, n) \cap On(g, m) = {}
      /\ Served(running) \cap On(q, n) = {}
      /\ Served(running) \cap On(g, m) = {}
      /\ On(q, n) \cup On(g, m) \cup Served(running) = Entries
    BY <1>1 DEF Pooled
<1>3. /\ ToSet(Chain(next, next_entry)) = On(q, n)
      /\ Node(next, next_entry)[PoolSize] = 0
    BY <1>2, ListFound
<1>4. /\ ToSet(Chain(next, free_entry)) = On(g, m)
      /\ Node(next, free_entry)[PoolSize] = 0
    BY <1>2, ListFound
<1>5. Queued = On(q, n) /\ Free = On(g, m)
    BY <1>3, <1>4 DEF Queued, Free
<1>6. (IF running = 0 THEN {} ELSE {running}) = Served(running)
    BY DEF Served
<1> QED
    BY <1>2, <1>3, <1>4, <1>5, <1>6 DEF PoolIntact

\* NoOversleep follows: it is Awake, in parts of a cycle.
LEMMA InvAwake ==
    ASSUME Inv
    PROVE  NoOversleep
<1>1. SUFFICES ASSUME next_entry # 0
               PROVE  \/ CPU_Cycles * Sub <= entries[next_entry].index - PIC_TickIndexND * Sub
                      \/ CPU_Cycles <= IF irqs = {} THEN 1 ELSE 2
    BY DEF NoOversleep
<1> DEFINE idx == entries[next_entry].index
           now == PIC_TickIndexND
<1>2. /\ CPU_Cycles \in Int /\ now \in Int /\ idx \in Int /\ Whole(idx) \in Int
      /\ Until(next_entry) = Whole(idx) - now
    BY <1>1, HeadFacts, WholeAtLeast DEF Until
<1>3. CPU_Cycles <= Whole(idx) - now \/ CPU_Cycles <= IF irqs = {} THEN 1 ELSE 2
    BY <1>1, <1>2 DEF Inv, TimeInv, Awake
<1>4. CPU_Cycles <= Whole(idx) - now => CPU_Cycles * Sub <= idx - now * Sub
    <2> HIDE DEF idx, now
    <2>1. CPU_Cycles <= Whole(idx) - now => CPU_Cycles + now <= Whole(idx)
        BY <1>2
    <2>2. CPU_Cycles + now <= Whole(idx) => (CPU_Cycles + now) * Sub <= idx
        BY <1>2, WholeAtLeast
    <2>3. (CPU_Cycles + now) * Sub = CPU_Cycles * Sub + now * Sub
          /\ CPU_Cycles * Sub \in Int /\ now * Sub \in Int
        BY <1>2, Times
    <2> QED
        BY <2>1, <2>2, <2>3, <1>2
<1> QED
    BY <1>3, <1>4

\* Actions that touch neither list nor the entry being served.
LEMMA SameLists ==
    ASSUME Inv, UNCHANGED <<lists, running>>
    PROVE  /\ PoolInv'
           /\ \A e : Until(e)' = Whole(entries[e].index) - PIC_TickIndexND'
<1>1. /\ entries' = entries /\ next' = next /\ free_entry' = free_entry
      /\ next_entry' = next_entry /\ running' = running
    BY DEF lists
<1>2. PoolInv'
    BY <1>1 DEF Inv, PoolInv, Pooled, Ordered
<1>3. \A e : Until(e)' = Whole(entries[e].index) - PIC_TickIndexND'
    BY <1>1 DEF Until
<1> QED
    BY <1>2, <1>3

-----------------------------------------------------------------------------
(* Every action keeps the invariant.                                       *)

\* Time moves on by k cycles while the lists rest.
LEMMA TimeStep ==
    ASSUME Inv, UNCHANGED <<lists, running>>,
           NEW k \in Int, PIC_TickIndexND' = PIC_TickIndexND + k,
           Timely(mode', CPU_Cycles', CPU_CycleLeft', Backlog(irqs'),
                  next_entry # 0, Until(next_entry) - k, running # 0, Until(running) - k),
           next_entry # 0 => Awake(CPU_Cycles', Until(next_entry) - k, irqs')
    PROVE  PoolInv' /\ TimeInv'
<1>1. PoolInv' /\ \A e : Until(e)' = Whole(entries[e].index) - PIC_TickIndexND'
    BY SameLists
<1>2. PIC_TickIndexND \in Int
    BY HeadFacts
<1>3. next_entry' = next_entry /\ running' = running /\ entries' = entries
    BY DEF lists
<1>4. \A e : entries[e].index \in Int => Whole(entries[e].index) \in Int
    BY WholeAtLeast
<1>5. next_entry # 0 => entries[next_entry].index \in Int
    BY HeadFacts
<1>6. running # 0 => entries[running].index \in Int
    BY HeadFacts
<1>7. next_entry # 0 => Until(next_entry)' = Until(next_entry) - k
    BY <1>1, <1>2, <1>3, <1>4, <1>5 DEF Until
<1>8. running # 0 => Until(running)' = Until(running) - k
    BY <1>1, <1>2, <1>3, <1>4, <1>6 DEF Until
<1>9. TimeInv'
    BY <1>3, <1>7, <1>8 DEF TimeInv, Timely
<1> QED
    BY <1>1, <1>9

\* The sum of the two counters gives the time.
LEMMA Clock ==
    ASSUME Inv, CPU_Cycles' \in Int, CPU_CycleLeft' \in Int
    PROVE  PIC_TickIndexND' = PIC_TickIndexND
               + ((CPU_CycleLeft + CPU_Cycles) - (CPU_CycleLeft' + CPU_Cycles'))
    BY Pool, HeadFacts DEF PIC_TickIndexND

\* The invariant, unfolded to the scalars of the budget.
LEMMA Scalars ==
    ASSUME Inv
    PROVE  LET c == CPU_Cycles
               l == CPU_CycleLeft
               b == Backlog(irqs)
               v == Until(next_entry)
           IN  /\ c \in Int /\ l \in Int /\ b \in Nat /\ b <= MaxBacklog
               /\ Slack \in Nat /\ irqs \in SUBSET Irqs /\ mode \in Modes
               /\ next_entry # 0 => v \in Int /\ Awake(c, v, irqs) /\ v >= 0 - Slack
               /\ running # 0 => Until(running) \in Int /\ Until(running) >= 0 - Slack
               /\ mode \in {"service", "handler", "host", "ticker"} => c = 0
               /\ mode \in {"service", "handler"} => l > 0
               /\ mode = "host" => l <= 0
               /\ l + c >= 0 - Slack
               /\ Running(mode) => InTick(c, l, b)
               /\ Running(mode) /\ next_entry # 0 => InGrant(mode, c, b, v)
               /\ running # 0 <=> mode = "handler"
<1>1. /\ CPU_Cycles \in Int /\ CPU_CycleLeft \in Int
      /\ Backlog(irqs) \in Nat /\ Backlog(irqs) <= MaxBacklog
      /\ next_entry # 0 => Until(next_entry) \in Int
      /\ running # 0 => Until(running) \in Int
    BY HeadFacts
<1>2. Slack \in Nat /\ irqs \in SUBSET Irqs /\ mode \in Modes
    BY Backlogs DEF Inv, TypeOK
<1>3. TimeInv /\ (running # 0 <=> mode = "handler")
    BY DEF Inv, ModeInv
<1> QED
    BY <1>1, <1>2, <1>3 DEF TimeInv, Timely


\* Types of a step that leaves the lists alone.
LEMMA TypeStep ==
    ASSUME Inv, UNCHANGED <<lists, running>>, InEventService' \in BOOLEAN,
           srv_lag' \in Int, CPU_Cycles' \in Int, CPU_CycleLeft' \in Int,
           mode' \in Modes, irqs' \in SUBSET Irqs
    PROVE  TypeOK'
<1>1. /\ entries' = entries /\ next' = next /\ free_entry' = free_entry
      /\ next_entry' = next_entry /\ running' = running
    BY DEF lists
<1>2. TypeOK
    BY DEF Inv
<1>3. /\ entries' \in [Entries -> Event \cup {Blank}]
      /\ next' \in [Entries -> 0..PoolSize]
      /\ {free_entry', next_entry', running'} \subseteq 0..PoolSize
    BY <1>1, <1>2 DEF TypeOK
<1> QED
    BY <1>3 DEF TypeOK

\* Steps outside PIC_RunQueue, which leave its variables alone.
LEMMA OutsideStep ==
    ASSUME Inv, UNCHANGED <<lists, service>>,
           mode \notin {"service", "handler"},
           mode' \in Modes \ {"service", "handler"},
           CPU_Cycles' \in Int, CPU_CycleLeft' \in Int, irqs' \in SUBSET Irqs
    PROVE  TypeOK' /\ ModeInv'
<1>1. /\ running' = running /\ InEventService' = InEventService /\ srv_lag' = srv_lag
      /\ entries' = entries
    BY DEF service, lists
<1>2. InEventService \in BOOLEAN /\ srv_lag \in Int
    BY DEF Inv, TypeOK
<1>3. TypeOK'
    BY <1>1, <1>2, TypeStep
<1>4. /\ running # 0 <=> mode = "handler"
      /\ InEventService = (mode \in {"service", "handler"})
    BY DEF Inv, ModeInv
<1>5. running = 0
    BY <1>4
<1>6. InEventService' = (mode' \in {"service", "handler"})
    BY <1>1, <1>4
<1>7. running' = 0 /\ mode' # "handler"
    BY <1>1, <1>5
<1> QED
    BY <1>3, <1>6, <1>7 DEF ModeInv

\* Such a step of k cycles.
LEMMA CoreStep ==
    ASSUME Inv, UNCHANGED <<lists, service>>,
           mode \notin {"service", "handler"},
           mode' \in Modes \ {"service", "handler"},
           CPU_Cycles' \in Int, CPU_CycleLeft' \in Int, irqs' \in SUBSET Irqs,
           NEW k \in Int,
           (CPU_CycleLeft + CPU_Cycles) - (CPU_CycleLeft' + CPU_Cycles') = k,
           Timely(mode', CPU_Cycles', CPU_CycleLeft', Backlog(irqs'),
                  next_entry # 0, Until(next_entry) - k, FALSE, 0),
           next_entry # 0 => Awake(CPU_Cycles', Until(next_entry) - k, irqs')
    PROVE  Inv'
<1>1. TypeOK' /\ ModeInv'
    BY OutsideStep
<1>2. UNCHANGED <<lists, running>>
    BY DEF service
<1>3. running = 0
    BY DEF Inv, ModeInv
<1>4. PIC_TickIndexND' = PIC_TickIndexND + k
    BY Clock
<1>5. Timely(mode', CPU_Cycles', CPU_CycleLeft', Backlog(irqs'),
             next_entry # 0, Until(next_entry) - k, running # 0, Until(running) - k)
    BY <1>3 DEF Timely
<1>6. PoolInv' /\ TimeInv'
    BY <1>2, <1>4, <1>5, TimeStep
<1> QED
    BY <1>1, <1>6 DEF Inv

\* An instruction takes its cost.
LEMMA FetchStep ==
    ASSUME Inv, Fetch
    PROVE  Inv'
<1> DEFINE v == Until(next_entry)
           b == Backlog(irqs)
<1>1. PICK cost \in 1..MaxCost : CPU_Cycles' = CPU_Cycles - cost
    BY DEF Fetch
<1>2. /\ mode = "fetch" /\ CPU_Cycles > 0 /\ mode' = "execute"
      /\ UNCHANGED <<lists, service>> /\ CPU_CycleLeft' = CPU_CycleLeft /\ irqs' = irqs
    BY DEF Fetch
<1>3. /\ CPU_Cycles \in Int /\ CPU_CycleLeft \in Int /\ b \in Nat /\ b <= MaxBacklog
      /\ irqs \in SUBSET Irqs /\ Slack \in Nat
      /\ InTick(CPU_Cycles, CPU_CycleLeft, b)
      /\ next_entry # 0 => v \in Int /\ InGrant(mode, CPU_Cycles, b, v) /\ Awake(CPU_Cycles, v, irqs)
    BY <1>2, Scalars DEF Running
<1>4. cost \in Int /\ cost >= 1
    BY Pool
<1> HIDE DEF v, b
<1>5. /\ InTick(CPU_Cycles - cost, CPU_CycleLeft, b)
      /\ CPU_CycleLeft + (CPU_Cycles - cost) >= 0 - Slack
    BY <1>2, <1>3, 0 \in Int, Spent
<1>6. next_entry # 0 => /\ InGrant("execute", CPU_Cycles - cost, b, v - cost)
                        /\ v - cost >= 0 - Slack
    BY <1>2, <1>3, Spent
<1>7. Timely(mode', CPU_Cycles', CPU_CycleLeft', Backlog(irqs'),
             next_entry # 0, Until(next_entry) - cost, FALSE, 0)
    BY <1>1, <1>2, <1>5, <1>6 DEF Timely, v, b
<1>8. next_entry # 0 => Awake(CPU_Cycles', Until(next_entry) - cost, irqs')
    BY <1>1, <1>2, <1>3, <1>4 DEF Awake, v
<1>9. /\ mode \notin {"service", "handler"} /\ mode' \in Modes \ {"service", "handler"}
      /\ CPU_Cycles' \in Int /\ CPU_CycleLeft' \in Int /\ irqs' \in SUBSET Irqs
      /\ (CPU_CycleLeft + CPU_Cycles) - (CPU_CycleLeft' + CPU_Cycles') = cost
    BY <1>1, <1>2, <1>3, <1>4 DEF Modes
<1> QED
    BY <1>2, <1>4, <1>7, <1>8, <1>9, CoreStep

\* A port delay, a string instruction or HLT spends more.
LEMMA SpendStep ==
    ASSUME Inv, Spend
    PROVE  Inv'
<1> DEFINE v == Until(next_entry)
           b == Backlog(irqs)
           d == CPU_Cycles'
           k == CPU_Cycles - d
<1>2. /\ mode = "execute" /\ CPU_Cycles > 0 /\ mode' = mode /\ d \in 0..(CPU_Cycles - 1)
      /\ UNCHANGED <<lists, service>> /\ CPU_CycleLeft' = CPU_CycleLeft /\ irqs' = irqs
    BY DEF Spend
<1>3. /\ CPU_Cycles \in Int /\ CPU_CycleLeft \in Int /\ b \in Nat /\ b <= MaxBacklog
      /\ irqs \in SUBSET Irqs /\ Slack \in Nat
      /\ InTick(CPU_Cycles, CPU_CycleLeft, b)
      /\ next_entry # 0 => v \in Int /\ InGrant(mode, CPU_Cycles, b, v) /\ Awake(CPU_Cycles, v, irqs)
    BY <1>2, Scalars DEF Running
<1>4. d \in Int /\ k \in Int /\ k >= 1 /\ d >= 0
    <2>1. CPU_Cycles \in Int /\ d \in 0..(CPU_Cycles - 1)
        BY <1>2, <1>3
    <2> HIDE DEF d
    <2> QED
        BY <2>1
<1> HIDE DEF v, b
<1>5. /\ InTick(d, CPU_CycleLeft, b)
      /\ CPU_CycleLeft + d >= 0 - Slack
    BY <1>2, <1>3, 0 \in Int, SpentWithin
<1>6. next_entry # 0 => /\ InGrant("execute", d, b, v - k)
                        /\ v - k >= 0 - Slack
    BY <1>2, <1>3, SpentWithin
<1>7. Timely(mode', CPU_Cycles', CPU_CycleLeft', Backlog(irqs'),
             next_entry # 0, Until(next_entry) - k, FALSE, 0)
    BY <1>2, <1>5, <1>6 DEF Timely, v, b
<1>8. next_entry # 0 => Awake(CPU_Cycles', Until(next_entry) - k, irqs')
    BY <1>2, <1>3, <1>4 DEF Awake, v
<1>9. /\ mode \notin {"service", "handler"} /\ mode' \in Modes \ {"service", "handler"}
      /\ CPU_Cycles' \in Int /\ CPU_CycleLeft' \in Int /\ irqs' \in SUBSET Irqs
      /\ (CPU_CycleLeft + CPU_Cycles) - (CPU_CycleLeft' + CPU_Cycles') = k
    BY <1>2, <1>3, <1>4 DEF Modes
<1> QED
    BY <1>2, <1>4, <1>7, <1>8, <1>9, CoreStep

\* activate() gives the cycles back.
LEMMA InterruptStep ==
    ASSUME Inv, Interrupt
    PROVE  Inv'
<1> DEFINE v == Until(next_entry)
           b == Backlog(irqs)
<1>2. /\ mode = "execute" /\ mode' = mode /\ CPU_Cycles' = 0
      /\ CPU_CycleLeft' = CPU_CycleLeft + CPU_Cycles
      /\ UNCHANGED <<lists, service>> /\ irqs' = irqs
    BY DEF Interrupt, StopCpu
<1>3. /\ CPU_Cycles \in Int /\ CPU_CycleLeft \in Int /\ b \in Nat
      /\ irqs \in SUBSET Irqs /\ CPU_CycleLeft + CPU_Cycles >= 0 - Slack
      /\ InTick(CPU_Cycles, CPU_CycleLeft, b)
      /\ next_entry # 0 => v \in Int /\ v >= 0 - Slack /\ InGrant(mode, CPU_Cycles, b, v)
    BY <1>2, Scalars DEF Running
<1> HIDE DEF v, b
<1>5. InTick(0, CPU_CycleLeft + CPU_Cycles, b)
    BY <1>3, 0 \in Int, Stopped
<1>6. next_entry # 0 => InGrant(mode, 0, b, v)
    BY <1>3, Stopped
<1>7. Timely(mode', CPU_Cycles', CPU_CycleLeft', Backlog(irqs'),
             next_entry # 0, Until(next_entry) - 0, FALSE, 0)
    BY <1>2, <1>3, <1>5, <1>6 DEF Timely, v, b
<1>8. next_entry # 0 => Awake(CPU_Cycles', Until(next_entry) - 0, irqs')
    BY <1>2, <1>3 DEF Awake, v
<1>9. /\ mode \notin {"service", "handler"} /\ mode' \in Modes \ {"service", "handler"}
      /\ CPU_Cycles' \in Int /\ CPU_CycleLeft' \in Int /\ irqs' \in SUBSET Irqs
      /\ (CPU_CycleLeft + CPU_Cycles) - (CPU_CycleLeft' + CPU_Cycles') = 0
    BY <1>2, <1>3 DEF Modes
<1> QED
    BY <1>2, <1>7, <1>8, <1>9, 0 \in Int, CoreStep

\* Steps of the loop that leave lists, budget and interrupts alone.
LEMMA IdleStep ==
    ASSUME Inv,
           \/ Retire \/ NoTickYet \/ TickersDone
    PROVE  Inv'
<1> DEFINE v == Until(next_entry)
           b == Backlog(irqs)
<1>1. /\ mode \in {"execute", "host", "ticker"} /\ mode' \in {"fetch", "loop"}
      /\ mode' = "fetch" => mode = "execute"
      /\ UNCHANGED <<lists, service>> /\ irqs' = irqs
      /\ CPU_Cycles' = CPU_Cycles /\ CPU_CycleLeft' = CPU_CycleLeft
    BY DEF Retire, NoTickYet, TickersDone, cycles
<1>3. /\ CPU_Cycles \in Int /\ CPU_CycleLeft \in Int
      /\ irqs \in SUBSET Irqs /\ CPU_CycleLeft + CPU_Cycles >= 0 - Slack
      /\ mode = "execute" => InTick(CPU_Cycles, CPU_CycleLeft, b)
      /\ next_entry # 0 => v \in Int /\ v >= 0 - Slack /\ Awake(CPU_Cycles, v, irqs)
      /\ next_entry # 0 /\ mode = "execute" => InGrant("execute", CPU_Cycles, b, v)
    BY <1>1, Scalars DEF Running
<1> HIDE DEF v, b
<1>4. b \in Nat
    BY Scalars DEF b
<1>5. next_entry # 0 /\ mode = "execute" => InGrant("fetch", CPU_Cycles, b, v)
    BY <1>3, <1>4, Pool DEF InGrant
<1>7. Timely(mode', CPU_Cycles', CPU_CycleLeft', Backlog(irqs'),
             next_entry # 0, Until(next_entry) - 0, FALSE, 0)
    BY <1>1, <1>3, <1>5 DEF Timely, Running, v, b
<1>8. next_entry # 0 => Awake(CPU_Cycles', Until(next_entry) - 0, irqs')
    BY <1>1, <1>3 DEF v
<1>9. /\ mode \notin {"service", "handler"} /\ mode' \in Modes \ {"service", "handler"}
      /\ CPU_Cycles' \in Int /\ CPU_CycleLeft' \in Int /\ irqs' \in SUBSET Irqs
      /\ (CPU_CycleLeft + CPU_Cycles) - (CPU_CycleLeft' + CPU_Cycles') = 0
    BY <1>1, <1>3 DEF Modes
<1> QED
    BY <1>1, <1>7, <1>8, <1>9, 0 \in Int, CoreStep

\* The loop of the core ends.
LEMMA ExhaustedStep ==
    ASSUME Inv, Exhausted
    PROVE  Inv'
<1> DEFINE v == Until(next_entry)
           b == Backlog(irqs)
<1>2. /\ mode = "fetch" /\ mode' = "loop" /\ CPU_Cycles' = CPU_Cycles - 1
      /\ CPU_CycleLeft' = CPU_CycleLeft /\ CPU_Cycles <= 0
      /\ UNCHANGED <<lists, service>> /\ irqs' = irqs
    BY DEF Exhausted
<1>3. /\ CPU_Cycles \in Int /\ CPU_CycleLeft \in Int /\ b \in Nat /\ b <= MaxBacklog
      /\ irqs \in SUBSET Irqs
      /\ InTick(CPU_Cycles, CPU_CycleLeft, b)
      /\ next_entry # 0 => v \in Int /\ InGrant(mode, CPU_Cycles, b, v)
    BY <1>2, Scalars DEF Running
<1> HIDE DEF v, b
<1>5. CPU_CycleLeft + (CPU_Cycles - 1) >= 0 - Slack
    BY <1>2, <1>3, 0 \in Int, Overrun
<1>6. next_entry # 0 => v - 1 >= 0 - Slack
    BY <1>2, <1>3, Overrun
<1>7. Timely(mode', CPU_Cycles', CPU_CycleLeft', Backlog(irqs'),
             next_entry # 0, Until(next_entry) - 1, FALSE, 0)
    BY <1>2, <1>5, <1>6 DEF Timely, Running, v
<1>8. next_entry # 0 => Awake(CPU_Cycles', Until(next_entry) - 1, irqs')
    BY <1>2, <1>3 DEF Awake, v
<1>9. /\ mode \notin {"service", "handler"} /\ mode' \in Modes \ {"service", "handler"}
      /\ CPU_Cycles' \in Int /\ CPU_CycleLeft' \in Int /\ irqs' \in SUBSET Irqs
      /\ (CPU_CycleLeft + CPU_Cycles) - (CPU_CycleLeft' + CPU_Cycles') = 1
    BY <1>2, <1>3 DEF Modes
<1> QED
    BY <1>2, <1>7, <1>8, <1>9, 1 \in Int, CoreStep


\* PIC_RunQueue begins: the tick is over, or events are served.
LEMMA RunQueueStep ==
    ASSUME Inv, RunQueue
    PROVE  Inv'
<1> DEFINE v == Until(next_entry)
           l2 == CPU_CycleLeft + CPU_Cycles
<1>1. /\ mode = "loop" /\ CPU_CycleLeft' = l2 /\ CPU_Cycles' = 0
      /\ UNCHANGED <<lists, running, srv_lag, irqs>>
    BY DEF RunQueue, StopCpu
<1>2. \/ l2 <= 0 /\ mode' = "host" /\ InEventService' = InEventService
      \/ ~ (l2 <= 0) /\ mode' = "service" /\ InEventService' = TRUE
    BY <1>1 DEF RunQueue
<1>3. /\ CPU_Cycles \in Int /\ CPU_CycleLeft \in Int /\ l2 >= 0 - Slack
      /\ irqs \in SUBSET Irqs /\ Slack \in Nat /\ running = 0
      /\ next_entry # 0 => v \in Int /\ v >= 0 - Slack
    BY <1>1, Scalars
<1>4. l2 \in Int
    BY <1>3
<1>5. InEventService \in BOOLEAN /\ srv_lag \in Int /\ ~ InEventService
    BY <1>1 DEF Inv, TypeOK, ModeInv
<1>6. running' = 0 /\ mode' # "handler" /\ mode' \in Modes
    BY <1>1, <1>2, <1>3 DEF Modes
<1>7. TypeOK'
    <2>1. InEventService' \in BOOLEAN /\ srv_lag' = srv_lag /\ irqs' = irqs
        BY <1>1, <1>2, <1>5
    <2> QED
        BY <2>1, <1>1, <1>3, <1>4, <1>5, <1>6, TypeStep
<1>8. InEventService' = (mode' \in {"service", "handler"})
    <2>1. InEventService = FALSE
        BY <1>5, Zenon
    <2>2. CASE ~ (l2 <= 0)
        <3>1. InEventService' = TRUE /\ mode' = "service"
            BY <2>2, <1>2
        <3>2. (mode' \in {"service", "handler"}) = TRUE
            BY <3>1
        <3> QED
            BY <3>1, <3>2, Zenon
    <2>3. CASE l2 <= 0
        <3>1. mode' = "host" /\ InEventService' = InEventService
            BY <2>3, <1>2
        <3>2. (mode' \in {"service", "handler"}) = FALSE
            BY <3>1
        <3> QED
            BY <3>1, <3>2, <2>1, Zenon
    <2> QED
        BY <2>2, <2>3
<1>9. ModeInv'
    BY <1>6, <1>8 DEF ModeInv
<1>10. PIC_TickIndexND' = PIC_TickIndexND + 0
    <2>1. (CPU_CycleLeft + CPU_Cycles) - (CPU_CycleLeft' + CPU_Cycles') = 0
        BY <1>1, <1>3
    <2>2. CPU_Cycles' \in Int /\ CPU_CycleLeft' \in Int
        BY <1>1, <1>4
    <2> QED
        BY <2>1, <2>2, Clock
<1>11. Timely(mode', CPU_Cycles', CPU_CycleLeft', Backlog(irqs'),
              next_entry # 0, v - 0, running # 0, Until(running) - 0)
    <2> HIDE DEF v
    <2>1. next_entry # 0 => v - 0 >= 0 - Slack
        BY <1>3
    <2>2. CPU_CycleLeft' + CPU_Cycles' >= 0 - Slack
        BY <1>1, <1>3, <1>4
    <2>3. ~ Running(mode')
        BY <1>2 DEF Running
    <2>4. mode' \in {"service", "handler"} => CPU_CycleLeft' > 0
        BY <1>1, <1>2, <1>4
    <2>5. mode' = "host" => CPU_CycleLeft' <= 0
        BY <1>1, <1>2, <1>4
    <2> QED
        BY <2>1, <2>2, <2>3, <2>4, <2>5, <1>1, <1>3 DEF Timely
<1>12. next_entry # 0 => Awake(CPU_Cycles', v - 0, irqs')
    BY <1>1 DEF Awake
<1>13. PoolInv' /\ TimeInv'
    BY <1>1, <1>10, <1>11, <1>12, 0 \in Int, TimeStep
<1> QED
    BY <1>7, <1>9, <1>13 DEF Inv

\* The core is handed the cycles to the next event, or the rest of the tick.
LEMMA EndServiceStep ==
    ASSUME Inv, EndService
    PROVE  Inv'
<1> DEFINE idx == entries[next_entry].index
           now == PIC_TickIndexND
           v == Until(next_entry)
           until == IF Away(idx) = 0 THEN 1 ELSE Away(idx)
           grant == IF next_entry # 0 /\ until < CPU_CycleLeft
                      THEN until ELSE CPU_CycleLeft
           b2 == Backlog(irqs')
<1>1. /\ mode = "service" /\ ~ Due
      /\ CPU_Cycles' = grant /\ CPU_CycleLeft' = CPU_CycleLeft - grant
      /\ InEventService' = FALSE /\ srv_lag' = 0 /\ mode' = "fetch"
      /\ irqs' \in {irqs, {}} /\ UNCHANGED <<lists, running>>
    BY DEF EndService
<1>2. CPU_Cycles = 0 /\ CPU_CycleLeft \in Int /\ CPU_CycleLeft > 0 /\ running = 0
    BY <1>1, Scalars
<1>3. irqs' \in SUBSET Irqs /\ b2 \in Nat
    <2>1. irqs' \in SUBSET Irqs
        BY <1>1, Scalars
    <2> QED
        BY <2>1, Backlogs
<1>4. next_entry # 0 => v \in Int /\ v >= 0 /\ Away(idx) = v
    <2>1. SUFFICES ASSUME next_entry # 0 PROVE v \in Int /\ v >= 0 /\ Away(idx) = v
        OBVIOUS
    <2>2. idx \in Int /\ now \in Int /\ now * Sub \in Int /\ v \in Int
        BY <2>1, HeadFacts, Times
    <2>3. idx >= now * Sub
        BY <2>1, <2>2, <1>1 DEF Due
    <2>4. PIC_MakeCycles(idx - now * Sub) = Whole(idx) - now /\ Whole(idx) - now >= 0
        BY <2>2, <2>3, MakeCycles
    <2> QED
        BY <2>2, <2>4 DEF Away, Until
<1>5. /\ grant \in Int /\ grant >= 1 /\ grant <= CPU_CycleLeft
      /\ next_entry # 0 => grant <= v \/ (grant = 1 /\ v >= 0)
    <2> DEFINE a == Away(idx)
    <2> HIDE DEF a, v
    <2>1. next_entry # 0 => v \in Int /\ v >= 0 /\ a = v
        BY <1>4 DEF a
    <2>2. CASE next_entry # 0
        <3>1. until = IF v = 0 THEN 1 ELSE v
            BY <2>1, <2>2 DEF a
        <3> HIDE DEF until
        <3> QED
            BY <3>1, <2>1, <2>2, <1>2
    <2>3. CASE next_entry = 0
        <3> HIDE DEF until
        <3> QED
            BY <2>3, <1>2
    <2> QED
        BY <2>2, <2>3
<1> HIDE DEF grant, until
<1>6. TypeOK'
    <2>1. CPU_CycleLeft' \in Int /\ CPU_Cycles' \in Int
        BY <1>1, <1>2, <1>5
    <2> QED
        <3>0. InEventService' \in BOOLEAN
            BY <1>1, Zenon
        <3>1. srv_lag' \in Int /\ mode' \in Modes
            BY <1>1 DEF Modes
        <3>2. UNCHANGED <<lists, running>>
            BY <1>1
        <3> HIDE DEF b2, v, now, idx
        <3> QED
            BY <2>1, <3>0, <3>1, <3>2, <1>3, TypeStep
<1>7. ModeInv'
    <2>1. running' = 0 /\ mode' # "handler" /\ mode' \notin {"service", "handler"}
        BY <1>1, <1>2
    <2>2. InEventService' = (mode' \in {"service", "handler"})
        <3>1. (mode' \in {"service", "handler"}) = FALSE
            BY <2>1
        <3>2. InEventService' = FALSE
            BY <1>1, Zenon
        <3> QED
            BY <3>1, <3>2, Zenon
    <2> QED
        BY <2>1, <2>2 DEF ModeInv
<1>8. PIC_TickIndexND' = PIC_TickIndexND + 0
    <2>1. (CPU_CycleLeft + CPU_Cycles) - (CPU_CycleLeft' + CPU_Cycles') = 0
        BY <1>1, <1>2, <1>5
    <2>2. CPU_Cycles' \in Int /\ CPU_CycleLeft' \in Int
        BY <1>1, <1>2, <1>5
    <2> QED
        BY <2>1, <2>2, Clock
<1>9. Timely(mode', CPU_Cycles', CPU_CycleLeft', b2,
             next_entry # 0, v - 0, running # 0, Until(running) - 0)
    <2> HIDE DEF v, b2
    <2>1. (CPU_CycleLeft - grant) + grant = CPU_CycleLeft /\ Slack \in Nat
        BY <1>2, <1>5, Backlogs
    <2>2. InTick(grant, CPU_CycleLeft - grant, b2)
        BY <2>1, <1>2, <1>3, <1>5, Pool DEF InTick
    <2>3. next_entry # 0 => InGrant("fetch", grant, b2, v - 0) /\ v - 0 >= 0 - Slack
        BY <2>1, <1>3, <1>4, <1>5, Pool DEF InGrant
    <2>4. mode' = "fetch" /\ CPU_Cycles' = grant /\ CPU_CycleLeft' = CPU_CycleLeft - grant
          /\ running = 0
        BY <1>1, <1>2
    <2> QED
        BY <2>1, <2>2, <2>3, <2>4, <1>2, <1>5 DEF Timely, Running
<1>10. next_entry # 0 => Awake(CPU_Cycles', v - 0, irqs')
    <2> HIDE DEF v
    <2> QED
        BY <1>1, <1>4, <1>5 DEF Awake
<1>11. PoolInv' /\ TimeInv'
    BY <1>1, <1>8, <1>9, <1>10, 0 \in Int, TimeStep
<1> QED
    BY <1>6, <1>7, <1>11 DEF Inv

\* PIC_ActivateIRQ: the backlog grows by what its two cycles may cost.
LEMMA ActivateStep ==
    ASSUME Inv, NEW irq \in Irqs, PIC_ActivateIRQ(irq)
    PROVE  Inv'
<1> DEFINE v == Until(next_entry)
           b == Backlog(irqs)
           c == CPU_Cycles
           l == CPU_CycleLeft
<1>1. /\ mode \in {"handler", "execute", "host", "ticker"}
      /\ irq \notin irqs /\ irqs' = irqs \cup {irq} /\ mode' = mode
      /\ UNCHANGED <<lists, service>>
      /\ \/ c # 0 /\ CPU_CycleLeft' = l + c - 2 /\ CPU_Cycles' = 2
         \/ c = 0 /\ CPU_CycleLeft' = l /\ CPU_Cycles' = c
    BY DEF PIC_ActivateIRQ, DeviceCode, cycles
<1>2. /\ c \in Int /\ l \in Int /\ b \in Nat /\ b <= MaxBacklog /\ l + c >= 0 - Slack
      /\ irqs \in SUBSET Irqs /\ Slack \in Nat
      /\ mode # "execute" => c = 0
      /\ mode = "handler" => l > 0
      /\ mode = "host" => l <= 0
      /\ mode = "execute" => InTick(c, l, b)
      /\ next_entry # 0 => v \in Int /\ v >= 0 - Slack /\ Awake(c, v, irqs)
      /\ next_entry # 0 /\ mode = "execute" => InGrant("execute", c, b, v)
      /\ running # 0 => Until(running) \in Int /\ Until(running) >= 0 - Slack
      /\ mode \in Modes
    BY <1>1, Scalars DEF Running
<1>3. irqs' \in SUBSET Irqs /\ Backlog(irqs') = b + Extra /\ Extra \in Nat
    <2>1. irq \in Irqs \ irqs
        BY <1>1
    <2>2. Extra \in Nat
        BY Pool DEF Extra
    <2> QED
        BY <2>1, <2>2, <1>1, <1>2, Backlogs
<1>4. CPU_CycleLeft' \in Int /\ CPU_Cycles' \in Int
      /\ (l + c) - (CPU_CycleLeft' + CPU_Cycles') = 0
    BY <1>1, <1>2
<1>5. TypeOK' /\ ModeInv'
    <2>1. InEventService \in BOOLEAN /\ srv_lag \in Int /\ ModeInv
        BY DEF Inv, TypeOK
    <2>2. /\ running' = running /\ InEventService' = InEventService
          /\ srv_lag' = srv_lag /\ entries' = entries
        BY <1>1 DEF service, lists
    <2>3. ModeInv'
        BY <2>1, <2>2, <1>1, Zenon DEF ModeInv
    <2>4. TypeOK'
        BY <2>1, <2>2, <1>1, <1>2, <1>3, <1>4, TypeStep
    <2> QED
        BY <2>3, <2>4
<1>6. PIC_TickIndexND' = PIC_TickIndexND + 0
    BY <1>4, Clock
<1> HIDE DEF v, b
<1>7. mode = "execute" => /\ InTick(CPU_Cycles', CPU_CycleLeft', b + Extra)
                          /\ next_entry # 0 => InGrant("execute", CPU_Cycles', b + Extra, v)
    <2>1. SUFFICES ASSUME mode = "execute"
                   PROVE  /\ InTick(CPU_Cycles', CPU_CycleLeft', b + Extra)
                          /\ next_entry # 0 => InGrant("execute", CPU_Cycles', b + Extra, v)
        OBVIOUS
    <2> DEFINE x == IF next_entry # 0 THEN v ELSE 0
    <2>2. x \in Int /\ (next_entry # 0 => x = v) /\ b + Extra \in Nat /\ b <= b + Extra
        BY <1>2, <1>3
    <2> HIDE DEF x
    <2>3. CASE c # 0
        BY <2>1, <2>2, <2>3, <1>1, <1>2, Raised
    <2>4. CASE c = 0
        BY <2>1, <2>2, <2>4, <1>1, <1>2, LongerBacklog
    <2> QED
        BY <2>3, <2>4
<1>8. Timely(mode', CPU_Cycles', CPU_CycleLeft', Backlog(irqs'),
             next_entry # 0, v - 0, running # 0, Until(running) - 0)
    <2>1. next_entry # 0 => v - 0 = v
        BY <1>2
    <2>2. running # 0 => Until(running) - 0 >= 0 - Slack
        BY <1>2
    <2>3. Running(mode) => mode = "execute"
        BY <1>1 DEF Running
    <2>4. CPU_CycleLeft' + CPU_Cycles' >= 0 - Slack
        <3>1. \A x, y \in Int : (l + c) - (x + y) = 0 => x + y = l + c
            BY <1>2
        <3>2. CPU_CycleLeft' + CPU_Cycles' = l + c
            BY <3>1, <1>4
        <3> QED
            BY <3>2, <1>2
    <2>5. mode # "execute" => CPU_CycleLeft' = l /\ CPU_Cycles' = 0
        BY <1>1, <1>2
    <2>6. mode' = mode
        BY <1>1
    <2> QED
        <3> DEFINE c2 == CPU_Cycles'
                   l2 == CPU_CycleLeft'
        <3>1. /\ mode # "execute" => l2 = l /\ c2 = 0
              /\ l2 + c2 >= 0 - Slack
              /\ mode = "execute" => InTick(c2, l2, b + Extra)
              /\ mode = "execute" /\ next_entry # 0 => InGrant("execute", c2, b + Extra, v)
            BY <2>4, <2>5, <1>7
        <3> HIDE DEF c2, l2, l, c
        <3>2. Timely(mode, c2, l2, b + Extra, next_entry # 0, v, running # 0, Until(running) - 0)
            <4>1. mode = "execute" \/ ~ Running(mode)
                BY <2>3
            <4>2. mode = "handler" => l > 0
                BY <1>2
            <4>3. mode # "service"
                BY <1>1
            <4>4. mode = "host" => l <= 0
                BY <1>2
            <4>5. next_entry # 0 => v >= 0 - Slack
                BY <1>2
            <4> QED
                BY <4>1, <4>2, <4>3, <4>4, <4>5, <3>1, <2>2 DEF Timely
        <3> QED
            BY <3>2, <2>1, <2>6, <1>3 DEF c2, l2, Timely
<1>9. next_entry # 0 => Awake(CPU_Cycles', v - 0, irqs')
    <2>1. irqs' # {}
        BY <1>1
    <2> QED
        BY <2>1, <1>1, <1>2 DEF Awake
<1>10. PoolInv' /\ TimeInv'
    <2>1. UNCHANGED <<lists, running>>
        BY <1>1 DEF service
    <2> QED
        BY <2>1, <1>6, <1>8, <1>9, 0 \in Int, TimeStep DEF v
<1> QED
    BY <1>5, <1>10 DEF Inv


\* What Pooled says of the heads.
LEMMA HeadOf ==
    ASSUME NEW nx, NEW head, NEW free, NEW run, NEW q, NEW n, NEW g, NEW m,
           Pooled(nx, head, free, run, q, n, g, m)
    PROVE  /\ n \in Nat /\ q \in [1..n -> Entries] /\ \A i \in 1..n : q[i] \in Entries
           /\ nx \in [Entries -> 0..PoolSize]
           /\ head \in 0..PoolSize /\ free \in 0..PoolSize /\ run \in 0..PoolSize
           /\ head # 0 => n # 0 /\ 1 \in 1..n /\ head = q[1] /\ head \in Entries
           /\ n # 0 => head # 0
           /\ \A i \in 1..n : q[i] # 0 /\ q[i] # run
<1>1. /\ n \in Nat /\ q \in [1..n -> Entries]
      /\ head = IF n = 0 THEN 0 ELSE q[1]
    BY Pool DEF Pooled, Listed
<1>2. n # 0 => 1 \in 1..n
    BY <1>1
<1>3. \A e \in Entries : e # 0
    BY DEF Entries
<1>4. \A i \in 1..n : q[i] # run
    <2>1. SUFFICES ASSUME NEW i \in 1..n, q[i] = run PROVE FALSE
        OBVIOUS
    <2>2. q[i] # 0
        BY <1>1, <1>3
    <2>3. q[i] \in Served(run) /\ q[i] \in On(q, n)
        BY <2>1, <2>2 DEF Served, On
    <2> QED
        BY <2>3 DEF Pooled
<1> QED
    BY <1>1, <1>2, <1>3, <1>4 DEF Pooled

\* A handler returns: its entry is free.
LEMMA FinishStep ==
    ASSUME Inv, FinishEvent
    PROVE  Inv'
<1> DEFINE v == Until(next_entry)
<1>1. /\ mode = "handler" /\ next' = [next EXCEPT ![running] = free_entry]
      /\ entries' = [entries EXCEPT ![running] = Blank]
      /\ free_entry' = running /\ running' = 0 /\ mode' = "service"
      /\ next_entry' = next_entry /\ InEventService' = InEventService /\ srv_lag' = srv_lag
      /\ CPU_Cycles' = CPU_Cycles /\ CPU_CycleLeft' = CPU_CycleLeft /\ irqs' = irqs
    BY DEF FinishEvent, cycles
<1>2. /\ running # 0 /\ running \in Entries /\ InEventService \in BOOLEAN
      /\ InEventService = (mode \in {"service", "handler"})
      /\ entries \in [Entries -> Event \cup {Blank}] /\ srv_lag \in Int
    <2>1. running # 0 /\ InEventService = (mode \in {"service", "handler"})
        BY <1>1 DEF Inv, ModeInv
    <2>2. running \in 0..PoolSize /\ InEventService \in BOOLEAN
          /\ entries \in [Entries -> Event \cup {Blank}] /\ srv_lag \in Int
        BY DEF Inv, TypeOK
    <2> QED
        BY <2>1, <2>2, Pool DEF Entries
<1>3. /\ CPU_Cycles = 0 /\ CPU_CycleLeft \in Int /\ CPU_CycleLeft > 0
      /\ CPU_CycleLeft + CPU_Cycles >= 0 - Slack
      /\ irqs \in SUBSET Irqs
      /\ next_entry # 0 => v \in Int /\ v >= 0 - Slack
    BY <1>1, Scalars
<1>4. PICK q, n, g, m :
         /\ Pooled(next, next_entry, free_entry, running, q, n, g, m)
         /\ Ordered(entries, q, n)
    BY DEF Inv, PoolInv
<1>5. Pooled(next', next_entry', free_entry', running', q, n, Pushed(running, g, m), m + 1)
    <2>1. Pooled([next EXCEPT ![running] = free_entry], next_entry, running, 0,
                 q, n, Pushed(running, g, m), m + 1)
        BY <1>2, <1>4, FinishLists
    <2> QED
        BY <2>1, <1>1
<1>6. \A e \in Entries : e # running => entries'[e] = entries[e]
    BY <1>1, <1>2
<1>7. \A i \in 1..n : q[i] \in Entries /\ q[i] # running
    BY <1>4, HeadOf
<1>8. Ordered(entries', q, n)
    <2>1. \A i \in 1..n : entries'[q[i]] = entries[q[i]]
        BY <1>6, <1>7
    <2> QED
        BY <2>1, <1>4 DEF Ordered
<1>9. PoolInv'
    BY <1>5, <1>8 DEF PoolInv
<1>10. next_entry # 0 => next_entry \in Entries /\ next_entry # running
    BY <1>4, <1>7, HeadOf
<1>11. TypeOK'
    <2>1. entries' \in [Entries -> Event \cup {Blank}]
        BY <1>1, <1>2
    <2>2. /\ next' \in [Entries -> 0..PoolSize]
          /\ next_entry' \in 0..PoolSize /\ free_entry' \in 0..PoolSize /\ running' \in 0..PoolSize
        BY <1>5, HeadOf
    <2>3. InEventService' \in BOOLEAN /\ srv_lag' \in Int /\ CPU_Cycles' \in Int
          /\ CPU_CycleLeft' \in Int /\ mode' \in Modes /\ irqs' \subseteq Irqs
        BY <1>1, <1>2, <1>3 DEF Modes
    <2> QED
        BY <2>1, <2>2, <2>3 DEF TypeOK
<1>12. ModeInv'
    <2>1. (mode \in {"service", "handler"}) = TRUE /\ (mode' \in {"service", "handler"}) = TRUE
        BY <1>1
    <2>2. InEventService' = (mode' \in {"service", "handler"})
        BY <2>1, <1>1, <1>2, Zenon
    <2>3. running' = 0 /\ mode' # "handler"
        BY <1>1
    <2> QED
        BY <2>2, <2>3 DEF ModeInv
<1>13. TimeInv'
    <2>1. PIC_TickIndexND' = PIC_TickIndexND
        BY <1>1 DEF PIC_TickIndexND
    <2>2. next_entry # 0 => Until(next_entry)' = v
        BY <2>1, <1>1, <1>6, <1>10 DEF Until
    <2> HIDE DEF v
    <2>3. Timely(mode', CPU_Cycles', CPU_CycleLeft', Backlog(irqs)',
                 (next_entry # 0)', Until(next_entry)', (running # 0)', Until(running)')
        <3>1. mode' = "service" /\ ~ Running(mode')
            BY <1>1 DEF Running
        <3> QED
            BY <3>1, <2>2, <1>1, <1>3 DEF Timely
    <2>4. (next_entry # 0 => Awake(CPU_Cycles, Until(next_entry), irqs))'
        BY <1>1, <1>3 DEF Awake
    <2> QED
        BY <2>3, <2>4 DEF TimeInv
<1> QED
    BY <1>9, <1>11, <1>12, <1>13 DEF Inv

\* The head of the queue is served; what follows it is due no sooner.
LEMMA StartStep ==
    ASSUME Inv, StartEvent
    PROVE  Inv'
<1> DEFINE v == Until(next_entry)
<1>1. /\ mode = "service" /\ next_entry # 0
      /\ running' = next_entry /\ next_entry' = next[next_entry]
      /\ srv_lag' = entries[next_entry].index /\ mode' = "handler"
      /\ entries' = entries /\ next' = next /\ free_entry' = free_entry
      /\ InEventService' = InEventService
      /\ CPU_Cycles' = CPU_Cycles /\ CPU_CycleLeft' = CPU_CycleLeft /\ irqs' = irqs
    BY DEF StartEvent, cycles, Due
<1>2. /\ running = 0 /\ InEventService \in BOOLEAN
      /\ InEventService = (mode \in {"service", "handler"})
      /\ entries \in [Entries -> Event \cup {Blank}]
    BY <1>1 DEF Inv, ModeInv, TypeOK
<1>3. /\ CPU_Cycles = 0 /\ CPU_CycleLeft \in Int /\ CPU_CycleLeft > 0
      /\ CPU_CycleLeft + CPU_Cycles >= 0 - Slack /\ Slack \in Nat
      /\ irqs \in SUBSET Irqs
      /\ v \in Int /\ v >= 0 - Slack
    BY <1>1, Scalars
<1>4. PICK q, n, g, m :
         /\ Pooled(next, next_entry, free_entry, running, q, n, g, m)
         /\ Ordered(entries, q, n)
    BY DEF Inv, PoolInv
<1>5. /\ n # 0 /\ n \in Nat /\ next_entry = q[1] /\ next_entry \in Entries
      /\ Pooled(next', next_entry', free_entry', running', Popped(q, n), n - 1, g, m)
    <2>1. Pooled(next, next_entry, free_entry, 0, q, n, g, m)
        BY <1>2, <1>4
    <2>2. /\ n # 0 /\ n \in Nat /\ next_entry = q[1] /\ next_entry \in Entries
          /\ Pooled(next, next[next_entry], free_entry, next_entry,
                    Popped(q, n), n - 1, g, m)
        BY <2>1, <1>1, StartLists
    <2> QED
        BY <2>2, <1>1
<1>6. \A i \in 1..(n - 1) : i + 1 \in 1..n /\ Popped(q, n)[i] = q[i + 1]
    BY <1>5 DEF Popped
<1>7. Ordered(entries', Popped(q, n), n - 1)
    <2>1. \A i \in 1..(n - 1) : entries'[Popped(q, n)[i]] = entries[q[i + 1]]
        BY <1>1, <1>6
    <2>2. \A i, j \in 1..(n - 1) : i < j => i + 1 < j + 1
        OBVIOUS
    <2> QED
        BY <2>1, <2>2, <1>4, <1>6 DEF Ordered
<1>8. PoolInv'
    BY <1>5, <1>7 DEF PoolInv
<1>9. entries[next_entry] \in Event /\ entries[next_entry].index \in Int
    BY <1>1, HeadFacts
<1>10. TypeOK'
    <2>1. /\ next' \in [Entries -> 0..PoolSize]
          /\ next_entry' \in 0..PoolSize /\ free_entry' \in 0..PoolSize /\ running' \in 0..PoolSize
        BY <1>5, HeadOf
    <2>2. entries' \in [Entries -> Event \cup {Blank}]
        BY <1>1, <1>2
    <2>3. InEventService' \in BOOLEAN /\ srv_lag' \in Int /\ CPU_Cycles' \in Int
          /\ CPU_CycleLeft' \in Int /\ mode' \in Modes /\ irqs' \subseteq Irqs
        BY <1>1, <1>2, <1>3, <1>9 DEF Modes
    <2> QED
        BY <2>1, <2>2, <2>3 DEF TypeOK
<1>11. ModeInv'
    <2>1. (mode \in {"service", "handler"}) = TRUE /\ (mode' \in {"service", "handler"}) = TRUE
        BY <1>1
    <2>2. InEventService' = (mode' \in {"service", "handler"})
        BY <2>1, <1>1, <1>2, Zenon
    <2>3. running' # 0 /\ mode' = "handler" /\ entries'[running'] \in Event
          /\ srv_lag' = entries'[running'].index
        BY <1>1, <1>9
    <2> QED
        BY <2>2, <2>3 DEF ModeInv
<1>12. TimeInv'
    <2>1. PIC_TickIndexND' = PIC_TickIndexND /\ PIC_TickIndexND \in Int
        BY <1>1, HeadFacts DEF PIC_TickIndexND
    <2>2. Until(running)' = v
        BY <2>1, <1>1 DEF Until
    <2>3. next_entry' # 0 => Until(next_entry)' >= v /\ Until(next_entry)' \in Int
        <3>1. SUFFICES ASSUME next_entry' # 0
                       PROVE  Until(next_entry)' >= v /\ Until(next_entry)' \in Int
            OBVIOUS
        <3>2. 1 \in 1..(n - 1) /\ next_entry' = Popped(q, n)[1]
            BY <3>1, <1>5, HeadOf
        <3>3. 2 \in 1..n /\ 1 \in 1..n /\ next_entry' = q[2]
            BY <3>2, <1>5, <1>6
        <3>4. entries[q[2]] \in Event /\ entries[q[1]].index <= entries[q[2]].index
            BY <3>3, <1>4 DEF Ordered
        <3>5. entries[q[2]].index \in Int
            BY <3>4 DEF Event
        <3> DEFINE a == entries[q[1]].index
                   z == entries[q[2]].index
        <3>6. a \in Int /\ z \in Int /\ a <= z
            BY <3>4, <3>5, <1>5, <1>9
        <3>7. v = Whole(a) - PIC_TickIndexND /\ Until(next_entry)' = Whole(z) - PIC_TickIndexND
            BY <2>1, <3>3, <1>1, <1>5 DEF Until
        <3> HIDE DEF a, z, v
        <3>8. Whole(a) <= Whole(z) /\ Whole(a) \in Int /\ Whole(z) \in Int
            BY <3>6, WholeMonotone, WholeAtLeast
        <3> QED
            BY <3>7, <3>8, <2>1
    <2> HIDE DEF v
    <2>4. Timely(mode', CPU_Cycles', CPU_CycleLeft', Backlog(irqs)',
                 (next_entry # 0)', Until(next_entry)', (running # 0)', Until(running)')
        <3>1. mode' = "handler" /\ ~ Running(mode')
            BY <1>1 DEF Running
        <3>2. next_entry' # 0 => Until(next_entry)' >= 0 - Slack
            BY <2>3, <1>3
        <3> QED
            BY <3>1, <3>2, <2>2, <1>1, <1>3 DEF Timely
    <2>5. (next_entry # 0 => Awake(CPU_Cycles, Until(next_entry), irqs))'
        BY <1>1, <1>3 DEF Awake
    <2> QED
        BY <2>4, <2>5 DEF TimeInv
<1> QED
    BY <1>8, <1>10, <1>11, <1>12 DEF Inv


\* An event moved in time is an event.
LEMMA Moved ==
    ASSUME NEW e \in Event, NEW d \in Int
    PROVE  /\ [e EXCEPT !.index = @ - d] \in Event
           /\ [e EXCEPT !.index = @ - d].index = e.index - d
           /\ e.index \in Int
    BY DEF Event

\* TIMER_AddTick: clock and indices move together.
LEMMA TickStep ==
    ASSUME Inv, TIMER_AddTick
    PROVE  Inv'
<1> DEFINE v == Until(next_entry)
           d == CycleMax * Sub
<1>1. /\ mode = "host" /\ CPU_CycleLeft' = CycleMax /\ CPU_Cycles' = 0 /\ mode' = "ticker"
      /\ entries' = [e \in Entries |-> IF e \in Queued
                         THEN [entries[e] EXCEPT !.index = @ - CycleMax * Sub]
                         ELSE entries[e]]
      /\ next' = next /\ free_entry' = free_entry /\ next_entry' = next_entry
      /\ running' = running /\ InEventService' = InEventService /\ srv_lag' = srv_lag
      /\ irqs' = irqs
    BY DEF TIMER_AddTick, service
<1>2. /\ running = 0 /\ InEventService \in BOOLEAN /\ srv_lag \in Int
      /\ InEventService = (mode \in {"service", "handler"})
      /\ entries \in [Entries -> Event \cup {Blank}]
    BY <1>1 DEF Inv, ModeInv, TypeOK
<1>3. /\ CPU_Cycles = 0 /\ CPU_CycleLeft \in Int /\ CPU_CycleLeft <= 0
      /\ Slack \in Nat /\ irqs \in SUBSET Irqs
      /\ next_entry # 0 => v \in Int /\ v >= 0 - Slack
    BY <1>1, Scalars
<1>4. PICK q, n, g, m :
         /\ Pooled(next, next_entry, free_entry, running, q, n, g, m)
         /\ Ordered(entries, q, n)
    BY DEF Inv, PoolInv
<1>5. Queued = On(q, n)
    BY <1>4, ListFound, HeadOf DEF Pooled, Queued
<1>6. d \in Int /\ CycleMax \in Int /\ CycleMax >= 1
    BY Pool
<1> HIDE DEF d
<1>7. \A i \in 1..n : /\ q[i] \in Entries /\ q[i] \in Queued
                      /\ entries[q[i]] \in Event
                      /\ entries[q[i]].index \in Int
                      /\ entries'[q[i]] \in Event
                      /\ entries'[q[i]].index = entries[q[i]].index - d
    <2>1. TAKE i \in 1..n
    <2>2. q[i] \in Entries /\ q[i] \in Queued /\ entries[q[i]] \in Event
        BY <1>4, <1>5, HeadOf DEF On, Ordered
    <2>3. entries'[q[i]] = [entries[q[i]] EXCEPT !.index = @ - d]
        BY <2>2, <1>1 DEF d
    <2> QED
        BY <2>2, <2>3, <1>6, Moved
<1>8. Ordered(entries', q, n)
    <2>1. \A i, j \in 1..n : i < j => entries[q[i]].index <= entries[q[j]].index
        BY <1>4 DEF Ordered
    <2>2. \A i, j \in 1..n : i < j => entries[q[i]].index - d <= entries[q[j]].index - d
        BY <2>1, <1>6, <1>7
    <2> QED
        BY <2>2, <1>7 DEF Ordered
<1>9. PoolInv'
    BY <1>1, <1>4, <1>8 DEF PoolInv
<1>10. TypeOK'
    <2>1. entries' \in [Entries -> Event \cup {Blank}]
        <3>1. \A e \in Queued : e \in Entries /\ entries'[e] \in Event
            BY <1>5, <1>7 DEF On
        <3>2. \A e \in Entries : e \notin Queued => entries'[e] = entries[e]
            BY <1>1
        <3>3. \A e \in Entries : entries'[e] \in Event \cup {Blank}
            BY <3>1, <3>2, <1>2
        <3>4. entries' = [e \in Entries |-> entries'[e]]
            BY <1>1
        <3> QED
            BY <3>3, <3>4
    <2>2. /\ next' \in [Entries -> 0..PoolSize]
          /\ next_entry' \in 0..PoolSize /\ free_entry' \in 0..PoolSize /\ running' \in 0..PoolSize
        BY <1>1, <1>4, HeadOf
    <2>3. InEventService' \in BOOLEAN /\ srv_lag' \in Int /\ CPU_Cycles' \in Int
          /\ CPU_CycleLeft' \in Int /\ mode' \in Modes /\ irqs' \subseteq Irqs
        BY <1>1, <1>2, <1>3, <1>6 DEF Modes
    <2> QED
        BY <2>1, <2>2, <2>3 DEF TypeOK
<1>11. ModeInv'
    <2>1. (mode \in {"service", "handler"}) = FALSE /\ (mode' \in {"service", "handler"}) = FALSE
        BY <1>1
    <2>2. InEventService' = (mode' \in {"service", "handler"})
        BY <2>1, <1>1, <1>2, Zenon
    <2>3. running' = 0 /\ mode' # "handler"
        BY <1>1, <1>2
    <2> QED
        BY <2>2, <2>3 DEF ModeInv
<1>12. TimeInv'
    <2>1. PIC_TickIndexND' = 0 /\ PIC_TickIndexND = CycleMax - CPU_CycleLeft
        BY <1>1, <1>3, <1>6 DEF PIC_TickIndexND
    <2>2. next_entry # 0 => Until(next_entry)' >= v
        <3>1. SUFFICES ASSUME next_entry # 0 PROVE Until(next_entry)' >= v
            OBVIOUS
        <3> DEFINE a == entries[next_entry].index
        <3>2. a \in Int /\ entries'[next_entry].index = a - d
            BY <3>1, <1>4, <1>7, HeadOf
        <3>3. v = Whole(a) - PIC_TickIndexND
            BY DEF Until
        <3>4. Until(next_entry)' = Whole(a - d) - 0
            BY <3>2, <2>1, <1>1 DEF Until
        <3> HIDE DEF a, v
        <3>5. Whole(a - d) = Whole(a) - CycleMax /\ Whole(a) \in Int
            BY <3>2, <1>6, WholeFrom, WholeAtLeast DEF d
        <3> QED
            BY <3>3, <3>4, <3>5, <2>1, <1>3, <1>6
    <2>3. next_entry # 0 => Until(next_entry)' \in Int
        <3>1. next_entry # 0 => entries'[next_entry].index \in Int
            BY <1>4, <1>6, <1>7, HeadOf
        <3>2. next_entry # 0 => Whole(entries'[next_entry].index) \in Int
            BY <3>1, WholeAtLeast
        <3> QED
            BY <3>2, <2>1, <1>1 DEF Until
    <2> HIDE DEF v
    <2>4. Timely(mode', CPU_Cycles', CPU_CycleLeft', Backlog(irqs)',
                 (next_entry # 0)', Until(next_entry)', (running # 0)', Until(running)')
        <3>1. mode' = "ticker" /\ ~ Running(mode')
            BY <1>1 DEF Running
        <3>2. next_entry' # 0 => Until(next_entry)' >= 0 - Slack
            BY <2>2, <2>3, <1>1, <1>3
        <3>3. running' = 0 /\ CPU_CycleLeft' + CPU_Cycles' >= 0 - Slack
            BY <1>1, <1>2, <1>3, <1>6
        <3> QED
            BY <3>1, <3>2, <3>3, <1>1, <1>3 DEF Timely
    <2>5. (next_entry # 0 => Awake(CPU_Cycles, Until(next_entry), irqs))'
        BY <1>1, <1>3 DEF Awake
    <2> QED
        BY <2>4, <2>5 DEF TimeInv
<1> QED
    BY <1>9, <1>10, <1>11, <1>12 DEF Inv

\* Events are cancelled: what is left is due no sooner.
LEMMA RemoveStep ==
    ASSUME Inv, NEW doomed \in SUBSET Queued, RemoveAll(doomed)
    PROVE  Inv'
<1> DEFINE v == Until(next_entry)
           b == Backlog(irqs)
<1>1. /\ mode \in {"handler", "execute", "host", "ticker"} /\ mode' = mode
      /\ entries' = [e \in Entries |-> IF e \in doomed THEN Blank ELSE entries[e]]
      /\ running' = running /\ InEventService' = InEventService /\ srv_lag' = srv_lag
      /\ CPU_Cycles' = CPU_Cycles /\ CPU_CycleLeft' = CPU_CycleLeft /\ irqs' = irqs
    BY DEF RemoveAll, service, cycles, DeviceCode
<1>2. /\ InEventService \in BOOLEAN /\ srv_lag \in Int /\ ModeInv /\ TimeInv /\ mode \in Modes
      /\ entries \in [Entries -> Event \cup {Blank}] /\ running \in 0..PoolSize
    BY DEF Inv, TypeOK
<1>3. /\ CPU_Cycles \in Int /\ CPU_CycleLeft \in Int /\ Slack \in Nat /\ irqs \in SUBSET Irqs
      /\ b \in Nat
      /\ next_entry # 0 => v \in Int /\ v >= 0 - Slack /\ Awake(CPU_Cycles, v, irqs)
    BY Scalars
<1>4. PICK q, n, g, m :
         /\ Pooled(next, next_entry, free_entry, running, q, n, g, m)
         /\ Ordered(entries, q, n)
    BY DEF Inv, PoolInv
<1>5. Queued = On(q, n)
    BY <1>4, ListFound, HeadOf DEF Pooled, Queued
<1> DEFINE Kept(z, c) ==
         /\ \A x, y \in 1..z : x < y => c[x] < c[y]
         /\ {c[x] : x \in 1..z} = {i \in 1..n : q[i] \notin doomed}
         /\ \E g2, m2 : Pooled(next', next_entry', free_entry', running,
                               At(q, c, z), z, g2, m2)
<1>a. \E z \in 0..n : \E c \in [1..z -> 1..n] : Kept(z, c)
    BY <1>4, <1>5, RemoveLists
<1>b. PICK z \in 0..n : \E c \in [1..z -> 1..n] : Kept(z, c)
    BY <1>a
<1>6. PICK c \in [1..z -> 1..n] : Kept(z, c)
    BY <1>b
<1>7. PICK g2, m2 : Pooled(next', next_entry', free_entry', running', At(q, c, z), z, g2, m2)
    BY <1>1, <1>6
<1>8. \A e \in Entries : e \notin doomed => entries'[e] = entries[e]
    BY <1>1
<1>9. \A x \in 1..z : /\ c[x] \in 1..n /\ At(q, c, z)[x] = q[c[x]]
                      /\ entries'[q[c[x]]] = entries[q[c[x]]]
    <2>1. TAKE x \in 1..z
    <2>2. c[x] \in {c[y] : y \in 1..z} /\ c[x] \in 1..n
        OBVIOUS
    <2>3. q[c[x]] \notin doomed /\ q[c[x]] \in Entries
        BY <2>2, <1>4, <1>6, HeadOf
    <2> QED
        BY <2>2, <2>3, <1>8 DEF At
<1>10. Ordered(entries', At(q, c, z), z)
    <2>1. \A x \in 1..z : c[x] \in 1..n /\ entries'[At(q, c, z)[x]] = entries[q[c[x]]]
        BY <1>9
    <2>2. \A x, y \in 1..z : x < y => c[x] < c[y]
        BY <1>6
    <2>3. /\ \A i \in 1..n : entries[q[i]] \in Event
          /\ \A i, j \in 1..n : i < j => entries[q[i]].index <= entries[q[j]].index
        BY <1>4 DEF Ordered
    <2>4. \A x, y \in 1..z : x < y => entries[q[c[x]]].index <= entries[q[c[y]]].index
        BY <2>1, <2>2, <2>3
    <2> QED
        BY <2>1, <2>3, <2>4 DEF Ordered
<1>11. PoolInv'
    BY <1>7, <1>10 DEF PoolInv
<1>12. running # 0 => running \in Entries /\ entries'[running] = entries[running]
    <2>1. running # 0 => running \in Entries
        BY <1>2, Pool DEF Entries
    <2>2. running \notin doomed
        BY <1>4, <1>5, HeadOf DEF On
    <2> QED
        BY <2>1, <2>2, <1>8
<1>13. TypeOK'
    <2>1. entries' \in [Entries -> Event \cup {Blank}]
        BY <1>1, <1>2
    <2>2. /\ next' \in [Entries -> 0..PoolSize]
          /\ next_entry' \in 0..PoolSize /\ free_entry' \in 0..PoolSize /\ running' \in 0..PoolSize
        BY <1>7, HeadOf
    <2>3. InEventService' \in BOOLEAN /\ srv_lag' \in Int /\ CPU_Cycles' \in Int
          /\ CPU_CycleLeft' \in Int /\ mode' \in Modes /\ irqs' \subseteq Irqs
        BY <1>1, <1>2, <1>3
    <2> QED
        BY <2>1, <2>2, <2>3 DEF TypeOK
<1>14. ModeInv'
    <2>1. running # 0 => entries'[running] = entries[running]
        BY <1>12
    <2> QED
        BY <2>1, <1>1, <1>2, Zenon DEF ModeInv
<1>15. TimeInv'
    <2>1. PIC_TickIndexND' = PIC_TickIndexND /\ PIC_TickIndexND \in Int
        BY <1>1, HeadFacts DEF PIC_TickIndexND
    <2>2. running # 0 => Until(running)' = Until(running)
        BY <2>1, <1>1, <1>12 DEF Until
    <2>3. next_entry' # 0 => next_entry # 0 /\ Until(next_entry)' >= v /\ Until(next_entry)' \in Int
        <3>1. SUFFICES ASSUME next_entry' # 0
                       PROVE  next_entry # 0 /\ Until(next_entry)' >= v /\ Until(next_entry)' \in Int
            OBVIOUS
        <3>2. 1 \in 1..z /\ next_entry' = At(q, c, z)[1]
            BY <3>1, <1>7, HeadOf
        <3> DEFINE i == c[1]
        <3>3. i \in 1..n /\ next_entry' = q[i] /\ entries'[q[i]] = entries[q[i]]
            BY <3>2, <1>9
        <3>4. n # 0 /\ next_entry # 0 /\ next_entry = q[1] /\ 1 \in 1..n /\ n \in Nat
            BY <3>3, <1>4, HeadOf
        <3> HIDE DEF i
        <3> DEFINE a == entries[q[1]].index
                   y == entries[q[i]].index
        <3>5. a \in Int /\ y \in Int
            BY <3>3, <3>4, <1>4 DEF Ordered, Event
        <3>6. a <= y
            <4>1. i = 1 \/ 1 < i
                BY <3>3, <3>4
            <4> QED
                BY <4>1, <3>3, <3>4, <3>5, <1>4 DEF Ordered
        <3>7. v = Whole(a) - PIC_TickIndexND /\ Until(next_entry)' = Whole(y) - PIC_TickIndexND
            BY <2>1, <3>3, <3>4 DEF Until
        <3> HIDE DEF a, y, v
        <3>8. Whole(a) <= Whole(y) /\ Whole(a) \in Int /\ Whole(y) \in Int
            BY <3>5, <3>6, WholeMonotone, WholeAtLeast
        <3> QED
            BY <3>4, <3>7, <3>8, <2>1
    <2> DEFINE v2 == Until(next_entry)'
    <2> HIDE DEF v, v2
    <2>4. Timely(mode, CPU_Cycles, CPU_CycleLeft, b, next_entry # 0, v, running # 0, Until(running))
        BY <1>2 DEF TimeInv, v, b
    <2>5. next_entry' # 0 => v2 \in Int /\ v <= v2 /\ next_entry # 0 /\ v \in Int
        BY <2>3, <1>3 DEF v2
    <2> HIDE DEF b
    <2>6. next_entry' # 0 /\ Running(mode) => InGrant(mode, CPU_Cycles, b, v2)
        <3>1. SUFFICES ASSUME next_entry' # 0, Running(mode) PROVE InGrant(mode, CPU_Cycles, b, v2)
            OBVIOUS
        <3>2. InGrant(mode, CPU_Cycles, b, v)
            BY <2>4, <2>5, <3>1 DEF Timely
        <3> QED
            BY <2>5, <3>1, <3>2, <1>3, LaterHead
    <2>7. next_entry' # 0 => v2 >= 0 - Slack
        BY <2>5, <1>3
    <2>8. Timely(mode, CPU_Cycles, CPU_CycleLeft, b, next_entry' # 0, v2, running # 0, Until(running))
        BY <2>4, <2>6, <2>7 DEF Timely
    <2>9. next_entry' # 0 => Awake(CPU_Cycles, v2, irqs)
        BY <2>5, <1>3 DEF Awake
    <2>10. Timely(mode', CPU_Cycles', CPU_CycleLeft', Backlog(irqs)',
                 (next_entry # 0)', Until(next_entry)', (running # 0)', Until(running)')
        BY <2>8, <2>2, <1>1 DEF Timely, v2, b
    <2> QED
        BY <2>9, <2>10, <1>1 DEF TimeInv, v2
<1> QED
    BY <1>11, <1>13, <1>14, <1>15 DEF Inv


\* The time a delay counts from is no earlier than what Slack allows.
LEMMA Due0 ==
    ASSUME Inv, DeviceCode, NEW delay \in Delays
    PROVE  /\ DueTime(delay) \in Int
           /\ Whole(DueTime(delay)) - PIC_TickIndexND >= 0 - Slack
           /\ mode # "handler" => Whole(DueTime(delay)) - PIC_TickIndexND >= 0
<1> DEFINE now == PIC_TickIndexND
<1>1. now \in Int /\ now * Sub \in Int /\ delay \in Int /\ delay >= 1
    <2>1. now \in Int
        BY HeadFacts
    <2>2. delay \in Nat \ {0}
        BY EventListAssumption
    <2> HIDE DEF now
    <2> QED
        BY <2>1, <2>2, Times
<1>2. Slack \in Nat
    BY Backlogs
<1>3. /\ InEventService = (mode \in {"service", "handler"}) /\ srv_lag \in Int
      /\ InEventService \in BOOLEAN
      /\ mode = "handler" => running # 0 /\ srv_lag = entries[running].index
    BY DEF Inv, ModeInv, TypeOK
<1>4. CASE mode = "handler"
    <2>1. InEventService
        BY <1>3, <1>4, Zenon
    <2>2. DueTime(delay) = delay + srv_lag
        BY <2>1 DEF DueTime
    <2>3. Until(running) = Whole(srv_lag) - now /\ Until(running) >= 0 - Slack
        BY <1>3, <1>4, Scalars DEF Until
    <2>4. Whole(srv_lag) \in Int /\ Whole(delay + srv_lag) \in Int
          /\ Whole(srv_lag) <= Whole(delay + srv_lag)
        BY <1>1, <1>3, WholeAtLeast, WholeMonotone
    <2> HIDE DEF now
    <2> QED
        BY <2>2, <2>3, <2>4, <1>1, <1>2, <1>3, <1>4 DEF now
<1>5. CASE mode # "handler"
    <2>1. mode \notin {"service", "handler"}
        BY <1>5 DEF DeviceCode
    <2>2. ~ InEventService
        BY <1>3, <2>1, Zenon
    <2>3. DueTime(delay) = delay + now * Sub
        BY <2>2 DEF DueTime
    <2> HIDE DEF now
    <2>4. delay + now * Sub \in Int /\ now * Sub <= delay + now * Sub
        BY <1>1
    <2>5. Whole(delay + now * Sub) \in Int /\ now <= Whole(delay + now * Sub)
        BY <2>4, <1>1, WholeAtLeast
    <2> QED
        BY <2>3, <2>4, <2>5, <1>1, <1>2 DEF now
<1> QED
    BY <1>4, <1>5

\* An event scheduled: what AddEntry does to the lists.
LEMMA AddLists ==
    ASSUME Inv, NEW h \in Handlers, NEW u \in Values, NEW delay \in Delays,
           PIC_AddEvent(h, u, delay), NEW q, NEW n, NEW g, NEW m,
           Pooled(next, next_entry, free_entry, running, q, n, g, m),
           Ordered(entries, q, n)
    PROVE  LET event == [handler |-> h, value |-> u, index |-> DueTime(delay)]
           IN  /\ event \in Event /\ free_entry \in Entries /\ free_entry # running
               /\ free_entry \notin On(q, n)
               /\ entries' = [entries EXCEPT ![free_entry] = event]
               /\ \E k \in 1..(n + 1) :
                    /\ \A j \in 1..n : j < k <=> entries[q[j]].index <= event.index
                    /\ Pooled(next', next_entry', free_entry', running',
                              Spliced(q, k, free_entry, n), n + 1, Popped(g, m), m - 1)
                    /\ Ordered(entries', Spliced(q, k, free_entry, n), n + 1)
                    /\ View(entries', Spliced(q, k, free_entry, n), n + 1)
                          = Spliced(View(entries, q, n), k, event, n)
<1> DEFINE event == [handler |-> h, value |-> u, index |-> DueTime(delay)]
<1>1. /\ DeviceCode /\ free_entry # 0 /\ AddEntry(free_entry, event)
      /\ free_entry' = next[free_entry] /\ running' = running
    BY DEF PIC_AddEvent, service
<1>2. event \in Event
    BY <1>1, Due0 DEF Event
<1>3. entries \in [Entries -> Event \cup {Blank}]
    BY DEF Inv, TypeOK
<1>4. Link(free_entry, event)
    BY <1>1 DEF AddEntry
<1> HIDE DEF event
<1>5. PICK k \in 1..(n + 1) :
         /\ \A j \in 1..n : j < k <=> entries[q[j]].index <= event.index
         /\ entries' = [entries EXCEPT ![free_entry] = event]
         /\ Pooled(next', next_entry', next[free_entry], running,
                   Spliced(q, k, free_entry, n), n + 1, Popped(g, m), m - 1)
    BY <1>1, <1>2, <1>3, <1>4, LinkLists
<1>6. Pooled(next', next_entry', free_entry', running',
             Spliced(q, k, free_entry, n), n + 1, Popped(g, m), m - 1)
    BY <1>1, <1>5
<1>7. free_entry \in Entries /\ free_entry \notin On(q, n) /\ free_entry # running
    <2>1. /\ Listed(next, free_entry, g, m) /\ On(q, n) \cap On(g, m) = {}
          /\ Served(running) \cap On(g, m) = {}
        BY DEF Pooled
    <2>2. m # 0 /\ m \in Nat /\ free_entry = g[1] /\ g[1] \in Entries
        BY <2>1, <1>1, Pool DEF Listed
    <2>3. free_entry \in On(g, m)
        BY <2>2 DEF On
    <2>4. free_entry \notin Served(running)
        BY <2>1, <2>3
    <2> QED
        BY <2>1, <2>2, <2>3, <2>4, <1>1 DEF Served
<1>8. n \in Nat /\ q \in [1..n -> Entries]
    BY HeadOf
<1>9. entries'[free_entry] = event /\ \A x \in Entries : x # free_entry => entries'[x] = entries[x]
    BY <1>3, <1>5, <1>7
<1>10. /\ Ordered(entries', Spliced(q, k, free_entry, n), n + 1)
       /\ View(entries', Spliced(q, k, free_entry, n), n + 1)
             = Spliced(View(entries, q, n), k, event, n)
    <2> DEFINE en2 == entries'
               e == free_entry
    <2>1. /\ event \in Event /\ n \in Nat /\ e \in Entries /\ k \in 1..(n + 1)
          /\ en2[e] = event /\ \A x \in Entries : x # e => en2[x] = entries[x]
          /\ q \in [1..n -> Entries] /\ e \notin On(q, n) /\ Ordered(entries, q, n)
          /\ \A j \in 1..n : j < k <=> entries[q[j]].index <= event.index
        BY <1>2, <1>5, <1>7, <1>8, <1>9
    <2> HIDE DEF en2, e
    <2>2. /\ Ordered(en2, Spliced(q, k, e, n), n + 1)
          /\ View(en2, Spliced(q, k, e, n), n + 1) = Spliced(View(entries, q, n), k, event, n)
        BY <2>1, LinkOrdered
    <2> QED
        BY <2>2 DEF en2, e
<1> QED
    BY <1>2, <1>5, <1>6, <1>7, <1>10 DEF event

\* An event is scheduled: the core stops if the head comes before its cycles end.
LEMMA AddStep ==
    ASSUME Inv, NEW h \in Handlers, NEW u \in Values, NEW delay \in Delays,
           PIC_AddEvent(h, u, delay)
    PROVE  Inv'
<1> DEFINE event == [handler |-> h, value |-> u, index |-> DueTime(delay)]
           v == Until(next_entry)
           v2 == Until(next_entry)'
           b == Backlog(irqs)
           c == CPU_Cycles
           l == CPU_CycleLeft
           now == PIC_TickIndexND
<1>1. /\ mode \in {"handler", "execute", "host", "ticker"} /\ DeviceCode
      /\ IF Away(entries'[next_entry'].index) < c
           THEN CPU_CycleLeft' = l + c /\ CPU_Cycles' = 0
           ELSE CPU_CycleLeft' = l /\ CPU_Cycles' = c
      /\ running' = running /\ InEventService' = InEventService /\ srv_lag' = srv_lag
      /\ mode' = mode /\ irqs' = irqs
    BY DEF PIC_AddEvent, AddEntry, StopCpu, service, cycles, DeviceCode
<1>2. /\ InEventService \in BOOLEAN /\ srv_lag \in Int /\ ModeInv /\ TimeInv /\ mode \in Modes
      /\ entries \in [Entries -> Event \cup {Blank}] /\ running \in 0..PoolSize
    BY DEF Inv, TypeOK
<1>3. /\ c \in Int /\ l \in Int /\ Slack \in Nat /\ irqs \in SUBSET Irqs /\ b \in Nat
      /\ mode # "execute" => c = 0
      /\ l + c >= 0 - Slack
      /\ mode = "execute" => InTick(c, l, b)
      /\ next_entry # 0 => v \in Int /\ v >= 0 - Slack /\ Awake(c, v, irqs)
      /\ mode = "execute" /\ next_entry # 0 => InGrant(mode, c, b, v)
    BY <1>1, Scalars DEF Running
<1>4. PICK q, n, g, m :
         /\ Pooled(next, next_entry, free_entry, running, q, n, g, m)
         /\ Ordered(entries, q, n)
    BY DEF Inv, PoolInv
<1>5. /\ event \in Event /\ free_entry \in Entries /\ free_entry # running
      /\ free_entry \notin On(q, n)
      /\ entries' = [entries EXCEPT ![free_entry] = event]
      /\ \E k \in 1..(n + 1) :
           /\ \A j \in 1..n : j < k <=> entries[q[j]].index <= event.index
           /\ Pooled(next', next_entry', free_entry', running',
                     Spliced(q, k, free_entry, n), n + 1, Popped(g, m), m - 1)
           /\ Ordered(entries', Spliced(q, k, free_entry, n), n + 1)
    BY <1>4, AddLists
<1>6. PICK k \in 1..(n + 1) :
         /\ Pooled(next', next_entry', free_entry', running',
                   Spliced(q, k, free_entry, n), n + 1, Popped(g, m), m - 1)
         /\ Ordered(entries', Spliced(q, k, free_entry, n), n + 1)
    BY <1>5
<1>7. PoolInv'
    BY <1>6 DEF PoolInv
<1>8. event.index = DueTime(delay)
    OBVIOUS
<1> HIDE DEF event
<1>9. /\ entries'[free_entry] = event
      /\ \A e \in Entries : e # free_entry => entries'[e] = entries[e]
    BY <1>2, <1>5
<1>10. TypeOK'
    <2>1. entries' \in [Entries -> Event \cup {Blank}]
        BY <1>2, <1>5
    <2>2. /\ next' \in [Entries -> 0..PoolSize]
          /\ next_entry' \in 0..PoolSize /\ free_entry' \in 0..PoolSize /\ running' \in 0..PoolSize
        BY <1>6, HeadOf
    <2>3. CPU_Cycles' \in Int /\ CPU_CycleLeft' \in Int
        BY <1>1, <1>3
    <2>4. InEventService' \in BOOLEAN /\ srv_lag' \in Int
          /\ mode' \in Modes /\ irqs' \subseteq Irqs
        BY <1>1, <1>2, <1>3
    <2> QED
        BY <2>1, <2>2, <2>3, <2>4 DEF TypeOK
<1>11. running # 0 => running \in Entries /\ entries'[running] = entries[running]
    <2>1. running # 0 => running \in Entries
        BY <1>2, Pool DEF Entries
    <2> QED
        BY <2>1, <1>5, <1>9
<1>12. ModeInv'
    <2>1. running # 0 => entries'[running] = entries[running]
        BY <1>11
    <2> QED
        BY <2>1, <1>1, <1>2, Zenon DEF ModeInv
<1>13. PIC_TickIndexND' = now /\ now \in Int
    <2>1. now \in Int
        BY HeadFacts
    <2>2. PIC_TickIndexND' = now
        BY <1>1, <1>3, Pool DEF PIC_TickIndexND
    <2> QED
        BY <2>1, <2>2
\* the new head: the old one, or the new event
<1>14. /\ next_entry' # 0
       /\ \/ next_entry # 0 /\ next_entry' = next_entry /\ entries'[next_entry] = entries[next_entry]
          \/ next_entry' = free_entry /\ entries'[next_entry'] = event
    <2>1. n \in Nat /\ next_entry' # 0 /\ next_entry' = Spliced(q, k, free_entry, n)[1]
          /\ 1 \in 1..(n + 1)
        <3>1. n \in Nat /\ n + 1 # 0
            BY <1>4, HeadOf
        <3> QED
            BY <3>1, <1>6, HeadOf
    <2>2. CASE k = 1
        <3>1. next_entry' = free_entry
            BY <2>1, <2>2 DEF Spliced
        <3> QED
            BY <2>1, <3>1, <1>9
    <2>3. CASE k # 1
        <3>1. next_entry' = q[1] /\ 1 \in 1..n /\ n # 0
            BY <2>1, <2>3 DEF Spliced
        <3>2. next_entry # 0 /\ next_entry = q[1] /\ q[1] \in On(q, n) /\ next_entry \in Entries
            BY <3>1, <1>4, HeadOf DEF On
        <3>3. next_entry # free_entry
            BY <3>2, <1>5
        <3> QED
            BY <2>1, <3>1, <3>2, <3>3, <1>9
    <2> QED
        BY <2>2, <2>3
<1> DEFINE idx == entries'[next_entry'].index
<1>15. /\ v2 = Whole(idx) - now
       /\ idx \in Int /\ Whole(idx) \in Int
       /\ \/ next_entry # 0 /\ v2 = v
          \/ v2 >= 0 - Slack /\ (mode # "handler" => v2 >= 0)
    <2>1. v2 = Whole(idx) - now
        BY <1>13 DEF Until
    <2>2. next_entry # 0 => entries[next_entry].index \in Int
        BY HeadFacts
    <2>3. DueTime(delay) \in Int
        BY <1>1, Due0
    <2>4. idx \in Int
        BY <2>2, <2>3, <1>8, <1>14
    <2>5. CASE next_entry # 0 /\ next_entry' = next_entry /\ entries'[next_entry] = entries[next_entry]
        BY <2>1, <2>4, <2>5, WholeAtLeast DEF Until
    <2>6. CASE next_entry' = free_entry /\ entries'[next_entry'] = event
        <3>1. idx = DueTime(delay)
            BY <2>6, <1>8
        <3> QED
            BY <2>1, <2>4, <3>1, <1>1, Due0, WholeAtLeast
    <2> QED
        BY <2>5, <2>6, <1>14
<1> HIDE DEF idx, v, b, now
<1>16. v2 \in Int
    BY <1>13, <1>15
\* the core keeps its cycles only if the head is no sooner than they last
<1>17. \/ CPU_CycleLeft' = l + c /\ CPU_Cycles' = 0
       \/ /\ CPU_CycleLeft' = l /\ CPU_Cycles' = c
          /\ c <= Away(idx)
    <2>1. Away(idx) \in Int
        <3>1. PIC_MakeCycles(idx - PIC_TickIndexND * Sub) \in Int
            BY <1>13, <1>15, MakeCycles DEF now
        <3> QED
            BY <3>1 DEF Away
    <2> QED
        BY <2>1, <1>1, <1>3 DEF idx
<1>18. c <= Away(idx) => c <= v2 \/ c <= 0
    <2>1. now * Sub \in Int
        BY <1>13, Times
    <2>2. Away(idx) = PIC_MakeCycles(idx - now * Sub)
        BY DEF Away, now
    <2>3. CASE idx >= now * Sub
        <3>1. PIC_MakeCycles(idx - now * Sub) = Whole(idx) - now
            BY <2>3, <1>13, <1>15, MakeCycles
        <3> QED
            BY <3>1, <2>2, <1>15
    <2>4. CASE idx < now * Sub
        <3>1. PIC_MakeCycles(idx - now * Sub) <= 0 /\ PIC_MakeCycles(idx - now * Sub) \in Int
            BY <2>4, <1>13, <1>15, MakeCycles
        <3> QED
            BY <3>1, <2>2, <1>3
    <2> QED
        BY <2>1, <2>3, <2>4, <1>15
<1> HIDE DEF v2
<1>19. TimeInv'
    <2> DEFINE c2 == CPU_Cycles'
               l2 == CPU_CycleLeft'
    <2>1. /\ c2 \in Int /\ l2 \in Int /\ l2 + c2 = l + c
          /\ c2 = 0 \/ (c2 = c /\ l2 = l /\ (c2 <= v2 \/ c2 <= 0))
          /\ c2 = 0 => l2 = l + c
        BY <1>3, <1>17, <1>18
    <2> HIDE DEF c2, l2
    <2>2. mode = "execute" => InTick(c2, l2, b)
        <3>1. CASE c2 = 0
            <4>1. mode = "execute" => InTick(0, l + c, b)
                BY <1>3, 0 \in Int, Stopped
            <4> QED
                BY <4>1, <3>1, <2>1
        <3>2. CASE c2 # 0
            BY <3>2, <2>1, <1>3
        <3> QED
            BY <3>1, <3>2
    <2>3. mode = "execute" => InGrant(mode, c2, b, v2)
        <3>1. SUFFICES ASSUME mode = "execute" PROVE InGrant(mode, c2, b, v2)
            OBVIOUS
        <3>2. CASE v2 >= 0
            <4>1. 1 <= c2 => v2 >= c2
                BY <2>1, <1>16
            <4> QED
                BY <4>1, <3>2, <2>1, <1>3, <1>16, Ahead
        <3>3. CASE ~ (v2 >= 0)
            <4>1. next_entry # 0 /\ v2 = v
                BY <3>1, <3>3, <1>15
            <4>2. InGrant(mode, c, b, v) /\ InTick(c, l, b) /\ v \in Int
                BY <3>1, <4>1, <1>3
            <4>3. InGrant(mode, 0, b, v)
                BY <4>2, <1>3, Stopped
            <4> QED
                BY <4>1, <4>2, <4>3, <2>1
        <3> QED
            BY <3>2, <3>3
    <2>4. v2 >= 0 - Slack
        BY <1>3, <1>15
    <2>5. Awake(c2, v2, irqs)
        BY <2>1, <1>16 DEF Awake
    <2>6. Timely(mode, c, l, b, next_entry # 0, v, running # 0, Until(running))
        BY <1>2 DEF TimeInv, v, b, c, l
    <2>7. mode # "execute" => c2 = 0 /\ l2 = l
        BY <2>1, <1>3
    <2>8. Running(mode) => mode = "execute"
        BY <1>1 DEF Running
    <2>9. Timely(mode, c2, l2, b, TRUE, v2, running # 0, Until(running))
        <3>1. /\ mode \in {"service", "handler"} => l > 0
              /\ mode = "host" => l <= 0
              /\ running # 0 => Until(running) >= 0 - Slack
              /\ l + c >= 0 - Slack
            BY <2>6 DEF Timely
        <3>2. "service" # "execute" /\ "handler" # "execute" /\ "host" # "execute"
            OBVIOUS
        <3> HIDE DEF c, l
        <3>3. mode = "execute" \/ ~ Running(mode)
            BY <2>8
        <3> QED
            BY <3>1, <3>2, <3>3, <2>1, <2>2, <2>3, <2>4, <2>7 DEF Timely
    <2>10. running # 0 => Until(running)' = Until(running)
        BY <1>1, <1>11, <1>13 DEF Until, now
    <2>11. /\ CPU_Cycles' = c2 /\ CPU_CycleLeft' = l2 /\ mode' = mode /\ irqs' = irqs
           /\ Backlog(irqs)' = b /\ running' = running /\ next_entry' # 0
           /\ Until(next_entry)' = v2
        BY <1>1, <1>14 DEF c2, l2, b, v2
    <2>12. Timely(mode', CPU_Cycles', CPU_CycleLeft', Backlog(irqs)',
                 (next_entry # 0)', Until(next_entry)', (running # 0)', Until(running)')
        BY <2>9, <2>10, <2>11 DEF Timely
    <2>13. Awake(CPU_Cycles', Until(next_entry)', irqs')
        BY <2>5, <2>11
    <2> QED
        BY <2>12, <2>13 DEF TimeInv
<1> QED
    BY <1>7, <1>10, <1>12, <1>19 DEF Inv


\* PIC_Init: all entries are free.
LEMMA InitInv ==
    ASSUME Init
    PROVE  Inv
<1> DEFINE q == [i \in 1..0 |-> 1]
           g == [i \in 1..PoolSize |-> i]
<1>1. /\ entries = [e \in Entries |-> Blank] /\ next = FreeList
      /\ free_entry = 1 /\ next_entry = 0 /\ running = 0
      /\ InEventService = FALSE /\ srv_lag = 0 /\ CPU_Cycles = 0
      /\ CPU_CycleLeft = CycleMax /\ mode = "loop" /\ irqs = {}
    BY DEF Init
<1>2. PoolSize \in Nat /\ PoolSize >= 1 /\ CycleMax \in Nat
    BY Pool
<1>3. next \in [Entries -> 0..PoolSize]
    BY <1>1, <1>2 DEF FreeList, Entries
<1>4. Listed(next, next_entry, q, 0)
    BY <1>1, <1>2 DEF Listed
<1>5. Listed(next, free_entry, g, PoolSize)
    <2>1. \A i \in 1..PoolSize : g[i] = i /\ i \in Entries
        BY DEF Entries
    <2>2. g \in [1..PoolSize -> Entries]
        BY <2>1
    <2>3. free_entry = g[1] /\ PoolSize # 0
        BY <1>1, <1>2, <2>1
    <2>4. \A i \in 1..PoolSize : next[g[i]] = IF i = PoolSize THEN 0 ELSE g[i + 1]
        <3>1. TAKE i \in 1..PoolSize
        <3>2. next[g[i]] = IF i = PoolSize THEN 0 ELSE i + 1
            BY <1>1, <2>1 DEF FreeList
        <3>3. i # PoolSize => i + 1 \in 1..PoolSize
            BY <1>2
        <3>4. i # PoolSize => g[i + 1] = i + 1
            BY <3>3, <2>1
        <3> QED
            BY <3>2, <3>4
    <2>5. \A i, j \in 1..PoolSize : g[i] = g[j] => i = j
        BY <2>1
    <2> HIDE DEF g
    <2> QED
        BY <2>2, <2>3, <2>4, <2>5, <1>2 DEF Listed
<1>6. On(q, 0) = {}
    BY DEF On
<1>7. On(g, PoolSize) = Entries
    BY DEF On, Entries
<1>8. Served(running) = {}
    BY <1>1 DEF Served
<1>9. 0 + PoolSize + (IF running = 0 THEN 0 ELSE 1) = PoolSize
    BY <1>1, <1>2
<1>10. {next_entry, free_entry, running} \subseteq 0..PoolSize
    BY <1>1, <1>2
<1> HIDE DEF q, g
<1>11. PoolInv
    <2>1. Pooled(next, next_entry, free_entry, running, q, 0, g, PoolSize)
        BY <1>3, <1>4, <1>5, <1>6, <1>7, <1>8, <1>9, <1>10 DEF Pooled
    <2>2. Ordered(entries, q, 0)
        BY DEF Ordered
    <2> QED
        BY <2>1, <2>2 DEF PoolInv
<1>12. TypeOK
    <2>1. entries \in [Entries -> Event \cup {Blank}]
        BY <1>1
    <2>2. mode \in Modes /\ irqs \subseteq Irqs /\ {srv_lag, CPU_Cycles, CPU_CycleLeft} \subseteq Int
        BY <1>1, <1>2 DEF Modes
    <2>3. InEventService \in BOOLEAN
        BY <1>1
    <2> QED
        BY <2>1, <2>2, <2>3, <1>3, <1>10 DEF TypeOK
<1>13. ModeInv
    <2>1. (mode \in {"service", "handler"}) = FALSE
        BY <1>1
    <2>2. InEventService = (mode \in {"service", "handler"})
        BY <2>1, <1>1, Zenon
    <2> QED
        BY <2>2, <1>1 DEF ModeInv
<1>14. TimeInv
    <2>1. Slack \in Nat
        BY Backlogs
    <2>2. ~ Running(mode)
        BY <1>1 DEF Running
    <2> QED
        BY <2>1, <2>2, <1>1, <1>2 DEF TimeInv, Timely
<1> QED
    BY <1>11, <1>12, <1>13, <1>14 DEF Inv

\* Every step of Next is one of the above.
LEMMA NextInv ==
    ASSUME Inv, Next
    PROVE  Inv'
<1>1. ASSUME NEW h \in Handlers, NEW u \in Values, NEW d \in Delays, PIC_AddEvent(h, u, d)
      PROVE  Inv'
    BY <1>1, AddStep
<1>2. ASSUME NEW h \in Handlers, PIC_RemoveEvents(h)
      PROVE  Inv'
    <2> DEFINE doomed == {e \in Queued : entries[e].handler = h}
    <2>1. RemoveAll(doomed)
        BY <1>2 DEF PIC_RemoveEvents
    <2>2. doomed \in SUBSET Queued
        OBVIOUS
    <2> HIDE DEF doomed
    <2> QED
        BY <2>1, <2>2, RemoveStep
<1>3. ASSUME NEW h \in Handlers, NEW u \in Values, PIC_RemoveSpecificEvents(h, u)
      PROVE  Inv'
    <2> DEFINE doomed == {e \in Queued : entries[e].handler = h /\ entries[e].value = u}
    <2>1. RemoveAll(doomed)
        BY <1>3 DEF PIC_RemoveSpecificEvents
    <2>2. doomed \in SUBSET Queued
        OBVIOUS
    <2> HIDE DEF doomed
    <2> QED
        BY <2>1, <2>2, RemoveStep
<1>4. ASSUME NEW irq \in Irqs, PIC_ActivateIRQ(irq)
      PROVE  Inv'
    BY <1>4, ActivateStep
<1>5. CASE Device
    BY <1>1, <1>2, <1>3, <1>4, <1>5 DEF Device
<1>6. CASE Loop
    BY <1>6, RunQueueStep, StartStep, FinishStep, EndServiceStep, FetchStep,
       IdleStep, ExhaustedStep, TickStep DEF Loop
<1> QED
    BY <1>5, <1>6, SpendStep, InterruptStep, IdleStep DEF Next

\* The invariant is of the variables alone.
LEMMA StutterInv ==
    ASSUME Inv, UNCHANGED vars
    PROVE  Inv'
<1>1. /\ entries' = entries /\ next' = next /\ free_entry' = free_entry
      /\ next_entry' = next_entry /\ running' = running
      /\ InEventService' = InEventService /\ srv_lag' = srv_lag
      /\ CPU_Cycles' = CPU_Cycles /\ CPU_CycleLeft' = CPU_CycleLeft
      /\ mode' = mode /\ irqs' = irqs
    BY DEF vars, lists, service, cycles
<1>2. TypeOK'
    BY <1>1 DEF Inv, TypeOK
<1>3. PoolInv'
    BY <1>1 DEF Inv, PoolInv
<1>4. ModeInv'
    BY <1>1, Zenon DEF Inv, ModeInv
<1>5. PIC_TickIndexND' = PIC_TickIndexND
    BY <1>1 DEF PIC_TickIndexND
<1>6. TimeInv'
    BY <1>1, <1>5 DEF Inv, TimeInv, Until
<1> QED
    BY <1>2, <1>3, <1>4, <1>6 DEF Inv

\* The inductive invariant: two lists and the served entry share the pool, the
\* queue is in order of time, and the budget of cycles is within its bounds.
THEOREM Invariant == Spec => []Inv
<1>1. Init => Inv
    BY InitInv
<1>2. Inv /\ [Next]_vars => Inv'
    BY NextInv, StutterInv
<1> QED
    BY <1>1, <1>2, PTL DEF Spec

\* Pointers stay inside the pool, queued entries hold events (PIC_AddEvent,
\* PIC_RunQueue and the removals of pic.cpp), whatever is scheduled and removed.
THEOREM Typed == Spec => []TypeOK
<1>1. Inv => TypeOK
    BY InvTyped
<1> QED
    BY <1>1, Invariant, PTL

\* No entry of pic_queue is ever lost or on both lists, and both lists end.
THEOREM PoolKept == Spec => []PoolIntact
<1>1. Inv => PoolIntact
    BY InvIntact
<1> QED
    BY <1>1, Invariant, PTL

\* AddEntry and PIC_RunQueue never leave the core more cycles than the next
\* event is away, but for the cycle of rounding and the two of PIC_ActivateIRQ.
THEOREM NeverOversleeps == Spec => []NoOversleep
<1>1. Inv => NoOversleep
    BY InvAwake
<1> QED
    BY <1>1, Invariant, PTL


-----------------------------------------------------------------------------
(* The refinement.                                                         *)

\* The agenda is the queue, seen as a sequence of events.
LEMMA ViewIs ==
    ASSUME NEW q, NEW n, NEW g, NEW m,
           Pooled(next, next_entry, free_entry, running, q, n, g, m)
    PROVE  Scheduled = View(entries, q, n)
<1>1. Chain(next, next_entry) = q /\ DOMAIN Chain(next, next_entry) = 1..n
    BY ListFound, HeadOf DEF Pooled
<1> QED
    BY <1>1, Zenon DEF Scheduled, View

\* The same after a step.
LEMMA ViewIsPrime ==
    ASSUME NEW q, NEW n, NEW g, NEW m,
           Pooled(next', next_entry', free_entry', running', q, n, g, m)
    PROVE  Scheduled' = View(entries', q, n)
<1>1. Chain(next', next_entry') = q /\ DOMAIN Chain(next', next_entry') = 1..n
    BY ListFound, HeadOf DEF Pooled
<1> QED
    BY <1>1, Zenon DEF Scheduled, View

\* The view as a sequence of events.
LEMMA ViewFacts ==
    ASSUME NEW en, NEW q, NEW n \in Nat, Ordered(en, q, n)
    PROVE  /\ View(en, q, n) \in Seq(Event)
           /\ Len(View(en, q, n)) = n
           /\ DOMAIN View(en, q, n) = 1..n
           /\ \A i \in 1..n : /\ View(en, q, n)[i] = en[q[i]]
                              /\ View(en, q, n)[i] \in Event
           /\ n = 0 => View(en, q, n) = <<>>
           /\ n # 0 => View(en, q, n) # <<>> /\ Head(View(en, q, n)) = en[q[1]]
<1>1. \A i \in 1..n : en[q[i]] \in Event
    BY DEF Ordered
<1>2. View(en, q, n) \in [1..n -> Event]
    BY <1>1 DEF View
<1>3. View(en, q, n) \in Seq(Event) /\ Len(View(en, q, n)) = n
    BY <1>2, SeqDef
<1>4. \A i \in 1..n : View(en, q, n)[i] = en[q[i]]
    BY DEF View
<1>5. n = 0 => View(en, q, n) = <<>>
    BY <1>3, EmptySeq
<1>6. n # 0 => View(en, q, n) # <<>> /\ Head(View(en, q, n)) = en[q[1]]
    BY <1>3, <1>4
<1> QED
    BY <1>1, <1>2, <1>3, <1>4, <1>5, <1>6

\* InsertAt of the library is Spliced.
LEMMA InsertSpliced ==
    ASSUME NEW S, NEW s \in Seq(S), NEW k \in 1..(Len(s) + 1), NEW e \in S
    PROVE  InsertAt(s, k, e) = Spliced(s, k, e, Len(s))
<1> DEFINE n == Len(s)
           left == SubSeq(s, 1, k - 1)
           right == SubSeq(s, k, n)
           t == Spliced(s, k, e, n)
<1>1. n \in Nat /\ k \in Int /\ k >= 1 /\ k <= n + 1 /\ \A i \in 1..n : s[i] \in S
    BY LenProperties, ElementOfSeq
<1>2. /\ left \in Seq(S) /\ Len(left) = k - 1
      /\ \A i \in 1..(k - 1) : left[i] = s[i]
    <2>1. \A i \in 1..(k - 1) : s[i] \in S
        BY <1>1
    <2>2. /\ left \in Seq(S)
          /\ Len(left) = IF 1 <= k - 1 THEN (k - 1) - 1 + 1 ELSE 0
          /\ \A i \in 1..((k - 1) - 1 + 1) : left[i] = s[1 + i - 1]
        BY <2>1, <1>1, k - 1 \in Int, 1 \in Int, SubSeqProperties
    <2> HIDE DEF left
    <2> QED
        BY <2>2, <1>1
<1>3. /\ right \in Seq(S) /\ Len(right) = n - k + 1
      /\ \A i \in 1..(n - k + 1) : right[i] = s[k + i - 1]
    <2>1. \A i \in k..n : s[i] \in S
        BY <1>1
    <2>2. /\ right \in Seq(S)
          /\ Len(right) = IF k <= n THEN n - k + 1 ELSE 0
          /\ \A i \in 1..(n - k + 1) : right[i] = s[k + i - 1]
        BY <2>1, <1>1, SubSeqProperties
    <2> HIDE DEF right
    <2> QED
        BY <2>2, <1>1
<1>4. <<e>> \in Seq(S) /\ Len(<<e>>) = 1 /\ <<e>>[1] = e
    OBVIOUS
<1> HIDE DEF left, right
<1> DEFINE lm == left \o <<e>>
           r == lm \o right
<1>5. /\ lm \in Seq(S) /\ Len(lm) = k
      /\ \A i \in 1..k : lm[i] = IF i < k THEN s[i] ELSE e
    <2> DEFINE one == <<e>>
    <2>1. one \in Seq(S) /\ Len(one) = 1 /\ one[1] = e
        BY <1>4
    <2> HIDE DEF one
    <2>2. /\ left \o one \in Seq(S) /\ Len(left \o one) = Len(left) + Len(one)
          /\ \A i \in 1..Len(left) + Len(one) :
                (left \o one)[i] = IF i <= Len(left) THEN left[i] ELSE one[i - Len(left)]
        BY <1>2, <2>1, ConcatProperties
    <2>3. Len(left) + Len(one) = k
        BY <2>1, <1>1, <1>2
    <2>4. ASSUME NEW i \in 1..k PROVE (left \o one)[i] = IF i < k THEN s[i] ELSE e
        <3>1. (left \o one)[i] = IF i <= k - 1 THEN left[i] ELSE one[i - (k - 1)]
            BY <2>2, <2>3, <1>2
        <3>2. CASE i < k
            <4>1. i \in 1..(k - 1) /\ i <= k - 1
                BY <3>2, <1>1
            <4> QED
                BY <4>1, <3>1, <3>2, <1>2
        <3>3. CASE ~ (i < k)
            <4>1. i - (k - 1) = 1 /\ ~ (i <= k - 1)
                BY <3>3, <1>1
            <4> QED
                BY <4>1, <3>1, <3>3, <2>1
        <3> QED
            BY <3>2, <3>3
    <2> QED
        BY <2>2, <2>3, <2>4 DEF one
<1> HIDE DEF lm
<1>6. /\ r \in Seq(S) /\ Len(r) = n + 1
      /\ \A i \in 1..(n + 1) : r[i] = IF i < k THEN s[i] ELSE IF i = k THEN e ELSE s[i - 1]
    <2>1. /\ r \in Seq(S) /\ Len(r) = k + (n - k + 1)
          /\ \A i \in 1..(k + (n - k + 1)) : r[i] = IF i <= k THEN lm[i] ELSE right[i - k]
        BY <1>3, <1>5, ConcatProperties
    <2>2. k + (n - k + 1) = n + 1
        BY <1>1
    <2> HIDE DEF r, n
    <2>3. ASSUME NEW i \in 1..(n + 1)
          PROVE  r[i] = IF i < k THEN s[i] ELSE IF i = k THEN e ELSE s[i - 1]
        <3>1. CASE i <= k
            <4>1. i \in 1..k
                BY <3>1, <1>1
            <4>2. r[i] = lm[i]
                BY <3>1, <2>1, <2>2
            <4>3. lm[i] = IF i < k THEN s[i] ELSE e
                BY <4>1, <1>5
            <4> QED
                BY <4>1, <4>2, <4>3, <3>1, <1>1
        <3>2. CASE i > k
            <4>1. i - k \in 1..(n - k + 1) /\ k + (i - k) - 1 = i - 1
                BY <3>2, <1>1
            <4>2. right[i - k] = s[i - 1]
                BY <4>1, <1>3
            <4> QED
                BY <3>2, <4>2, <2>1, <2>2, <1>1
        <3> QED
            BY <3>1, <3>2, <1>1
    <2> QED
        BY <2>1, <2>2, <2>3
<1>7. r = [i \in 1..(n + 1) |-> r[i]]
    <2>1. r \in [1..(n + 1) -> S]
        BY <1>6, LenProperties
    <2> HIDE DEF r, n
    <2> QED
        BY <2>1
<1>8. r = t
    <2> HIDE DEF r, n
    <2>1. \A i \in 1..(n + 1) : r[i] = t[i]
        BY <1>6 DEF Spliced
    <2>2. t = [i \in 1..(n + 1) |-> t[i]]
        BY DEF Spliced
    <2> HIDE DEF t
    <2> QED
        BY <1>7, <2>1, <2>2
<1>9. InsertAt(s, k, e) = r
    BY Zenon DEF InsertAt, r, lm, left, right, n
<1> QED
    BY <1>8, <1>9

\* No event is the null event.
LEMMA EventSet == \A e \in Event : e # A!NoEvent
<1>1. SUFFICES ASSUME NEW e \in Event, e = A!NoEvent PROVE FALSE
    OBVIOUS
<1>2. DOMAIN e = {"handler", "value", "index"}
    BY DEF Event
<1>3. DOMAIN e = {"handler"}
    BY <1>1 DEF A!NoEvent
<1> QED
    BY <1>2, <1>3

\* An event that is k cycles away is no more than that overdue.
LEMMA OnTime ==
    ASSUME NEW i \in Int, NEW n \in Int, Whole(i) - n >= 0 - Slack
    PROVE  n * Sub <= i + Slack * Sub
<1>1. Slack \in Int
    BY Backlogs
<1>2. Whole(i) \in Int /\ n - Slack <= Whole(i)
    <2>1. Whole(i) \in Int
        BY WholeAtLeast
    <2> QED
        BY <2>1, <1>1
<1>3. (n - Slack) * Sub <= i
    BY <1>1, <1>2, WholeAtLeast
<1>4. (n - Slack) * Sub = n * Sub - Slack * Sub /\ n * Sub \in Int /\ Slack * Sub \in Int
    BY <1>1, Times
<1> QED
    BY <1>3, <1>4


\* At first the agenda is empty.
LEMMA InitRefines ==
    ASSUME Init
    PROVE  A!Init
<1>1. Inv
    BY InitInv
<1>2. PICK q, n, g, m :
         /\ Pooled(next, next_entry, free_entry, running, q, n, g, m)
         /\ Ordered(entries, q, n)
    BY <1>1 DEF Inv, PoolInv
<1>3. next_entry = 0 /\ running = 0 /\ CPU_Cycles = 0 /\ CPU_CycleLeft = CycleMax
    BY DEF Init
<1>4. n = 0
    BY <1>2, <1>3, HeadOf
<1>5. Scheduled = <<>>
    <2>1. Scheduled = View(entries, q, n)
        BY <1>2, ViewIs
    <2>2. 0 \in Nat /\ Ordered(entries, q, 0)
        BY <1>2, <1>4
    <2>3. View(entries, q, 0) = <<>>
        BY <2>2, ViewFacts
    <2> QED
        BY <2>1, <2>3, <1>4
<1>6. EventAt(running) = A!NoEvent
    BY <1>3 DEF EventAt, A!NoEvent
<1>7. PIC_TickIndexND = 0
    BY <1>3, Pool DEF PIC_TickIndexND
<1> QED
    BY <1>5, <1>6, <1>7 DEF A!Init

\* The head of the agenda is the event at the head of the queue.
LEMMA HeadView ==
    ASSUME Inv
    PROVE  /\ Scheduled # <<>> => next_entry # 0
           /\ next_entry # 0 => Scheduled # <<>> /\ Head(Scheduled) = entries[next_entry]
<1>1. PICK q, n, g, m :
         /\ Pooled(next, next_entry, free_entry, running, q, n, g, m)
         /\ Ordered(entries, q, n)
    BY DEF Inv, PoolInv
<1>2. Scheduled = View(entries, q, n) /\ n \in Nat
    BY <1>1, ViewIs, HeadOf
<1>3. /\ n = 0 => View(entries, q, n) = <<>>
      /\ n # 0 => View(entries, q, n) # <<>> /\ Head(View(entries, q, n)) = entries[q[1]]
    BY <1>1, <1>2, ViewFacts
<1>4. (n # 0 => next_entry # 0) /\ (next_entry # 0 => n # 0 /\ next_entry = q[1])
    BY <1>1, HeadOf
<1> QED
    BY <1>2, <1>3, <1>4

\* Time passes, or nothing the agenda tells.
LEMMA PassRefines ==
    ASSUME Inv, Inv', UNCHANGED <<lists, running>>,
           PIC_TickIndexND <= PIC_TickIndexND',
           running = 0 \/ PIC_TickIndexND' = PIC_TickIndexND
    PROVE  [A!Next]_(A!vars)
<1>1. /\ entries' = entries /\ next' = next /\ free_entry' = free_entry
      /\ next_entry' = next_entry /\ running' = running
    BY DEF lists
<1>2. Scheduled' = Scheduled /\ EventAt(running)' = EventAt(running)
    BY <1>1 DEF Scheduled, EventAt
<1> DEFINE now == PIC_TickIndexND
           then == PIC_TickIndexND'
<1>3. now \in Int /\ then \in Int /\ now <= then
    <2>1. CPU_Cycles' \in Int /\ CPU_CycleLeft' \in Int
        BY DEF Inv, TypeOK
    <2> QED
        BY <2>1, HeadFacts, Pool DEF PIC_TickIndexND
<1>4. CASE running = 0
    <2>1. EventAt(running) = A!NoEvent
        BY <1>4 DEF EventAt, A!NoEvent
    <2>2. then <= CycleMax + Slack
        <3>1. CPU_CycleLeft' + CPU_Cycles' >= 0 - Slack
            BY DEF Inv, TimeInv, Timely
        <3>2. CPU_Cycles' \in Int /\ CPU_CycleLeft' \in Int
            BY DEF Inv, TypeOK
        <3>3. then = CycleMax - CPU_CycleLeft' - CPU_Cycles'
            BY DEF PIC_TickIndexND
        <3>4. Slack \in Int /\ CycleMax \in Int
            BY Pool, Backlogs
        <3> DEFINE c2 == CPU_Cycles'
                   l2 == CPU_CycleLeft'
        <3> HIDE DEF then, c2, l2
        <3>5. l2 + c2 >= 0 - Slack /\ c2 \in Int /\ l2 \in Int /\ then = CycleMax - l2 - c2
            BY <3>1, <3>2, <3>3 DEF c2, l2
        <3> QED
            BY <3>4, <3>5
    <2>3. Scheduled # <<>> => then * Sub <= Head(Scheduled).index + Slack * Sub
        <3>1. SUFFICES ASSUME Scheduled # <<>>
                       PROVE  then * Sub <= Head(Scheduled).index + Slack * Sub
            OBVIOUS
        <3>2. next_entry # 0 /\ Head(Scheduled) = entries[next_entry]
            BY <3>1, HeadView
        <3>3. entries[next_entry].index \in Int
            BY <3>2, HeadFacts
        <3>4. Until(next_entry)' >= 0 - Slack
            BY <3>2, <1>1 DEF Inv, TimeInv, Timely
        <3>5. Until(next_entry)' = Whole(entries[next_entry].index) - then
            BY <1>1 DEF Until
        <3> HIDE DEF then
        <3> QED
            BY <3>2, <3>3, <3>4, <3>5, <1>3, OnTime
    <2>4. CycleMax + Slack \in Int
        BY Pool, Backlogs
    <2> HIDE DEF now, then
    <2>5. then \in now..(CycleMax + Slack)
        BY <2>2, <2>4, <1>3
    <2>6. A!Pass
        BY <2>1, <2>3, <2>5, <1>2 DEF A!Pass, now, then
    <2> QED
        BY <2>6 DEF A!Next
<1>5. CASE PIC_TickIndexND' = PIC_TickIndexND
    BY <1>2, <1>5 DEF A!vars
<1> QED
    BY <1>4, <1>5

\* Steps that move or hold the clock.
LEMMA ClockRefines ==
    ASSUME Inv, Inv',
           \/ RunQueue \/ EndService \/ Fetch \/ Spend \/ Interrupt \/ Retire
           \/ Exhausted \/ NoTickYet \/ TickersDone
           \/ \E irq \in Irqs : PIC_ActivateIRQ(irq)
    PROVE  [A!Next]_(A!vars)
<1> DEFINE c == CPU_Cycles
           l == CPU_CycleLeft
           c2 == CPU_Cycles'
           l2 == CPU_CycleLeft'
<1>1. UNCHANGED <<lists, running>>
    BY DEF RunQueue, EndService, Fetch, Spend, Interrupt, Retire, Exhausted,
           NoTickYet, TickersDone, PIC_ActivateIRQ, service
<1>2. c \in Int /\ l \in Int /\ c2 \in Int /\ l2 \in Int
    BY DEF Inv, TypeOK
<1>3. \/ l2 = l + c /\ c2 = 0
      \/ c = 0 /\ l2 = l - c2
      \/ running = 0 /\ l2 = l /\ (c2 <= c)
      \/ l2 = l + c - 2 /\ c2 = 2
      \/ l2 = l /\ c2 = c
    <2>1. CASE RunQueue \/ Interrupt
        BY <2>1 DEF RunQueue, Interrupt, StopCpu
    <2>2. CASE EndService
        BY <2>2, Scalars DEF EndService
    <2>3. CASE Fetch \/ Spend \/ Exhausted
        <3>1. mode # "handler" /\ l2 = l
            BY <2>3 DEF Fetch, Spend, Exhausted
        <3>2. running = 0
            BY <3>1 DEF Inv, ModeInv
        <3>3. \E k \in Int : k >= 0 /\ c2 = c - k
            <4>1. CASE Fetch
                <5>1. PICK cost \in 1..MaxCost : c2 = c - cost
                    BY <4>1 DEF Fetch
                <5>2. cost >= 0 /\ cost \in Int
                    BY Pool
                <5> QED
                    BY <5>1, <5>2
            <4>2. CASE Spend
                <5>1. c2 \in 0..(c - 1)
                    BY <4>2 DEF Spend
                <5> HIDE DEF c, c2
                <5>2. c - c2 \in Int /\ c - c2 >= 0 /\ c2 = c - (c - c2)
                    BY <5>1, <1>2
                <5> QED
                    BY <5>2
            <4>3. CASE Exhausted
                BY <4>3, 1 \in Int DEF Exhausted
            <4> QED
                BY <2>3, <4>1, <4>2, <4>3
        <3> HIDE DEF c, c2, l, l2
        <3>4. c2 <= c
            BY <3>3, <1>2
        <3> QED
            BY <3>1, <3>2, <3>4
    <2>5. CASE Retire \/ NoTickYet \/ TickersDone
        BY <2>5 DEF Retire, NoTickYet, TickersDone, cycles
    <2>7. CASE \E irq \in Irqs : PIC_ActivateIRQ(irq)
        BY <2>7 DEF PIC_ActivateIRQ, cycles
    <2> QED
        BY <2>1, <2>2, <2>3, <2>5, <2>7
<1>5. PIC_TickIndexND' = PIC_TickIndexND + ((l + c) - (l2 + c2)) /\ PIC_TickIndexND \in Int
    BY <1>2, Clock, HeadFacts
<1>6. /\ PIC_TickIndexND <= PIC_TickIndexND'
      /\ running = 0 \/ PIC_TickIndexND' = PIC_TickIndexND
    <2> HIDE DEF c, c2, l, l2
    <2>1. (l + c) - (l2 + c2) >= 0 /\ (l + c) - (l2 + c2) \in Int
          /\ (running = 0 \/ (l + c) - (l2 + c2) = 0)
        BY <1>2, <1>3
    <2> DEFINE k == (l + c) - (l2 + c2)
    <2> HIDE DEF k
    <2>2. PIC_TickIndexND' = PIC_TickIndexND + k /\ k >= 0 /\ k \in Int /\ (running = 0 \/ k = 0)
        BY <2>1, <1>5 DEF k
    <2> QED
        BY <2>2, <1>5
<1> QED
    BY <1>1, <1>6, PassRefines


\* PIC_RunQueue serves the head of the agenda, which is due.
LEMMA StartRefines ==
    ASSUME Inv, Inv', StartEvent
    PROVE  A!Start
<1>1. /\ mode = "service" /\ next_entry # 0
      /\ entries[next_entry].index <= PIC_TickIndexND * Sub
      /\ running' = next_entry /\ next_entry' = next[next_entry]
      /\ entries' = entries /\ next' = next /\ free_entry' = free_entry
      /\ CPU_Cycles' = CPU_Cycles /\ CPU_CycleLeft' = CPU_CycleLeft
    BY DEF StartEvent, cycles, Due
<1>2. running = 0
    BY <1>1 DEF Inv, ModeInv
<1>3. EventAt(running) = A!NoEvent
    BY <1>2 DEF EventAt, A!NoEvent
<1>4. Scheduled # <<>> /\ Head(Scheduled) = entries[next_entry]
    BY <1>1, HeadView
<1>5. EventAt(running)' = Head(Scheduled)
    BY <1>1, <1>4 DEF EventAt
<1>6. PIC_TickIndexND' = PIC_TickIndexND
    BY <1>1 DEF PIC_TickIndexND
<1>7. Scheduled' = Tail(Scheduled)
    <2>1. PICK q, n, g, m :
             /\ Pooled(next, next_entry, free_entry, running, q, n, g, m)
             /\ Ordered(entries, q, n)
        BY DEF Inv, PoolInv
    <2>2. /\ n # 0 /\ n \in Nat
          /\ Pooled(next', next_entry', free_entry', running', Popped(q, n), n - 1, g, m)
        <3>1. Pooled(next, next_entry, free_entry, 0, q, n, g, m)
            BY <1>2, <2>1
        <3>2. /\ n # 0 /\ n \in Nat /\ next_entry = q[1] /\ next_entry \in Entries
              /\ Pooled(next, next[next_entry], free_entry, next_entry,
                        Popped(q, n), n - 1, g, m)
            BY <3>1, <1>1, StartLists
        <3> QED
            BY <3>2, <1>1
    <2>3. Scheduled = View(entries, q, n)
        BY <2>1, ViewIs
    <2>4. Scheduled' = View(entries, Popped(q, n), n - 1)
        BY <2>2, <1>1, ViewIsPrime
    <2> DEFINE s == View(entries, q, n)
               t == View(entries, Popped(q, n), n - 1)
    <2>5. s \in Seq(Event) /\ Len(s) = n /\ s # <<>> /\ \A i \in 1..n : s[i] = entries[q[i]]
        BY <2>1, <2>2, ViewFacts
    <2>6. t = [i \in 1..(n - 1) |-> s[i + 1]]
        <3>1. \A i \in 1..(n - 1) : entries[Popped(q, n)[i]] = s[i + 1]
            <4>1. TAKE i \in 1..(n - 1)
            <4>2. i + 1 \in 1..n
                BY <2>2
            <4>3. Popped(q, n)[i] = q[i + 1]
                BY DEF Popped
            <4> HIDE DEF s
            <4> QED
                BY <4>2, <4>3, <2>5
        <3> HIDE DEF s
        <3> QED
            BY <3>1 DEF View
    <2> HIDE DEF s, t
    <2>7. Tail(s) = t
        <3>1. Len(Tail(s)) = n - 1 /\ Tail(s) \in Seq(Event)
              /\ \A i \in 1..(n - 1) : Tail(s)[i] = s[i + 1]
            <4>1. /\ Head(s) \in Event /\ Tail(s) \in Seq(Event) /\ Len(Tail(s)) = Len(s) - 1
                  /\ \A i \in 1..Len(Tail(s)) : Tail(s)[i] = s[i + 1]
                BY <2>5, HeadTailProperties
            <4> QED
                BY <4>1, <2>5
        <3>2. Tail(s) \in [1..(n - 1) -> Event]
            BY <3>1, LenProperties
        <3> DEFINE r == Tail(s)
        <3>3. r = [i \in 1..(n - 1) |-> r[i]] /\ \A i \in 1..(n - 1) : r[i] = s[i + 1]
            <4> HIDE DEF r
            <4>1. r \in [1..(n - 1) -> Event] /\ \A i \in 1..(n - 1) : r[i] = s[i + 1]
                BY <3>1, <3>2 DEF r
            <4> QED
                BY <4>1
        <3> HIDE DEF r
        <3>4. r = t
            BY <2>6, <3>3
        <3> QED
            BY <3>4 DEF r
    <2> QED
        BY <2>3, <2>4, <2>7 DEF s, t
<1> QED
    BY <1>1, <1>3, <1>4, <1>5, <1>6, <1>7 DEF A!Start

\* The served event is over, and the agenda as it was.
LEMMA FinishRefines ==
    ASSUME Inv, Inv', FinishEvent
    PROVE  A!Finish
<1>1. /\ mode = "handler" /\ next' = [next EXCEPT ![running] = free_entry]
      /\ entries' = [entries EXCEPT ![running] = Blank]
      /\ free_entry' = running /\ running' = 0 /\ next_entry' = next_entry
      /\ CPU_Cycles' = CPU_Cycles /\ CPU_CycleLeft' = CPU_CycleLeft
    BY DEF FinishEvent, cycles
<1>2. running # 0 /\ entries[running] \in Event
    BY <1>1 DEF Inv, ModeInv
<1>3. EventAt(running) # A!NoEvent
    BY <1>2, EventSet DEF EventAt
<1>4. EventAt(running)' = A!NoEvent
    BY <1>1 DEF EventAt, A!NoEvent
<1>5. PIC_TickIndexND' = PIC_TickIndexND
    BY <1>1 DEF PIC_TickIndexND
<1>6. Scheduled' = Scheduled
    <2>1. PICK q, n, g, m :
             /\ Pooled(next, next_entry, free_entry, running, q, n, g, m)
             /\ Ordered(entries, q, n)
        BY DEF Inv, PoolInv
    <2>2. Pooled(next', next_entry', free_entry', running', q, n, Pushed(running, g, m), m + 1)
        <3>1. Pooled([next EXCEPT ![running] = free_entry], next_entry, running, 0,
                     q, n, Pushed(running, g, m), m + 1)
            BY <1>2, <2>1, FinishLists
        <3> QED
            BY <3>1, <1>1
    <2>3. Scheduled = View(entries, q, n) /\ Scheduled' = View(entries', q, n)
        BY <2>1, <2>2, ViewIs, ViewIsPrime
    <2>4. \A i \in 1..n : entries'[q[i]] = entries[q[i]]
        <3>1. \A i \in 1..n : q[i] \in Entries /\ q[i] # running
            BY <2>1, HeadOf
        <3>2. entries \in [Entries -> Event \cup {Blank}]
            BY DEF Inv, TypeOK
        <3> QED
            BY <3>1, <3>2, <1>1
    <2>5. View(entries', q, n) = View(entries, q, n)
        BY <2>4 DEF View
    <2> QED
        BY <2>3, <2>5
<1> QED
    BY <1>3, <1>4, <1>5, <1>6 DEF A!Finish

\* A tick restarts the clock when it has reached its end, and moves all events.
LEMMA TickRefines ==
    ASSUME Inv, Inv', TIMER_AddTick
    PROVE  A!Tick
<1>1. /\ mode = "host" /\ CPU_CycleLeft' = CycleMax /\ CPU_Cycles' = 0
      /\ entries' = [e \in Entries |-> IF e \in Queued
                         THEN [entries[e] EXCEPT !.index = @ - CycleMax * Sub]
                         ELSE entries[e]]
      /\ next' = next /\ free_entry' = free_entry /\ next_entry' = next_entry
      /\ running' = running
    BY DEF TIMER_AddTick, service
<1>2. running = 0
    BY <1>1 DEF Inv, ModeInv
<1>3. EventAt(running) = A!NoEvent /\ EventAt(running)' = EventAt(running)
    BY <1>1, <1>2 DEF EventAt, A!NoEvent
<1>4. PIC_TickIndexND >= CycleMax /\ PIC_TickIndexND' = 0
    BY <1>1, Scalars, Pool DEF PIC_TickIndexND
<1>5. Scheduled' = [i \in DOMAIN Scheduled |->
                       [Scheduled[i] EXCEPT !.index = @ - CycleMax * Sub]]
    <2>1. PICK q, n, g, m :
             /\ Pooled(next, next_entry, free_entry, running, q, n, g, m)
             /\ Ordered(entries, q, n)
        BY DEF Inv, PoolInv
    <2>2. Pooled(next', next_entry', free_entry', running', q, n, g, m)
        BY <1>1, <2>1
    <2>3. Scheduled = View(entries, q, n) /\ Scheduled' = View(entries', q, n)
        BY <2>1, <2>2, ViewIs, ViewIsPrime
    <2>4. DOMAIN Scheduled = 1..n /\ \A i \in 1..n : Scheduled[i] = entries[q[i]]
        BY <2>1, <2>3, HeadOf, ViewFacts
    <2>5. Queued = On(q, n)
        BY <2>1, ListFound, HeadOf DEF Pooled, Queued
    <2>6. \A i \in 1..n : q[i] \in Entries /\ q[i] \in Queued
        BY <2>1, <2>5, HeadOf DEF On
    <2>7. \A i \in 1..n : entries'[q[i]] = [Scheduled[i] EXCEPT !.index = @ - CycleMax * Sub]
        BY <2>4, <2>6, <1>1, Zenon
    <2>8. View(entries', q, n) = [i \in 1..n |-> entries'[q[i]]]
        BY DEF View
    <2> QED
        BY <2>3, <2>4, <2>7, <2>8, Zenon
<1> QED
    BY <1>3, <1>4, <1>5, Zenon DEF A!Tick

\* A removal keeps the other events in their order.
LEMMA CancelRefines ==
    ASSUME Inv, Inv', NEW h \in Handlers,
           NEW vs \in {Values} \cup {{u} : u \in Values},
           RemoveAll({e \in Queued : entries[e].handler = h /\ entries[e].value \in vs})
    PROVE  A!Cancel
<1> DEFINE doomed == {e \in Queued : entries[e].handler = h /\ entries[e].value \in vs}
           places == {i \in DOMAIN Scheduled :
                         ~ (Scheduled[i].handler = h /\ Scheduled[i].value \in vs)}
<1>1. /\ entries' = [e \in Entries |-> IF e \in doomed THEN Blank ELSE entries[e]]
      /\ running' = running
      /\ CPU_Cycles' = CPU_Cycles /\ CPU_CycleLeft' = CPU_CycleLeft
    BY DEF RemoveAll, service, cycles
<1>2. PICK q, n, g, m :
         /\ Pooled(next, next_entry, free_entry, running, q, n, g, m)
         /\ Ordered(entries, q, n)
    BY DEF Inv, PoolInv
<1>3. Queued = On(q, n)
    BY <1>2, ListFound, HeadOf DEF Pooled, Queued
<1>4. doomed \in SUBSET On(q, n) /\ RemoveAll(doomed)
    BY <1>3
<1>5. /\ Scheduled = View(entries, q, n) /\ n \in Nat
      /\ DOMAIN Scheduled = 1..n /\ Len(Scheduled) = n
      /\ \A i \in 1..n : Scheduled[i] = entries[q[i]]
    BY <1>2, ViewIs, HeadOf, ViewFacts
<1>6. \A i \in 1..n : q[i] \in Entries /\ q[i] \in Queued
    BY <1>2, <1>3, HeadOf DEF On
<1>7. places = {i \in 1..n : q[i] \notin doomed}
    BY <1>5, <1>6
<1> HIDE DEF doomed, places
<1> DEFINE Kept(z, c) ==
         /\ \A x, y \in 1..z : x < y => c[x] < c[y]
         /\ {c[x] : x \in 1..z} = {i \in 1..n : q[i] \notin doomed}
         /\ \E g2, m2 : Pooled(next', next_entry', free_entry', running,
                               At(q, c, z), z, g2, m2)
<1>8. \E z \in 0..n : \E c \in [1..z -> 1..n] : Kept(z, c)
    BY <1>2, <1>4, RemoveLists
<1>9. PICK z \in 0..n : \E c \in [1..z -> 1..n] : Kept(z, c)
    BY <1>8
<1>10. PICK c \in [1..z -> 1..n] : Kept(z, c)
    BY <1>9
<1>11. PICK g2, m2 : Pooled(next', next_entry', free_entry', running', At(q, c, z), z, g2, m2)
    BY <1>1, <1>10
<1>12. {c[x] : x \in 1..z} = places
    BY <1>7, <1>10
<1>13. c \in [1..z -> places]
    <2>1. \A x \in 1..z : c[x] \in {c[y] : y \in 1..z}
        OBVIOUS
    <2> QED
        BY <2>1, <1>12
<1>14. Scheduled' = View(entries', At(q, c, z), z)
    BY <1>11, ViewIsPrime
<1>15. \A x \in 1..z : entries'[At(q, c, z)[x]] = Scheduled[c[x]]
    <2>1. TAKE x \in 1..z
    <2>2. c[x] \in 1..n /\ c[x] \in {c[y] : y \in 1..z}
        OBVIOUS
    <2>3. q[c[x]] \notin doomed /\ q[c[x]] \in Entries
        BY <2>2, <1>6, <1>10
    <2>4. entries'[q[c[x]]] = entries[q[c[x]]]
        BY <2>3, <1>1
    <2>5. At(q, c, z)[x] = q[c[x]]
        BY DEF At
    <2> QED
        BY <2>2, <2>4, <2>5, <1>5
<1>16. Scheduled' = [x \in 1..z |-> Scheduled[c[x]]]
    BY <1>14, <1>15 DEF View
<1>17. A!Keep(places)
    <2>1. z \in 0..Len(Scheduled)
        BY <1>5
    <2>2. \A x, y \in 1..z : x < y => c[x] < c[y]
        BY <1>10
    <2> QED
        BY <2>1, <2>2, <1>12, <1>13, <1>16, Zenon DEF A!Keep
<1>18. PIC_TickIndexND' = PIC_TickIndexND /\ EventAt(running)' = EventAt(running)
    <2>1. PIC_TickIndexND' = PIC_TickIndexND
        BY <1>1 DEF PIC_TickIndexND
    <2>2. running # 0 => entries'[running] = entries[running]
        <3>1. running # 0 => running \in Entries
            BY HeadFacts
        <3>2. running \notin doomed
            BY <1>2, <1>4, HeadOf DEF On
        <3> QED
            BY <3>1, <3>2, <1>1
    <2> QED
        BY <2>1, <2>2, <1>1 DEF EventAt
<1> QED
    BY <1>17, <1>18, Zenon DEF A!Cancel, places


\* AddEntry links behind the events due no later, from the time Base gives.
LEMMA AddRefines ==
    ASSUME Inv, Inv', NEW h \in Handlers, NEW u \in Values, NEW delay \in Delays,
           PIC_AddEvent(h, u, delay)
    PROVE  A!Add
<1> DEFINE event == [handler |-> h, value |-> u, index |-> DueTime(delay)]
<1>1. /\ mode \in {"handler", "execute", "host", "ticker"} /\ DeviceCode
      /\ IF Away(entries'[next_entry'].index) < CPU_Cycles
           THEN CPU_CycleLeft' = CPU_CycleLeft + CPU_Cycles /\ CPU_Cycles' = 0
           ELSE CPU_CycleLeft' = CPU_CycleLeft /\ CPU_Cycles' = CPU_Cycles
      /\ running' = running /\ free_entry # 0
    BY DEF PIC_AddEvent, AddEntry, StopCpu, service, cycles, DeviceCode
<1>2. PICK q, n, g, m :
         /\ Pooled(next, next_entry, free_entry, running, q, n, g, m)
         /\ Ordered(entries, q, n)
    BY DEF Inv, PoolInv
<1>3. /\ event \in Event /\ free_entry \in Entries /\ free_entry # running
      /\ free_entry \notin On(q, n)
      /\ entries' = [entries EXCEPT ![free_entry] = event]
      /\ \E k \in 1..(n + 1) :
           /\ \A j \in 1..n : j < k <=> entries[q[j]].index <= event.index
           /\ Pooled(next', next_entry', free_entry', running',
                     Spliced(q, k, free_entry, n), n + 1, Popped(g, m), m - 1)
           /\ Ordered(entries', Spliced(q, k, free_entry, n), n + 1)
           /\ View(entries', Spliced(q, k, free_entry, n), n + 1)
                 = Spliced(View(entries, q, n), k, event, n)
    BY <1>2, AddLists
<1>4. PICK k \in 1..(n + 1) :
         /\ \A j \in 1..n : j < k <=> entries[q[j]].index <= event.index
         /\ Pooled(next', next_entry', free_entry', running',
                   Spliced(q, k, free_entry, n), n + 1, Popped(g, m), m - 1)
         /\ View(entries', Spliced(q, k, free_entry, n), n + 1)
               = Spliced(View(entries, q, n), k, event, n)
    BY <1>3
<1> HIDE DEF event
<1>5. /\ Scheduled = View(entries, q, n) /\ n \in Nat
      /\ Scheduled \in Seq(Event) /\ DOMAIN Scheduled = 1..n /\ Len(Scheduled) = n
      /\ \A i \in 1..n : Scheduled[i] = entries[q[i]]
    BY <1>2, ViewIs, HeadOf, ViewFacts
<1>6. Scheduled' = Spliced(Scheduled, k, event, n)
    BY <1>4, <1>5, ViewIsPrime
<1>7. Scheduled' = InsertAt(Scheduled, k, event)
    <2>1. k \in 1..(Len(Scheduled) + 1)
        BY <1>5
    <2>2. InsertAt(Scheduled, k, event) = Spliced(Scheduled, k, event, Len(Scheduled))
        BY <2>1, <1>3, <1>5, InsertSpliced
    <2> QED
        BY <2>2, <1>5, <1>6
<1>8. A!Insert(event)
    <2>1. k \in 1..(Len(Scheduled) + 1)
        BY <1>5
    <2>2. \A j \in DOMAIN Scheduled : j < k <=> Scheduled[j].index <= event.index
        BY <1>4, <1>5
    <2>3. A!InsertAt(Scheduled, k, event) = InsertAt(Scheduled, k, event)
        BY DEF A!InsertAt, InsertAt
    <2> QED
        BY <2>1, <2>2, <2>3, <1>7, Zenon DEF A!Insert
\* the event served is the one that delays count from
<1>9. event = [handler |-> h, value |-> u, index |-> A!Base + delay]
    <2>1. DueTime(delay) = A!Base + delay
        <3>1. /\ running # 0 <=> mode = "handler"
              /\ InEventService = (mode \in {"service", "handler"})
              /\ InEventService \in BOOLEAN /\ srv_lag \in Int
              /\ running # 0 => entries[running] \in Event /\ srv_lag = entries[running].index
            BY DEF Inv, ModeInv, TypeOK
        <3>2. delay \in Int /\ PIC_TickIndexND * Sub \in Int
            <4>1. delay \in Nat \ {0} /\ PIC_TickIndexND \in Int
                BY EventListAssumption, HeadFacts
            <4> QED
                BY <4>1, Times
        <3>3. CASE mode = "handler"
            <4>1. InEventService /\ EventAt(running) # A!NoEvent /\ EventAt(running) = entries[running]
                <5>1. InEventService
                    BY <3>1, <3>3, Zenon
                <5>2. running # 0 /\ entries[running] \in Event
                    BY <3>1, <3>3
                <5> QED
                    BY <5>1, <5>2, EventSet DEF EventAt
            <4>2. A!Base = srv_lag
                BY <4>1, <3>1, <3>3 DEF A!Base
            <4>3. DueTime(delay) = delay + srv_lag
                BY <4>1 DEF DueTime
            <4> QED
                BY <4>2, <4>3, <3>1, <3>2
        <3>4. CASE mode # "handler"
            <4>1. mode \notin {"service", "handler"}
                BY <1>1, <3>4
            <4>2. ~ InEventService
                BY <4>1, <3>1, Zenon
            <4>3. EventAt(running) = A!NoEvent
                BY <3>1, <3>4 DEF EventAt, A!NoEvent
            <4>4. A!Base = PIC_TickIndexND * Sub
                BY <4>3, Zenon DEF A!Base
            <4>5. DueTime(delay) = delay + PIC_TickIndexND * Sub
                BY <4>2 DEF DueTime
            <4> DEFINE x == PIC_TickIndexND * Sub
            <4>6. A!Base = x /\ DueTime(delay) = delay + x /\ x \in Int
                BY <4>4, <4>5, <3>2
            <4> HIDE DEF x
            <4> QED
                BY <4>6, <3>2
        <3> QED
            BY <3>3, <3>4
    <2> QED
        BY <2>1 DEF event
<1>10. Len(Scheduled) + (IF EventAt(running) # A!NoEvent THEN 1 ELSE 0) < PoolSize
    <2>1. n + m + (IF running = 0 THEN 0 ELSE 1) = PoolSize
        BY <1>2 DEF Pooled
    <2>2. m \in Nat /\ m # 0
        BY <1>1, <1>2, Pool DEF Pooled, Listed
    <2>3. (IF EventAt(running) # A!NoEvent THEN 1 ELSE 0) \in {0, 1}
        OBVIOUS
    <2>4. running = 0 => EventAt(running) = A!NoEvent
        BY DEF EventAt, A!NoEvent
    <2>5. n + (IF EventAt(running) # A!NoEvent THEN 1 ELSE 0) < PoolSize
        BY <2>1, <2>2, <2>4, <1>5, Pool
    <2> QED
        BY <2>5, <1>5
<1>11. EventAt(running)' = EventAt(running)
    <2>1. running # 0 => running \in Entries
        BY HeadFacts
    <2>2. running # 0 => entries'[running] = entries[running]
        BY <2>1, <1>3
    <2> QED
        BY <2>2, <1>1 DEF EventAt
<1>12. PIC_TickIndexND' = PIC_TickIndexND
    <2>1. CPU_Cycles \in Int /\ CPU_CycleLeft \in Int
        BY DEF Inv, TypeOK
    <2> QED
        BY <2>1, <1>1, Pool DEF PIC_TickIndexND
<1>13. A!Insert([handler |-> h, value |-> u, index |-> A!Base + delay])
    BY <1>8, <1>9
<1> QED
    BY <1>10, <1>11, <1>12, <1>13, Zenon DEF A!Add

\* Every step is one of the agenda, or none.
LEMMA NextRefines ==
    ASSUME Inv, Inv', Next
    PROVE  [A!Next]_(A!vars)
<1>1. ASSUME NEW h \in Handlers, NEW u \in Values, NEW d \in Delays, PIC_AddEvent(h, u, d)
      PROVE  A!Next
    BY <1>1, AddRefines DEF A!Next
<1>2. ASSUME NEW h \in Handlers, PIC_RemoveEvents(h)
      PROVE  A!Next
    <2>1. \A e \in Queued : entries[e].value \in Values
        <3>1. PICK q, n, g, m :
                 /\ Pooled(next, next_entry, free_entry, running, q, n, g, m)
                 /\ Ordered(entries, q, n)
            BY DEF Inv, PoolInv
        <3>2. Queued = On(q, n)
            BY <3>1, ListFound, HeadOf DEF Pooled, Queued
        <3>3. \A e \in Queued : entries[e] \in Event
            BY <3>1, <3>2 DEF On, Ordered
        <3> QED
            BY <3>3 DEF Event
    <2>2. {e \in Queued : entries[e].handler = h /\ entries[e].value \in Values}
             = {e \in Queued : entries[e].handler = h}
        BY <2>1
    <2>3. RemoveAll({e \in Queued : entries[e].handler = h /\ entries[e].value \in Values})
        BY <2>2, <1>2 DEF PIC_RemoveEvents
    <2>4. Values \in {Values} \cup {{u} : u \in Values}
        OBVIOUS
    <2>5. A!Cancel
        BY <2>3, <2>4, CancelRefines
    <2> QED
        BY <2>5 DEF A!Next
<1>3. ASSUME NEW h \in Handlers, NEW u \in Values, PIC_RemoveSpecificEvents(h, u)
      PROVE  A!Next
    <2>2. {e \in Queued : entries[e].handler = h /\ entries[e].value \in {u}}
             = {e \in Queued : entries[e].handler = h /\ entries[e].value = u}
        OBVIOUS
    <2>3. RemoveAll({e \in Queued : entries[e].handler = h /\ entries[e].value \in {u}})
        BY <2>2, <1>3 DEF PIC_RemoveSpecificEvents
    <2>4. {u} \in {Values} \cup {{x} : x \in Values}
        OBVIOUS
    <2>5. A!Cancel
        BY <2>3, <2>4, CancelRefines
    <2> QED
        BY <2>5 DEF A!Next
<1>4. CASE Device
    BY <1>1, <1>2, <1>3, <1>4, ClockRefines DEF Device
<1>5. CASE StartEvent \/ FinishEvent \/ TIMER_AddTick
    BY <1>5, StartRefines, FinishRefines, TickRefines DEF A!Next
<1>6. CASE RunQueue \/ EndService \/ Fetch \/ Spend \/ Interrupt \/ Retire
           \/ Exhausted \/ NoTickYet \/ TickersDone
    BY <1>6, ClockRefines
<1> QED
    BY <1>4, <1>5, <1>6 DEF Next, Loop

\* The agenda is a function of the variables.
LEMMA StutterRefines ==
    ASSUME UNCHANGED vars
    PROVE  UNCHANGED A!vars
<1>1. /\ entries' = entries /\ next' = next /\ next_entry' = next_entry
      /\ running' = running
      /\ CPU_Cycles' = CPU_Cycles /\ CPU_CycleLeft' = CPU_CycleLeft
    BY DEF vars, lists, service, cycles
<1> QED
    BY <1>1 DEF A!vars, Scheduled, EventAt, PIC_TickIndexND

\* The queue is in order of time.
LEMMA InvSorted ==
    ASSUME Inv
    PROVE  A!Sorted
<1>1. PICK q, n, g, m :
         /\ Pooled(next, next_entry, free_entry, running, q, n, g, m)
         /\ Ordered(entries, q, n)
    BY DEF Inv, PoolInv
<1>2. DOMAIN Scheduled = 1..n /\ \A i \in 1..n : Scheduled[i] = entries[q[i]]
    BY <1>1, ViewIs, HeadOf, ViewFacts
<1> QED
    BY <1>1, <1>2 DEF A!Sorted, Ordered

\* The head is at most Slack overdue, so is every event behind it, and the served one.
LEMMA InvNeverLate ==
    ASSUME Inv
    PROVE  A!NeverLate
<1> DEFINE now == PIC_TickIndexND
<1>1. PICK q, n, g, m :
         /\ Pooled(next, next_entry, free_entry, running, q, n, g, m)
         /\ Ordered(entries, q, n)
    BY DEF Inv, PoolInv
<1>2. DOMAIN Scheduled = 1..n /\ n \in Nat /\ \A i \in 1..n : Scheduled[i] = entries[q[i]]
    BY <1>1, ViewIs, HeadOf, ViewFacts
<1>3. now \in Int /\ now * Sub \in Int /\ Slack * Sub \in Int
    BY HeadFacts, Backlogs, Times
<1>4. ASSUME NEW i \in DOMAIN Scheduled
      PROVE  now * Sub <= Scheduled[i].index + Slack * Sub
    <2>1. i \in 1..n /\ 1 \in 1..n /\ n # 0
        BY <1>2
    <2>2. next_entry # 0 /\ next_entry = q[1]
        BY <2>1, <1>1, HeadOf
    <2> DEFINE a == entries[q[1]].index
               z == entries[q[i]].index
    <2>3. a \in Int /\ z \in Int /\ a <= z
        <3>1. a \in Int /\ z \in Int
            BY <2>1, <1>1 DEF Ordered, Event
        <3>2. i = 1 \/ 1 < i
            BY <2>1
        <3> QED
            BY <3>1, <3>2, <2>1, <1>1 DEF Ordered
    <2>4. Whole(a) - now >= 0 - Slack
        BY <2>2, Scalars DEF Until
    <2>5. z = Scheduled[i].index
        BY <2>1, <1>2
    <2> HIDE DEF a, z, now
    <2>6. now * Sub <= a + Slack * Sub
        BY <2>3, <2>4, <1>3, OnTime
    <2>7. now * Sub <= z + Slack * Sub
        BY <2>3, <2>6, <1>3
    <2> QED
        BY <2>5, <2>7
<1>5. EventAt(running) # A!NoEvent => now * Sub <= EventAt(running).index + Slack * Sub
    <2>1. SUFFICES ASSUME EventAt(running) # A!NoEvent
                   PROVE  now * Sub <= EventAt(running).index + Slack * Sub
        OBVIOUS
    <2>2. running # 0 /\ EventAt(running) = entries[running]
        BY <2>1 DEF EventAt, A!NoEvent
    <2>3. entries[running].index \in Int /\ Whole(entries[running].index) - now >= 0 - Slack
        BY <2>2, Scalars, HeadFacts DEF Until
    <2> HIDE DEF now
    <2> QED
        BY <2>2, <2>3, <1>3, OnTime
<1> QED
    BY <1>4, <1>5, Zenon DEF A!NeverLate

\* The linked lists and the budget of cycles of pic.cpp implement the agenda: in
\* order of time, first come first served, never early, and no event more than
\* Slack cycles overdue while it waits or is served, ticks included.
THEOREM Refines == Spec => ImplementsAgenda
<1>1. Init => A!Init
    BY InitRefines
<1>2. Inv /\ Inv' /\ [Next]_vars => [A!Next]_(A!vars)
    BY NextRefines, StutterRefines
<1>3. Inv => A!Sorted /\ A!NeverLate
    BY InvSorted, InvNeverLate
<1> QED
    BY <1>1, <1>2, <1>3, Invariant, PTL DEF Spec, ImplementsAgenda, A!Spec
=============================================================================
