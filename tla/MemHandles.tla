----------------------------- MODULE MemHandles -----------------------------
(***************************************************************************)
(* The pages of memory above the first megabyte that                       *)
(* dosbox/src/hardware/memory.cpp hands out.  mhandles holds for each page *)
(* 0 when it is free, -1 when it ends a block, and else the next page of   *)
(* its block; the first page of a block is the block's handle.             *)
(*                                                                         *)
(* The functions are operators on the array, with m for memory.mhandles.   *)
(* A scattered allocation may run past the end of the array                *)
(* (MEM_AllocatePages tests no bound in its inner loop): the cell after    *)
(* the last is part of the model and holds a value of somebody else,       *)
(* Foreign, or happens to be 0.  Bound: no cell after it is 0.             *)
(***************************************************************************)
EXTENDS Integers, SequencesExt

CONSTANTS
    XMS_START,   \* the first page that is handed out
    LastPage     \* memory.pages - 1

ASSUME PagesAssumption ==
    XMS_START \in Nat \ {0} /\ LastPage \in Nat /\ XMS_START <= LastPage

VARIABLE mhandles

Pages == XMS_START..LastPage
Cells == XMS_START..(LastPage + 1)
Foreign == -2

\* the array with all pages free
AllFree == {[c \in Cells |-> IF c \in Pages THEN 0 ELSE past] : past \in {0, Foreign}}

-----------------------------------------------------------------------------
(* Reading the array.                                                      *)

\* the pages of the block with this handle, in their order
Chain(m, handle) ==
    LET page[k \in 0..Cardinality(Cells)] ==
            IF k = 0 THEN handle
            ELSE LET p == page[k - 1] IN IF p <= 0 THEN 0 ELSE m[p]
    IN  [k \in {j \in 1..Cardinality(Cells) : page[j - 1] > 0} |-> page[k - 1]]

MEM_FreeTotal(m) == Cardinality({p \in Pages : m[p] = 0})

\* the free pages that follow one another, as pairs of the first and the last
FreeRuns(m) ==
    {r \in Pages \X Pages :
        /\ r[1] <= r[2]
        /\ \A p \in r[1]..r[2] : m[p] = 0
        /\ r[1] - 1 \in Pages => m[r[1] - 1] # 0
        /\ r[2] + 1 \in Pages => m[r[2] + 1] # 0}

\* the start of the shortest run of n pages or more, the first of those; or 0
BestMatch(m, n) ==
    LET fits == {r \in FreeRuns(m) : r[2] - r[1] + 1 >= n}
        least == Min({r[2] - r[1] : r \in fits})
    IN  IF fits = {} THEN 0 ELSE Min({r[1] : r \in {q \in fits : q[2] - q[1] = least}})

-----------------------------------------------------------------------------
(* Changing it.  A handle of 0 says that nothing was allocated.            *)

\* the pages c become one block
Link(m, c) ==
    [x \in Cells |->
        LET at == CHOOSE i \in DOMAIN c : c[i] = x
        IN  IF x \notin ToSet(c) THEN m[x] ELSE IF at = Len(c) THEN -1 ELSE c[at + 1]]

\* a scattered allocation goes on from one page to the next as long as it is
\* free, then from the start of the shortest run
NextTaken(m, c) ==
    IF c # <<>> /\ Last(c) + 1 \in Cells /\ m[Last(c) + 1] = 0
      THEN Last(c) + 1 ELSE BestMatch(m, 1)

\* the n pages it takes
Scatter(m, n) ==
    LET take[k \in 0..n] ==
            IF k = 0 THEN <<>>
            ELSE LET c == take[k - 1] IN Append(c, NextTaken(Link(m, c), c))
    IN  take[n]

MEM_AllocatePages(m, n, sequence) ==
    LET start == BestMatch(m, n)
        taken == IF n = 0 THEN <<>>
                 ELSE IF sequence
                   THEN IF start = 0 THEN <<>> ELSE [i \in 1..n |-> start + i - 1]
                   ELSE IF MEM_FreeTotal(m) < n THEN <<>> ELSE Scatter(m, n)
    IN  IF taken = <<>> THEN [handle |-> 0, m |-> m]
        ELSE [handle |-> Head(taken), m |-> Link(m, taken)]

MEM_ReleasePages(m, handle) ==
    LET block == ToSet(Chain(m, handle))
    IN  [x \in Cells |-> IF x \in block THEN 0 ELSE m[x]]

\* Faulty variant: the pages that no longer belong to the block stay allocated.
Shrink_leaks(m, handle, n) == Link(m, SubSeq(Chain(m, handle), 1, n))

Shrink(m, handle, n) ==
    Link(MEM_ReleasePages(m, handle), SubSeq(Chain(m, handle), 1, n))

\* a block of consecutive pages grows where it is, or moves
Extend(m, handle, need) ==
    LET old == Chain(m, handle)
        more == [i \in 1..need |-> Last(old) + i]
        moved == MEM_AllocatePages(m, Len(old) + need, TRUE)
    IN  IF \A p \in ToSet(more) : p \in Pages /\ m[p] = 0
          THEN [ok |-> TRUE, handle |-> handle, m |-> Link(m, old \o more)]
        ELSE IF moved.handle = 0 THEN [ok |-> FALSE, handle |-> handle, m |-> m]
        ELSE [ok |-> TRUE, handle |-> moved.handle, m |-> MEM_ReleasePages(moved.m, handle)]

\* Faulty variant: a scattered block is moved, as a sequential one is.
Chained_moves(m, handle, need) == Extend(m, handle, need)

\* a scattered block has more pages chained to its last
Chained(m, handle, need) ==
    LET rest == MEM_AllocatePages(m, need, FALSE)
    IN  IF rest.handle = 0 THEN [ok |-> FALSE, handle |-> handle, m |-> m]
        ELSE [ok |-> TRUE, handle |-> handle,
              m |-> [rest.m EXCEPT ![Last(Chain(m, handle))] = rest.handle]]

MEM_ReAllocatePages(m, handle, n, sequence) ==
    LET had == Len(Chain(m, handle))
        new == MEM_AllocatePages(m, n, sequence)
    IN  IF handle <= 0
          THEN IF n = 0 THEN [ok |-> TRUE, handle |-> handle, m |-> m]
               ELSE [ok |-> new.handle # 0, handle |-> new.handle, m |-> new.m]
        ELSE IF n = 0 THEN [ok |-> TRUE, handle |-> -1, m |-> MEM_ReleasePages(m, handle)]
        ELSE IF had = n THEN [ok |-> TRUE, handle |-> handle, m |-> m]
        ELSE IF had > n THEN [ok |-> TRUE, handle |-> handle, m |-> Shrink(m, handle, n)]
        ELSE IF sequence THEN Extend(m, handle, n - had)
        ELSE Chained(m, handle, n - had)
=============================================================================
