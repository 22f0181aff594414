--------------------------------- MODULE Xms ---------------------------------
(***************************************************************************)
(* The extended memory blocks of dosbox/src/ints/xms.cpp.  A block is a    *)
(* run of consecutive pages, and its address is its handle in MemHandles   *)
(* times the size of a page; a guest that locks a block keeps that address.*)
(*                                                                         *)
(* Sizes are in kilobytes.  A call that returns an error changes nothing   *)
(* and is no step.  Moving memory, queries and the A20 line are left out;  *)
(* the calls for upper memory belong to the chain of DosMemory.            *)
(***************************************************************************)
EXTENDS MemHandles

CONSTANTS
    XMS_HANDLES, \* handles, 0 included, which is disabled
    Sizes,       \* sizes guests ask for
    MaxLock      \* the lock count that is not passed (255)

ASSUME XmsAssumption ==
    XMS_HANDLES \in Nat \ {0, 1} /\ Sizes \subseteq Nat /\ MaxLock \in Nat \ {0}

VARIABLE xms_handles

XmsHandles == 1..(XMS_HANDLES - 1)
FreeXms == {h \in XmsHandles : xms_handles[h].free}
UsedXms == XmsHandles \ FreeXms

XmsInit == xms_handles =
    [h \in XmsHandles |-> [size |-> 0, mem |-> -1, locked |-> 0, free |-> TRUE]]

PagesFor(size) == (size + 3) \div 4

-----------------------------------------------------------------------------

\* of nothing: the handle is a free page, which stays free
XMS_AllocateMemory(size) ==
    LET a == IF size # 0 THEN MEM_AllocatePages(mhandles, PagesFor(size), TRUE)
             ELSE [handle |-> BestMatch(mhandles, 1), m |-> mhandles]
    IN  /\ FreeXms # {}
        /\ size # 0 => a.handle # 0
        /\ xms_handles' = [xms_handles EXCEPT ![Min(FreeXms)] =
              [size |-> size, mem |-> a.handle, locked |-> 0, free |-> FALSE]]
        /\ mhandles' = a.m

\* locked or not
XMS_FreeMemory(h) ==
    /\ h \in UsedXms
    /\ mhandles' = MEM_ReleasePages(mhandles, xms_handles[h].mem)
    /\ xms_handles' = [xms_handles EXCEPT ![h].mem = -1, ![h].size = 0, ![h].free = TRUE]

XMS_LockMemory(h) ==
    /\ h \in UsedXms
    /\ xms_handles[h].locked < MaxLock
    /\ xms_handles' = [xms_handles EXCEPT ![h].locked = @ + 1]
    /\ UNCHANGED mhandles

XMS_UnlockMemory(h) ==
    /\ h \in UsedXms
    /\ xms_handles[h].locked > 0
    /\ xms_handles' = [xms_handles EXCEPT ![h].locked = @ - 1]
    /\ UNCHANGED mhandles

Resize(h, size) ==
    LET r == MEM_ReAllocatePages(mhandles, xms_handles[h].mem, PagesFor(size), TRUE)
    IN  /\ xms_handles' = [xms_handles EXCEPT
              ![h].mem = r.handle, ![h].size = IF r.ok THEN size ELSE @]
        /\ mhandles' = r.m

\* Faulty variant: a locked block is resized too.
XMS_ResizeMemory_locked(h, size) == h \in UsedXms /\ Resize(h, size)

XMS_ResizeMemory(h, size) ==
    /\ h \in UsedXms
    /\ xms_handles[h].locked = 0
    /\ Resize(h, size)

XmsCall ==
    \/ \E size \in Sizes : XMS_AllocateMemory(size)
    \/ \E h \in XmsHandles : \/ XMS_FreeMemory(h)
                             \/ XMS_LockMemory(h)
                             \/ XMS_UnlockMemory(h)
                             \/ \E size \in Sizes \cup {0} : XMS_ResizeMemory(h, size)
=============================================================================
