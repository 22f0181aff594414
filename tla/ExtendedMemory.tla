--------------------------- MODULE ExtendedMemory ---------------------------
(***************************************************************************)
(* The three users of the pages of MemHandles together: blocks of extended *)
(* memory (Xms), expanded memory (Ems) and the single pages that VCPI      *)
(* hands out (dosbox/src/ints/ems.cpp, functions DE04h and DE05h).         *)
(*                                                                         *)
(* A guest gives back the VCPI pages it was given and no others, and asks  *)
(* for no block of extended memory of size 0 (NoEmptyBlocks): the handle   *)
(* of such a block is a page that stays free.                              *)
(***************************************************************************)
EXTENDS Xms, Ems

CONSTANTS
    Workloads,   \* which calls the guests of a behaviour make
    MaxVcpi,     \* bound: VCPI pages a guest holds
    MaxCalls     \* bound: calls of a behaviour

ASSUME NoEmptyBlocks == 0 \notin Sizes
ASSUME GuestAssumption ==
    /\ {MaxVcpi, MaxCalls} \subseteq Nat
    /\ Workloads \subseteq {"xms", "maps"}

VARIABLES
    vcpiPages,   \* pages the guest holds
    workload,
    calls        \* the number of calls made
vars == <<mhandles, xms_handles, emsVars, vcpiPages, workload, calls>>

VcpiAllocate ==
    LET a == MEM_AllocatePages(mhandles, 1, FALSE)
    IN  /\ Cardinality(vcpiPages) < MaxVcpi
        /\ a.handle # 0
        /\ mhandles' = a.m
        /\ vcpiPages' = vcpiPages \cup {a.handle}

VcpiFree(p) ==
    /\ mhandles' = MEM_ReleasePages(mhandles, p)
    /\ vcpiPages' = vcpiPages \ {p}

Init == EmsInit /\ XmsInit /\ vcpiPages = {} /\ workload \in Workloads /\ calls = 0

Next ==
    /\ ~exited
    /\ calls < MaxCalls
    /\ calls' = calls + 1
    /\ UNCHANGED workload
    /\ \/ workload = "xms" /\ XmsCall /\ UNCHANGED <<emsVars, vcpiPages>>
       \/ workload = "maps" /\ EmsMapCall /\ UNCHANGED <<xms_handles, vcpiPages>>
       \/ EmsBlockCall /\ UNCHANGED <<xms_handles, vcpiPages>>
       \/ /\ VcpiAllocate \/ \E p \in vcpiPages : VcpiFree(p)
          /\ UNCHANGED <<xms_handles, emsVars>>

Spec == Init /\ [][Next]_vars

-----------------------------------------------------------------------------
(* Properties.                                                             *)

XmsPages(h) == Chain(mhandles, xms_handles[h].mem)
EmsPages(h) == Chain(mhandles, emm_handles[h].mem)
UsedEms == {h \in EmsHandles : ValidHandle(h)}

\* Every page that is not free belongs to one block of one user, and to no other;
\* each block has the pages its handle says, and an XMS block has them in a row.
\* However the three allocate, resize and free, nothing is shared or lost.
PagesAccounted ==
    LET xms == [h \in UsedXms |-> XmsPages(h)]
        ems == [h \in UsedEms |-> EmsPages(h)]
        Owners(c) == Cardinality({h \in UsedXms : c \in ToSet(xms[h])})
                       + Cardinality({h \in UsedEms : c \in ToSet(ems[h])})
                       + Cardinality(vcpiPages \cap {c})
    IN  /\ \A c \in Cells : Owners(c) = IF mhandles[c] \in {0, Foreign} THEN 0 ELSE 1
        /\ \A h \in UsedXms :
              /\ Len(xms[h]) = PagesFor(xms_handles[h].size)
              /\ \A i \in DOMAIN xms[h] : xms[h][i] = xms[h][1] + i - 1
        /\ \A h \in UsedEms : Len(ems[h]) = emm_handles[h].pages * PerPage
        /\ \A p \in vcpiPages : mhandles[p] = -1

\* The array of links implements an allocator of pages to the handles of XMS and EMS
\* and to VCPI: a call that takes, moves or gives back pages is about one handle, takes
\* only pages that nobody had, and leaves the blocks of all the others as they are,
\* those of the other interfaces too.  Pages of somebody else stay so.
Users == ({"xms", "ems"} \X Nat) \cup {<<"vcpi", 0>>, <<"other", 0>>}
Holdings ==
    (UNION {{<<"xms", h>>} \X ToSet(XmsPages(h)) : h \in XmsHandles})
    \cup (UNION {{<<"ems", h>>} \X ToSet(EmsPages(h)) : h \in EmsHandles})
    \cup ({<<"vcpi", 0>>} \X vcpiPages)
    \cup ({<<"other", 0>>} \X {c \in Cells : mhandles[c] = Foreign})
Memory == INSTANCE Allocator WITH Units <- Cells, held <- Holdings
ImplementsAllocator == Memory!Spec

\* A locked block keeps its pages, and the address its owner was told, until it is
\* freed, whatever happens to the memory around it.
LockedStays ==
    [][\A h \in UsedXms :
          xms_handles[h].locked > 0 /\ ~xms_handles'[h].free
            => XmsPages(h)' = XmsPages(h)]_vars

\* A slot shows the logical page that is recorded for it.
Shows(s) == HasPage(emm_mappings[s]) /\ firstmb[s] = Shown(emm_mappings[s])

\* A slot goes on showing its page until the page is gone or the slot is mapped to
\* another, also while the handle grows, shrinks above it, or has its page maps
\* saved and put back.  A slot that is given a page shows it.
FrameKept ==
    [][\A s \in Slots :
          LET kept == emm_mappings'[s] = emm_mappings[s]
          IN  (IF kept THEN Shows(s) ELSE HasPage(emm_mappings[s])') /\ HasPage(emm_mappings[s])'
                => Shows(s)']_vars

\* "Page is in Pageframe, so check what EMS-page it is and return the physical
\* address" (ems.cpp:970-971): VCPI names the page of memory that the frame shows.
VcpiTellsAddress ==
    \A s \in Frame : Shows(s) => \A i \in 1..PerPage : VcpiAddress(s, i) = firstmb[s][i]
=============================================================================
