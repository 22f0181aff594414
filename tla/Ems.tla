--------------------------------- MODULE Ems ---------------------------------
(***************************************************************************)
(* The expanded memory of dosbox/src/ints/ems.cpp.  A handle owns logical  *)
(* pages, each of PerPage pages of memory that need not follow one         *)
(* another; a slot of the first megabyte, in the page frame or at another  *)
(* segment, shows a logical page.  Handle 0 belongs to the system.         *)
(*                                                                         *)
(* A call that returns an error changes nothing and is no step, except     *)
(* where noted.  Function 50h, which maps several pages, is several calls  *)
(* here.  Segments are multiples of 16 kilobytes.  Names, attributes,      *)
(* queries, moves and the protected mode side of VCPI are left out.        *)
(***************************************************************************)
EXTENDS MemHandles

CONSTANTS
    PerPage,          \* pages of memory in a logical page (4)
    EMM_MAX_HANDLES,
    Frame,            \* slots of the page frame (0..EMM_MAX_PHYS - 1)
    Segments,         \* slots elsewhere that ems_type allows
    SystemPages,      \* logical pages of the system handle (24)
    PageCounts,       \* numbers of logical pages guests ask for
    MaxSaved          \* bound: page maps that are saved at a time

ASSUME EmsAssumption ==
    /\ PerPage \in Nat \ {0} /\ EMM_MAX_HANDLES \in Nat \ {0, 1}
    /\ Frame \cap Segments = {} /\ PageCounts \subseteq Nat /\ MaxSaved \in Nat
    /\ SystemPages \in Nat \ {0}
    /\ SystemPages * PerPage <= Cardinality(Pages)

VARIABLES
    emm_handles,
    emm_mappings,     \* emm_mappings and emm_segmentmappings
    firstmb,          \* paging.firstmb: pages a slot shows; none, its own memory
    context,          \* the page map a guest saved in its own memory
    exited            \* left through E_Exit in EMM_ReallocatePages
emsVars == <<emm_handles, emm_mappings, firstmb, context, exited>>

NULL_HANDLE == -1
EmsHandles == 0..(EMM_MAX_HANDLES - 1)
Slots == Frame \cup Segments
Unmapped == [handle |-> NULL_HANDLE, page |-> NULL_HANDLE]
NoMap == <<>>
UnusedHandle == [pages |-> NULL_HANDLE, mem |-> 0, saved |-> NoMap]

ValidHandle(h) == h \in EmsHandles /\ emm_handles[h].pages # NULL_HANDLE
HasPage(mapping) ==
    ValidHandle(mapping.handle) /\ mapping.page < emm_handles[mapping.handle].pages

\* the pages of memory of a logical page, found along the chain of its handle
Shown(mapping) ==
    LET block == Chain(mhandles, emm_handles[mapping.handle].mem)
    IN  SubSeq(block, mapping.page * PerPage + 1, (mapping.page + 1) * PerPage)

\* The page tables have room, and the system handle gets its pages.
EmsInit ==
    /\ \E m \in AllFree :
          LET a == MEM_AllocatePages(m, SystemPages * PerPage, FALSE)
          IN  /\ mhandles = a.m
              /\ emm_handles = [h \in EmsHandles |->
                    IF h = 0 THEN [UnusedHandle EXCEPT !.pages = SystemPages, !.mem = a.handle]
                    ELSE UnusedHandle]
    /\ emm_mappings = [s \in Slots |-> Unmapped]
    /\ firstmb = [s \in Slots |-> <<>>]
    /\ context = NoMap
    /\ exited = FALSE

-----------------------------------------------------------------------------
(* Handles.                                                                *)

\* of no pages too (function 5Ah)
EMM_AllocateMemory(n) ==
    LET unused == {h \in EmsHandles \ {0} : ~ValidHandle(h)}
        a == MEM_AllocatePages(mhandles, n * PerPage, FALSE)
    IN  /\ MEM_FreeTotal(mhandles) \div PerPage >= n
        /\ unused # {}
        /\ emm_handles' = [emm_handles EXCEPT ![Min(unused)].pages = n, ![Min(unused)].mem = a.handle]
        /\ mhandles' = a.m
        /\ UNCHANGED <<emm_mappings, firstmb, context, exited>>

\* a handle without pages that gets none, or more than there are, ends the emulator
EMM_ReallocatePages(h, n) ==
    LET had == emm_handles[h].pages
        new == MEM_AllocatePages(mhandles, n * PerPage, FALSE)
        r == IF had # 0 THEN MEM_ReAllocatePages(mhandles, emm_handles[h].mem, n * PerPage, FALSE)
             ELSE [ok |-> new.handle # 0, handle |-> new.handle, m |-> new.m]
    IN  /\ ValidHandle(h)
        /\ had # 0 => r.ok
        /\ exited' = ~r.ok
        /\ IF r.ok
             THEN /\ emm_handles' = [emm_handles EXCEPT ![h].pages = n, ![h].mem = r.handle]
                  /\ mhandles' = r.m
             ELSE UNCHANGED <<emm_handles, mhandles>>
        /\ UNCHANGED <<emm_mappings, firstmb, context>>

\* slots that show the handle's pages go on showing them; so do saved page maps
EMM_ReleaseMemory(h) ==
    /\ ValidHandle(h)
    /\ mhandles' = MEM_ReleasePages(mhandles, emm_handles[h].mem)
    /\ emm_handles' = [emm_handles EXCEPT ![h] =
          IF h = 0 THEN [UnusedHandle EXCEPT !.pages = 0] ELSE UnusedHandle]
    /\ UNCHANGED <<emm_mappings, firstmb, context, exited>>

-----------------------------------------------------------------------------
(* Mapping.                                                                *)

\* EMM_MapPage, and EMM_MapSegment for a segment it allows
MapSlot(s, mapping) ==
    /\ mapping = Unmapped \/ HasPage(mapping)
    /\ emm_mappings' = [emm_mappings EXCEPT ![s] = mapping]
    /\ firstmb' = [firstmb EXCEPT ![s] = IF mapping = Unmapped THEN <<>> ELSE Shown(mapping)]
    /\ UNCHANGED <<mhandles, emm_handles, context, exited>>

\* EMM_RestoreMappingTable after a map was put back: every slot is mapped again; for
\* a page that is gone that fails, the error is dropped, and the slot stays as it was
RestoreMappingTable(map) ==
    /\ emm_mappings' = [s \in Slots |-> IF s \in DOMAIN map THEN map[s] ELSE emm_mappings[s]]
    /\ firstmb' = [s \in Slots |->
          IF emm_mappings'[s] = Unmapped THEN <<>>
          ELSE IF HasPage(emm_mappings'[s]) THEN Shown(emm_mappings'[s])
          ELSE firstmb[s]]

SavedMaps ==
    Cardinality({h \in EmsHandles : emm_handles[h].saved # NoMap})
      + (IF context = NoMap THEN 0 ELSE 1)

EMM_SavePageMap(h) ==
    /\ ValidHandle(h)
    /\ emm_handles[h].saved = NoMap
    /\ SavedMaps < MaxSaved
    /\ emm_handles' = [emm_handles EXCEPT ![h].saved = [s \in Frame |-> emm_mappings[s]]]
    /\ UNCHANGED <<mhandles, emm_mappings, firstmb, context, exited>>

EMM_RestorePageMap(h) ==
    /\ ValidHandle(h)
    /\ emm_handles[h].saved # NoMap
    /\ RestoreMappingTable(emm_handles[h].saved)
    /\ emm_handles' = [emm_handles EXCEPT ![h].saved = NoMap]
    /\ UNCHANGED <<mhandles, context, exited>>

\* functions 4Eh, for the frame, and 4Fh, for slots the guest lists; a guest
\* puts back once what it saved
SaveContext(listed) ==
    /\ SavedMaps < MaxSaved
    /\ context' = [s \in listed |-> emm_mappings[s]]
    /\ UNCHANGED <<mhandles, emm_handles, emm_mappings, firstmb, exited>>

RestoreContext ==
    /\ context # NoMap
    /\ RestoreMappingTable(context)
    /\ context' = NoMap
    /\ UNCHANGED <<mhandles, emm_handles, exited>>

\* what VCPI function 06h answers for page i of a slot of the frame
VcpiAddress(s, i) == Shown(emm_mappings[s])[1] + i - 1

EmsBlockCall ==
    \/ \E n \in PageCounts :
          EMM_AllocateMemory(n) \/ \E h \in EmsHandles : EMM_ReallocatePages(h, n)
    \/ \E h \in EmsHandles : EMM_ReleaseMemory(h)

EmsMapCall ==
    \/ \E s \in Slots :
          \/ MapSlot(s, Unmapped)
          \/ \E h \in EmsHandles : \E p \in 0..(emm_handles[h].pages - 1) :
                MapSlot(s, [handle |-> h, page |-> p])
    \/ \E h \in EmsHandles : EMM_SavePageMap(h) \/ EMM_RestorePageMap(h)
    \/ \E listed \in SUBSET Slots \ {{}} : SaveContext(listed)
    \/ RestoreContext
=============================================================================
