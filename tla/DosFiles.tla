------------------------------ MODULE DosFiles ------------------------------
(***************************************************************************)
(* Open files of dosbox/src/dos/dos_files.cpp and the handle tables of the *)
(* processes (dos_classes.cpp): which handle names which entry of Files,   *)
(* and how many references each entry counts.                              *)
(*                                                                         *)
(* A file is closed and its entry freed with its last reference.  Which    *)
(* file or device is opened does not matter here, nor what is read and     *)
(* written; a call that fails before it changes anything is left out, and  *)
(* so are files opened through FCBs, which have no handle.                 *)
(***************************************************************************)
EXTENDS Integers, FiniteSets

CONSTANTS
    DOS_FILES,     \* entries of Files
    TableSize,     \* handles of a new process, 20
    LongTables     \* sizes of the longer tables a program may ask for

Entries == 0..(DOS_FILES - 1)
Closed == 255      \* the handle FFh, which names no file
NoFile == [refs |-> 0, open |-> FALSE, inherit |-> FALSE]

ASSUME FilesAssumption ==
    /\ DOS_FILES \in Nat /\ 0 < DOS_FILES /\ DOS_FILES <= Closed
    /\ TableSize \in Nat /\ 0 < TableSize
    /\ \A n \in LongTables : n \in Nat /\ n > TableSize

VARIABLES
    Files,         \* for each entry: refCtr, open and inheritance; or NoFile
    tables,        \* for each process: its handle table
    lost           \* history: references whose handle was dropped, by entry
fileVars == <<Files, tables, lost>>

Named(table, f) == {i \in DOMAIN table : table[i] = f}

\* the lowest free one, for Files and for a table
FreeFile == {f \in Entries : Files[f] = NoFile /\ \A g \in 0..(f - 1) : Files[g] # NoFile}
FreeHandle(table) ==
    {i \in DOMAIN table : table[i] = Closed /\ \A j \in 0..(i - 1) : table[j] # Closed}

-----------------------------------------------------------------------------
(* References, on the value files of Files.                                *)

AddRef(files, f) == [files EXCEPT ![f].refs = @ + 1]

\* Faulty variant: the file is closed with any of its handles.
RemoveRef_closes(files, f) ==
    [files EXCEPT ![f] = IF @.refs <= 1 THEN NoFile
                         ELSE [@ EXCEPT !.refs = @ - 1, !.open = FALSE]]

\* an entry that loses n references: the host's file is closed and the entry
\* freed with the last one
Release(file, n) == IF file.refs <= n THEN NoFile ELSE [file EXCEPT !.refs = @ - n]

RemoveRef(files, f) == [files EXCEPT ![f] = Release(@, 1)]

\* what a process with this table adds and, when it ends, removes
InheritRefs(files, table) ==
    [f \in Entries |-> [files[f] EXCEPT !.refs = @ + Cardinality(Named(table, f))]]

\* DOS_PSP::CloseFiles
CloseRefs(files, table) ==
    [f \in Entries |->
        LET n == Cardinality(Named(table, f))
        IN  IF n = 0 THEN files[f] ELSE Release(files[f], n)]

-----------------------------------------------------------------------------
(* The functions of interrupt 21h, called by the process psp.              *)

CanOpen(psp) == FreeFile # {} /\ FreeHandle(tables[psp]) # {}

\* DOS_OpenFile and DOS_CreateFile; DOS_OpenFileExtended ends in one of
\* them, or opens and then fails with the handle left open
DOS_OpenFile(psp, inherit) ==
    \E f \in FreeFile, i \in FreeHandle(tables[psp]) :
        /\ Files' = [Files EXCEPT ![f] = [refs |-> 1, open |-> TRUE, inherit |-> inherit]]
        /\ tables' = [tables EXCEPT ![psp][i] = f]
        /\ UNCHANGED lost

DOS_CloseFile(psp, i) ==
    /\ tables[psp][i] # Closed
    /\ Files' = RemoveRef(Files, tables[psp][i])
    /\ tables' = [tables EXCEPT ![psp][i] = Closed]
    /\ UNCHANGED lost

\* Faulty variant: the new handle takes no reference.
DuplicateEntry_uncounted(psp, i) ==
    /\ tables[psp][i] # Closed
    /\ \E j \in FreeHandle(tables[psp]) :
          tables' = [tables EXCEPT ![psp][j] = tables[psp][i]]
    /\ UNCHANGED <<Files, lost>>

DOS_DuplicateEntry(psp, i) ==
    /\ tables[psp][i] # Closed
    /\ \E j \in FreeHandle(tables[psp]) :
          /\ Files' = AddRef(Files, tables[psp][i])
          /\ tables' = [tables EXCEPT ![psp][j] = tables[psp][i]]
    /\ UNCHANGED lost

\* a handle j beyond the table takes a reference and is not set
DOS_ForceDuplicateEntry(psp, i, j) ==
    LET f == tables[psp][i]
        old == IF j \in DOMAIN tables[psp] THEN tables[psp][j] ELSE Closed
        rest == IF old = Closed THEN Files ELSE RemoveRef(Files, old)
    IN  /\ i # j /\ f # Closed
        /\ Files' = AddRef(rest, f)
        /\ IF j \in DOMAIN tables[psp]
             THEN tables' = [tables EXCEPT ![psp][j] = f] /\ UNCHANGED lost
             ELSE lost' = [lost EXCEPT ![f] = @ + 1] /\ UNCHANGED tables

\* A longer table takes the first handles of the old one, and never more than
\* a new process has; a shorter one drops the handles beyond its end.  Two
\* places are added for safety.
SetNumFiles(psp, asked) ==
    LET old == tables[psp]
        n == IF asked < TableSize THEN TableSize ELSE asked
        grows == n > TableSize /\ n + 2 > Cardinality(DOMAIN old)
        kept == 0..((IF grows THEN TableSize ELSE n) - 1)
        new == [i \in 0..((IF grows THEN n + 2 ELSE n) - 1) |->
                    IF i \in kept /\ i \in DOMAIN old THEN old[i] ELSE Closed]
    IN  /\ tables' = [tables EXCEPT ![psp] = new]
        /\ lost' = [f \in Entries |->
                       lost[f] + Cardinality({i \in Named(old, f) : i \notin kept})]
        /\ UNCHANGED Files

-----------------------------------------------------------------------------
(* What processes do to files.                                             *)

NewTable == [i \in 0..(TableSize - 1) |-> Closed]

\* DOS_PSP::CopyFileTable for a child
Inherited(table) ==
    [i \in DOMAIN NewTable |->
        IF table[i] # Closed /\ Files[table[i]].inherit THEN table[i] ELSE Closed]

InheritFiles(psp, child) ==
    LET table == Inherited(tables[psp])
    IN  /\ Files' = InheritRefs(Files, table)
        /\ tables' = [p \in DOMAIN tables \cup {child} |->
                         IF p = child THEN table ELSE tables[p]]
        /\ UNCHANGED lost

\* Faulty variant: the handles of the ended process go on naming its files.
CloseFiles_keeps(psp) ==
    /\ Files' = CloseRefs(Files, tables[psp])
    /\ UNCHANGED <<tables, lost>>

CloseFiles(psp) ==
    /\ Files' = CloseRefs(Files, tables[psp])
    /\ tables' = [p \in DOMAIN tables \ {psp} |-> tables[p]]
    /\ UNCHANGED lost

\* the shell's standard input is open
FilesInit(shell) ==
    /\ Files = [f \in Entries |-> IF f = 0 THEN [refs |-> 1, open |-> TRUE, inherit |-> TRUE]
                                  ELSE NoFile]
    /\ tables = [p \in {shell} |-> [NewTable EXCEPT ![0] = 0]]
    /\ lost = [f \in Entries |-> 0]

-----------------------------------------------------------------------------
(* Properties.                                                             *)

Handles == UNION {{psp} \X DOMAIN tables[psp] : psp \in DOMAIN tables}
NamesOf(f) == {h \in Handles : tables[h[1]][h[2]] = f}

\* Every reference to a file is a handle of a process, or one of those that
\* SetNumFiles and a duplicate beyond the table are known to drop: no entry of
\* Files is freed, and given to another file, while a handle still names it,
\* and none stays occupied after its last handle is closed.
RefsCounted ==
    \A f \in Entries : Files[f].refs = Cardinality(NamesOf(f)) + lost[f]

\* A file is closed on the host only with its last handle: the others, of the
\* same process or of its children, go on working.
SharedStaysOpen ==
    \A f \in Entries : NamesOf(f) # {} => Files[f].open
=============================================================================
