----------------------------- MODULE Allocator -----------------------------
(***************************************************************************)
(* What a memory manager promises to those who use it: a unit of memory is *)
(* held by one user at most; a call changes what one user holds and leaves *)
(* the others alone; and what that user gains was nobody's, while its      *)
(* memory may move, grow, shrink or be given up in the same call.          *)
(*                                                                         *)
(* DosKernel implements it with the chain of memory control blocks, for    *)
(* processes and paragraphs, ExtendedMemory with the array of links of     *)
(* memory.cpp, for handles and pages.                                      *)
(***************************************************************************)
CONSTANTS
    Users,       \* those who hold memory
    Units        \* what it consists of: paragraphs, pages

VARIABLE held    \* the pairs of a user and a unit that it holds

\* No unit has two users.
Disjoint == \A a, b \in held : a[2] = b[2] => a = b

Init == held \subseteq Users \X Units /\ Disjoint

\* one call: what is gained or lost is one user's, and what is gained was nobody's
Next ==
    LET before == held
        after == held'
        gained == after \ before
        lost == before \ after
    IN  /\ gained \subseteq Users \X Units
        /\ \A a, b \in gained \cup lost : a[1] = b[1]
        /\ \A a \in gained, b \in before : a[2] # b[2]

Spec == Init /\ [][Next]_held
=============================================================================
