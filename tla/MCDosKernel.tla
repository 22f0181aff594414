---------------------------- MODULE MCDosKernel ----------------------------
(* An instance of DosKernel for TLC. *)
EXTENDS DosKernel

MCStrategies ==
    {[fit |-> "first", high |-> "low"], [fit |-> "best", high |-> "before"],
     [fit |-> "last", high |-> "only"]}
MCPrograms == {[minsize |-> 1, maxsize |-> 1], [minsize |-> 2, maxsize |-> Top]}
=============================================================================
