------------------------------ MODULE FifoQueue ------------------------------
(***************************************************************************)
(* What a queue between two threads promises: what is given to it comes    *)
(* out once and in the order in which it was given; a queue that is served *)
(* (FairSpec) keeps nothing for good.                                      *)
(***************************************************************************)
EXTENDS Naturals, Sequences

CONSTANT Items

VARIABLES given, taken

vars == <<given, taken>>

Init == given = <<>> /\ taken = <<>>

Give ==
    /\ \E item \in Items : given' = Append(given, item)
    /\ UNCHANGED taken

Take ==
    /\ Len(taken) < Len(given)
    /\ taken' = Append(taken, given[Len(taken) + 1])
    /\ UNCHANGED given

Next == Give \/ Take

Spec == Init /\ [][Next]_vars

FairSpec == Spec /\ WF_vars(Take)
=============================================================================
