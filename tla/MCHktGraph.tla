---------------------------- MODULE MCHktGraph -----------------------------
(* Instances of HktGraph for TLC; the .cfg files give the constants.        *)
EXTENDS HktGraph, TLC

\* Ids, subjects, tags and addresses are interchangeable.
Symmetry ==
    Permutations(BehaviorId) \cup Permutations(SubjectId) \cup Permutations(Tag)
        \cup Permutations(Address)
=============================================================================
