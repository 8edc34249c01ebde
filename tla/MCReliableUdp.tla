--------------------------- MODULE MCReliableUdp ---------------------------
(* Instances of ReliableUdp for TLC; the .cfg files give the constants.    *)
EXTENDS ReliableUdp, TLC

\* Endpoints, groups and payloads are interchangeable; used by the runs that
\* check safety only.
Symmetry ==
    Permutations(Addr) \cup Permutations(GroupId) \cup Permutations(Payload)
=============================================================================
