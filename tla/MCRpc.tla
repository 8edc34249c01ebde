------------------------------- MODULE MCRpc -------------------------------
(* Instances of Rpc for TLC; the .cfg files give the constants.            *)
EXTENDS Rpc, TLC

CONSTANT p1   \* the one proxy of the instances

MCOwner == [x \in Call \cup Request |-> p1]

\* A group, and the number that a session holds before it knows its group.
MCGroups == {NoGroup, 1}

\* Workers and requests are interchangeable; used by the run that checks safety.
Symmetry == Permutations(Worker) \cup Permutations(Request)
=============================================================================
