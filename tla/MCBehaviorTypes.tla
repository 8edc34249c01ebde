-------------------------- MODULE MCBehaviorTypes --------------------------
(* HktBase registers two types; the other image uses types of both.        *)
EXTENDS BehaviorTypes, TLC

CONSTANTS game, sample, move, attack

MCRegistrars == [i \in Image |-> IF i = Base THEN <<sample, move>> ELSE <<>>]
=============================================================================
