------------------------- MODULE MCSessionLifecycle -------------------------
(* Small instances of SessionLifecycle for TLC.                            *)
EXTENDS SessionLifecycle, TLC

\* Every setting, the default (neither) included; everything configured.
MCMail  == [key : BOOLEAN, admin : BOOLEAN]
MCSends == {[key |-> TRUE, admin |-> TRUE]}

Symm == Permutations(Requests) \cup Permutations(Chains) \cup Permutations(Reviews)
=============================================================================
