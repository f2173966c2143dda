------------------------------ MODULE MCEngine ------------------------------
(***************************************************************************)
(* Instances of Engine.  Two dimensions, one constrained in most resources *)
(* and one in few, stand for the six, which the code treats alike; three   *)
(* are the fewest in which two groups get one name although every WSA is   *)
(* scoped.                                                                 *)
(***************************************************************************)
EXTENDS PodWebhook

CONSTANTS space, v1, other, stale

\* Up to two values in one dimension, up to one in the others: overlapping,
\* disjoint, nested and equal scopes, and unscoped resources.
ManyScopes == {s \in WSAScope : \A d \in Dim \ {space} : s[d] \subseteq {v1}}

\* Unscoped, disjoint, nested and overlapping scopes in one dimension, and a
\* constraint in every dimension.
FewScopes ==
    {[d \in Dim |-> IF d = space THEN vs ELSE {}] : vs \in SUBSET Val}
    \cup {[d \in Dim |-> {v1}]}

\* The version variable missing, and given twice.
FewEnvironments ==
    LET old == [name |-> OPCVersionEnvVarKey, value |-> stale]
    IN  {<<>>, <<[name |-> other, value |-> stale], old, old>>}
=============================================================================
