----------------------------- MODULE MCStaging -----------------------------
(***************************************************************************)
(* Staging on small instances: a WSA and a CWSA, or two WSAs that share a  *)
(* role, and two specs that differ in the account they need.               *)
(***************************************************************************)
EXTENDS Staging, TLC

CONSTANTS s1, s2, p1, p2, w1, w2

\* Two accounts, one set of rules: WSAs may share the account and the role.
SharedRules == {[scope |-> s1, rules |-> p1], [scope |-> s2, rules |-> p1]}

\* Both change together.
BothDiffer == {[scope |-> s1, rules |-> p1], [scope |-> s2, rules |-> p2]}

\* A state constraint: two of the names, and one failure or restart.
TwoNamesOneFault ==
    /\ Cardinality(created) <= 2
    /\ bounds.faults + bounds.crashes <= 1

\* An action constraint on users and failures alone, so that no step the
\* controller must take is cut: w2 needs the account that is taken, only w1 is
\* deleted, and either w2 or failures get in its way.
OneConflict ==
    /\ \A w \in DOMAIN wsas \cap DOMAIN wsas' : wsas'[w].spec = wsas[w].spec
    /\ w2 \in DOMAIN wsas => w2 \in DOMAIN wsas' /\ ~wsas'[w2].deleting
    /\ w2 \in DOMAIN wsas' => wsas'[w2].spec.scope = s2 /\ bounds'.faults + bounds'.crashes = 0

\* The two WSAs, and the two specs of BothDiffer, are alike.
Symmetric ==
    {names @@ specs : names \in Permutations({w1, w2}),
                      specs \in {s1 :> s1 @@ s2 :> s2 @@ p1 :> p1 @@ p2 :> p2,
                                 s1 :> s2 @@ s2 :> s1 @@ p1 :> p2 @@ p2 :> p1}}
=============================================================================
