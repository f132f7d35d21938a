---------------------------- MODULE MCLeaveListing ----------------------------
(* Instances of LeaveListing for TLC. *)
EXTENDS LeaveListing, TLC

CONSTANTS whole, partial, nobody, pending, closed

\* An employee's requests, those of a narrower set of legal entities, and a
\* context without legal entity.
OwnedByScope == [s \in Scopes |-> CASE s = whole -> RequestIds
                                    [] s = partial -> {id \in RequestIds : id % 2 = 0}
                                    [] s = nobody -> {}]

AllOrPending == {{}, {pending}}

Symmetry == Permutations(Keys)
=============================================================================
