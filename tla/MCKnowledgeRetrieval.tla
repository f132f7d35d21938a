------------------------ MODULE MCKnowledgeRetrieval ------------------------
(* Instances of KnowledgeRetrieval for TLC. *)
EXTENDS KnowledgeRetrieval, TLC

\* Two generations with the contents of the bound one, one with others.
OddAndEven == [g \in Generations |-> IF g % 2 = 1 THEN "odd" ELSE "even"]

\* Operation ids are interchangeable.
Symmetry == Permutations(OperationIds)
=============================================================================
