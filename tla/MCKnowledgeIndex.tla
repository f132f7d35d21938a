-------------------------- MODULE MCKnowledgeIndex --------------------------
(* Instances of KnowledgeIndex for TLC. *)
EXTENDS KnowledgeIndex, TLC

\* Callers, namespaces, contents and operation ids are interchangeable.
Symmetry == Permutations(Callers) \cup Permutations(Namespaces)
              \cup Permutations(Documents) \cup Permutations(OperationIds)
=============================================================================
