-------------------------- MODULE MCEmbeddingStore --------------------------
(* Instances of EmbeddingStore for TLC. *)
EXTENDS EmbeddingStore, TLC

\* Workers, ids, generations, profiles and vectors are interchangeable.
Symmetry == Permutations(Workers) \cup Permutations(OperationIds)
              \cup Permutations(Generations) \cup Permutations(Profiles)
              \cup Permutations(Vectors)
=============================================================================
