-------------------------- MODULE EmbeddingRegister --------------------------
(***************************************************************************)
(* What the storage of embeddings promises, without transactions, keys or  *)
(* failures: a generation has at most one ready embedding set for each     *)
(* profile, an operation id makes at most one set, and a caller that is    *)
(* given a result for its operation id is given the set made for it.       *)
(***************************************************************************)
CONSTANTS
  OperationIds,   \* the idempotency keys of materialisations
  Generations,    \* generation ids
  Profiles,       \* embedding profiles
  Vectors         \* what a provider can return for all chunks of a generation

VARIABLES
  sets,           \* the ready sets
  completed,      \* operation id and set of the materialisations
  returned        \* those some caller has been given

vars == <<sets, completed, returned>>

EmbeddingSet == [gen: Generations, profile: Profiles, vectors: Vectors]

Init == sets = {} /\ completed = {} /\ returned = {}

\* Operation op makes set s, the first of its generation and profile.
Materialize(op, s) ==
  /\ \A c \in completed : c.op # op
  /\ \A t \in sets : t.gen # s.gen \/ t.profile # s.profile
  /\ sets' = sets \cup {s}
  /\ completed' = completed \cup {[op |-> op, set |-> s]}
  /\ UNCHANGED returned

\* A caller is given the result of its operation.
Answer(c) == /\ c \in completed
             /\ returned' = returned \cup {c}
             /\ UNCHANGED <<sets, completed>>

Next == \/ \E op \in OperationIds, s \in EmbeddingSet : Materialize(op, s)
        \/ \E c \in completed : Answer(c)

Spec == Init /\ [][Next]_vars
=============================================================================
