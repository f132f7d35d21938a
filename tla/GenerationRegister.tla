------------------------- MODULE GenerationRegister -------------------------
(***************************************************************************)
(* What the publication of a knowledge index promises to its callers,      *)
(* without transactions, locks, retries or failures: one register per      *)
(* namespace holds the active generation, an operation id decides one      *)
(* change of one register, at most once, and every caller that is given a  *)
(* result for an operation id is given the decision taken for it.          *)
(***************************************************************************)
CONSTANTS
  Namespaces,     \* the namespaces of one customer's knowledge database
  OperationIds,   \* the idempotency keys callers choose
  Generations,    \* generation ids
  NoGeneration    \* the register before the first publication

VARIABLES
  current,        \* namespace -> the active generation
  decisions,      \* the decisions taken
  answered        \* the decisions some caller has been given

vars == <<current, decisions, answered>>

Decision == [op: OperationIds, ns: Namespaces,
             previous: Generations \cup {NoGeneration}, activated: Generations]

Init == /\ current = [ns \in Namespaces |-> NoGeneration]
        /\ decisions = {}
        /\ answered = {}

\* Operation op moves the register of ns to g, and this is recorded with it.
Decide(op, ns, g) ==
  /\ \A d \in decisions : d.op # op
  /\ g # current[ns]
  /\ current' = [current EXCEPT ![ns] = g]
  /\ decisions' = decisions \cup
       {[op |-> op, ns |-> ns, previous |-> current[ns], activated |-> g]}
  /\ UNCHANGED answered

\* A caller is given the decision of its operation, now or on a later replay.
Answer(d) == /\ d \in decisions
             /\ answered' = answered \cup {d}
             /\ UNCHANGED <<current, decisions>>

Next == \/ \E op \in OperationIds, ns \in Namespaces, g \in Generations : Decide(op, ns, g)
        \/ \E d \in decisions : Answer(d)

Spec == Init /\ [][Next]_vars
=============================================================================
