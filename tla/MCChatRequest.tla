---------------------------- MODULE MCChatRequest ----------------------------
(* Instances of ChatRequest for TLC. *)
EXTENDS ChatRequest, TLC

\* Exchanges and ids are interchangeable in the run without liveness.
Symmetry == Permutations(Requests) \cup Permutations(RequestIds)
=============================================================================
