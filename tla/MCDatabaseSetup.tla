--------------------------- MODULE MCDatabaseSetup ---------------------------
(* Instances of DatabaseSetup for TLC. *)
EXTENDS DatabaseSetup

CONSTANTS old, new, next, edited, customer, stranger

Migration(name, sha) == [name |-> name, sha |-> sha]

\* The new release adds a migration that alters tables, the next one a migration that does
\* not; the edited one has a changed first migration.
ManifestOf == [r \in {old, new, next, edited} |->
  CASE r = old -> <<Migration(1, 1)>>
    [] r = new -> <<Migration(1, 1), Migration(2, 1)>>
    [] r = next -> <<Migration(1, 1), Migration(2, 1), Migration(3, 1)>>
    [] r = edited -> <<Migration(1, 2), Migration(2, 1)>>]

Job(r, i, b) == [release |-> r, want |-> i, bypass |-> b]
SomeConfigs == {Job(old, customer, FALSE), Job(new, customer, TRUE), Job(next, customer, FALSE),
                Job(edited, customer, FALSE), Job(new, stranger, FALSE)}
SomeDeployments == {[release |-> r, want |-> customer] : r \in {old, new, next, edited}}
                   \cup {[release |-> new, want |-> stranger]}
=============================================================================
