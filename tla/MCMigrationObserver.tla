------------------------- MODULE MCMigrationObserver -------------------------
(* Instances of MigrationObserver for TLC. *)
EXTENDS MigrationObserver, TLC

CONSTANTS t1, t2, a1, a2

TwoTokens == {t1, t2}
TwoAttempts == {a1, a2}
SameAttempts == Permutations(TwoAttempts)

\* A sound bootstrap, and one past the proxy without metadata.
Sound == [ingress |-> "trusted", key |-> "client", metadata |-> TRUE]
Compat == [ingress |-> "compat", key |-> "client", metadata |-> FALSE]

TwoShapes == {Sound, Compat}
OneInventory == {{t1}}
=============================================================================
