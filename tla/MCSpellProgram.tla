--------------------------- MODULE MCSpellProgram ---------------------------
(* A small instance of SpellProgram: relations between Nsgs. *)
EXTENDS SpellProgram, TLC

CONSTANTS n1, n2, n3

NsgNames  == {n1, n2, n3}
Symmetry  == Permutations(NsgNames)

RelationRoles  == {"INTERNET_EDGE", "APP_SERVER", "DATABASE"}
RelationPorts  == {22, 8080}
RelationSpells == {"Nsg", "serves", "ComputeInstance", "Bastion", "export"}
=============================================================================
