-------------------------- MODULE MCSharedNetwork ---------------------------
(* A small instance of SharedNetwork: every spell that finalises the Vcn. *)
EXTENDS SharedNetwork

StackPorts  == {8080}
StackSpells == SpellKinds \ {"Nsg", "serves"}
TenantKinds == {"ComputeInstance", "Bastion", "OkeCluster"}
=============================================================================
