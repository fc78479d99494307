---------------------------- MODULE SharedNetwork ----------------------------
(***************************************************************************)
(* A VCN owned by one stack and used by others through VcnRef              *)
(* (providers/oci/network.py, docs/how-to/vcnref.md).                      *)
(*                                                                         *)
(* The owner writes a program of spells (SpellProgram) and deploys it, and *)
(* later another one, or a changed one.  Every pulumi up updates the four  *)
(* security lists one after the other and may stop in between.  A tenant   *)
(* reads the owner's exports and builds its spell on them: a VcnRef adds   *)
(* no rule, so the tenant relies on what the owner's placeholder wrote.    *)
(***************************************************************************)
EXTENDS SpellProgram, OkeNsgs

CONSTANTS
  TenantSpells,  \* kinds of spells the tenants build
  MaxTenants,    \* bound: how many tenants there are
  MaxWritten,    \* bound: spells of the owner's last and next program and stopped updates, together
  MaxStops       \* bound: updates that stop between two that succeed

ASSUME TenantAssumption == TenantSpells \subseteq SpellKinds \ {"export"}
ASSUME MaximaAssumption == {MaxTenants, MaxWritten, MaxStops} \subseteq Nat

VARIABLES
  deployed,  \* the owner's stack: its security lists, the spells written into them, its
             \* exports, and how many updates stopped since the last that succeeded
  tenants    \* spells that other stacks built on the VCN

sharedVars == <<vars, deployed, tenants>>

(***************************************************************************)
(* The owner                                                               *)
(***************************************************************************)

(* The next run of the owner's program starts from a new Vcn object. *)
NewProgram ==
  /\ lists'         = BagOf(VcnSeedRules)
  /\ applied'       = {}
  /\ finalized'     = FALSE
  /\ securityLists' = EmptyBag
  /\ created'       = 0
  /\ flowLogs'      = FALSE
  /\ outcome'       = "ok"
  /\ role'          = [n \in Nsgs |-> "absent"]
  /\ labels'        = [n \in Nsgs |-> {}]
  /\ built'         = EmptyBag

(* The program builds another spell. *)
WriteSpell ==
  /\ BagCardinality(built) + Cardinality(deployed.spells) + deployed.stops < MaxWritten
  /\ Next
  /\ UNCHANGED <<deployed, tenants>>

(* OCI does not delete a subnet that has a tenant's interfaces in it, so a
   program without subnets cannot replace one with. *)
Replaceable == finalized \/ tenants = {}

(* The program ran to its end and the update went through: the security lists
   and the exports are those of the program. *)
Up ==
  /\ outcome = "ok"
  /\ Replaceable
  /\ deployed' = [lists    |-> BagToSet(securityLists),
                  spells   |-> BagToSet(built),
                  exported |-> Built("export") # {},
                  stops    |-> 0]
  /\ NewProgram
  /\ UNCHANGED tenants

(* The update stopped (a resource failed, the program raised, the process was
   killed): some tiers have their new list and the others still the old one.
   Outputs are published at the end of an update, so the exports are the old
   ones. *)
UpStops ==
  /\ finalized
  /\ deployed.stops < MaxStops
  /\ \E tiers \in SUBSET Tiers :
       deployed' = [lists    |-> {r \in BagToSet(securityLists) : r.tier \in tiers}
                                   \cup {r \in deployed.lists : r.tier \notin tiers},
                    spells   |-> deployed.spells \cap BagToSet(built),
                    exported |-> deployed.exported,
                    stops    |-> deployed.stops + 1]
  /\ NewProgram
  /\ UNCHANGED tenants

(* A preview, or a program that never got to its subnets: nothing is deployed. *)
Abandon ==
  /\ built # EmptyBag \/ outcome # "ok"
  /\ NewProgram
  /\ UNCHANGED <<deployed, tenants>>

(***************************************************************************)
(* Tenants                                                                 *)
(***************************************************************************)

(* The registration calls a spell makes on a VcnRef: every constructor but that
   of OkeCluster looks first whether its vcn is a live Vcn. *)
RefCalls(s) == IF s.kind = "OkeCluster" THEN CallsOf(s) ELSE <<>>

(* VcnRef.add_security_list_rules raises on a rule; add_unique_security_list_rules
   ignores its arguments, and so does finalize_network. *)
RefRejects(calls) == \E i \in DOMAIN calls : calls[i].fp = NoFingerprint /\ calls[i].rules # <<>>

(* VcnRef.from_stack_reference, then the spell.  Without exports the reference
   yields no subnet and the tenant's update fails. *)
Tenant(s) ==
  /\ deployed.exported
  /\ Cardinality(tenants) < MaxTenants
  /\ ~RefRejects(RefCalls(s))
  /\ tenants' = tenants \cup {s}
  /\ UNCHANGED <<vars, deployed>>

-----------------------------------------------------------------------------

SharedInit ==
  /\ Init
  /\ deployed = [lists |-> {}, spells |-> {}, exported |-> FALSE, stops |-> 0]
  /\ tenants  = {}

(* What a tenant may be asked for: the same spells as the owner. *)
TenantChoices ==
  {s \in
     {Spell("ComputeInstance", tier, "", <<>>, FALSE) : tier \in Tiers}
       \cup {Spell("Bastion", "private", "", <<>>, FALSE)}
       \cup {Spell("ScalableWorkload", "private", "", <<port>>, public) :
               port \in Ports, public \in BOOLEAN}
       \cup {Spell("LoadBalancer", "public", "private", <<port>>, FALSE) : port \in Ports}
       \cup {Spell("InternalLoadBalancer", "private", "private", <<port>>, FALSE) : port \in Ports}
       \cup {Spell("OkeCluster", "private", "public", <<>>, kubectl) : kubectl \in BOOLEAN}
       \cup {Spell("VcnFlowLogs", "", "", <<>>, FALSE)} :
   s.kind \in TenantSpells}

SharedNext ==
  \/ WriteSpell
  \/ Up
  \/ UpStops
  \/ Abandon
  \/ \E s \in TenantChoices : Tenant(s)

SharedSpec == SharedInit /\ [][SharedNext]_sharedVars

-----------------------------------------------------------------------------

(* Values of the variables; only an owner that wrote its subnets has exports. *)
SharedTypeOK ==
  /\ TypeOK
  /\ deployed.lists \subseteq SpellRule(Ports)
  /\ \A s \in deployed.spells : s.kind \in SpellKinds \cup {"late ComputeInstance"}
  /\ deployed.exported \in BOOLEAN /\ deployed.stops \in 0..MaxStops
  /\ tenants \subseteq TenantChoices

(* The documented workflow ("include the spell you intend to deploy here (even
   if it is a placeholder), so its rules are written to the security lists",
   docs/how-to/vcnref.md) works: as long as the owner keeps a tenant's spell in
   its program, and had not added it after the finalisation, the deployed lists
   let the tenant's traffic through, after failed updates as well. *)
TenantsServed ==
  \A t \in tenants \cap deployed.spells : \A need \in SpellNeeds(t) :
    Admits(deployed.lists, need[1], need[2], need[3], need[4])

(* The two layers of an OKE cluster agree: every rule between two of its groups
   has its other end, and everything the groups let through between subnets, to
   the services, the internet and the administrators is let through by the
   security lists OCI was given.  Both layers open the API to the CIDRs of
   kubectl_allowed_cidrs and to nobody else, as the constructor documents and
   tests/test_oke.py expects; docs/reference/oke-architecture.md has it open to the
   internet. *)
OkeLayersAgree ==
  \A s \in Built("OkeCluster") :
    LET rules == OkeNsgRules(s.opt) IN
    /\ Reciprocal(rules)
    /\ \A r \in rules : AdmittedBySubnet(r, BagToSet(securityLists))
=============================================================================
