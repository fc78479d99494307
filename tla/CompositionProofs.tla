------------------------- MODULE CompositionProofs --------------------------
(***************************************************************************)
(* Theorems about the two systems that are made of spells: a VCN that one  *)
(* stack owns and others use (SharedNetwork: what the owner's programs,    *)
(* its updates, the ones that stop included, and its tenants keep true),   *)
(* and the programs that CloudSpells ships (SpellTemplates: the networks   *)
(* they build).  Both rest on what SpellProgramProofs proves of spells.    *)
(***************************************************************************)
EXTENDS SharedNetwork, SpellTemplates, SpellProgramProofs

-----------------------------------------------------------------------------
(* Programs *)

(* Every step of the system is a step of the owner's program, or starts a new
   one. *)
LEMMA SharedSplits ==
  ASSUME [SharedNext]_sharedVars
  PROVE  [Next]_vars \/ NewProgram
  BY DEF SharedNext, sharedVars, WriteSpell, Up, UpStops, Abandon, Tenant

(* A new program starts as the first one did. *)
LEMMA NewProgramInit == NewProgram => Init'
  BY DEF NewProgram, Init, VcnInit

(* The invariant of a program holds of every program the owner writes. *)
THEOREM OwnerInvariant == SharedSpec => []ProgramInv
<1>1. Init => ProgramInv
  BY ProgramInit
<1>2. NewProgram => ProgramInv'
  BY <1>1, NewProgramInit, PTL
<1>3. ProgramInv /\ [SharedNext]_sharedVars => ProgramInv'
  BY <1>2, SharedSplits, ProgramStep
<1> QED BY <1>1, <1>3, PTL DEF SharedSpec, SharedInit

(* So does the stronger one, as long as a program ends with its first exception. *)
THEOREM OwnerSound ==
  ASSUME CatchErrors = FALSE
  PROVE  SharedSpec => [](ProgramInv /\ Registered /\ Accounted)
<1> DEFINE Sound == ProgramInv /\ Registered /\ Accounted
<1>1. Init => Sound
  BY ProgramInit, RulesInit
<1>2. NewProgram => Sound'
  <2>1. Init => Sound
    BY ProgramInit, RulesInit
  <2> HIDE DEF Sound
  <2> QED BY <2>1, NewProgramInit, PTL
<1>3. Sound /\ [SharedNext]_sharedVars => Sound'
  <2>1. Sound /\ [Next]_vars => Sound'
    BY ProgramStep, SoundStep
  <2> HIDE DEF Sound
  <2> QED BY <1>2, <2>1, SharedSplits
<1> QED BY <1>1, <1>3, PTL DEF SharedSpec, SharedInit

(* Whatever the owner deployed before, the program it writes next serves its own
   spells and opens to the internet only what they asked for. *)
THEOREM OwnerSpellsServed ==
  ASSUME CatchErrors = FALSE
  PROVE  SharedSpec => []SpellsServed
  BY OwnerSound, SoundServes, PTL

(* And nothing is open to the internet that a spell of the owner's program did not
   ask for, whatever was deployed before (network-topology.md). *)
THEOREM OwnerExposure ==
  ASSUME CatchErrors = FALSE
  PROVE  SharedSpec => []ExposureExplained
  BY OwnerSound, SoundExposes, PTL

(* ... and its security lists do not depend on the order of the spells in it
   ("rule accumulation is order-independent within a stack",
   docs/concepts/design.md): every program starts counting anew. *)
THEOREM OwnerListsIgnoreOrder ==
  ASSUME CatchErrors = FALSE
  PROVE  SharedSpec => []OrderIndependent
<1> DEFINE Inv == ProgramInv /\ Counted
<1>1. Init => Inv
  BY ProgramInit, CountedInit
<1>2. NewProgram => Inv'
  <2>1. Init => Inv
    BY <1>1
  <2> HIDE DEF Inv
  <2> QED BY <2>1, NewProgramInit, PTL
<1>3. Inv /\ [SharedNext]_sharedVars => Inv'
  <2>1. Inv /\ [Next]_vars => Inv'
    BY ProgramStep, CountedStep
  <2> HIDE DEF Inv
  <2> QED BY <1>2, <2>1, SharedSplits
<1>4. Inv => OrderIndependent
  BY DEF Counted, OrderIndependent
<1> QED BY <1>1, <1>3, <1>4, PTL DEF SharedSpec, SharedInit

-----------------------------------------------------------------------------
(* Types *)

(* What the owner deployed: rules and spells of its programs. *)
DeployedTyped ==
  /\ deployed.lists \subseteq SpellRule(Ports)
  /\ \A s \in deployed.spells : Permitted(s)
  /\ deployed.exported \in BOOLEAN /\ deployed.stops \in 0..MaxStops
  /\ tenants \subseteq TenantChoices

(* Nothing is deployed at first. *)
LEMMA NothingDeployed == SharedInit => DeployedTyped
<1> SUFFICES ASSUME SharedInit PROVE DeployedTyped
  OBVIOUS
<1>1. /\ deployed.lists = {} /\ deployed.spells = {} /\ deployed.exported = FALSE
      /\ deployed.stops = 0 /\ tenants = {}
  BY DEF SharedInit
<1>2. 0 \in 0..MaxStops
  BY MaximaAssumption
<1> QED BY <1>1, <1>2 DEF DeployedTyped

(* An update deploys rules and spells of the program. *)
LEMMA DeployedStep ==
  ASSUME ProgramInv, DeployedTyped, [SharedNext]_sharedVars
  PROVE  DeployedTyped'
<1>1. BagToSet(securityLists) \subseteq SpellRule(Ports) /\ \A s \in BagToSet(built) : Permitted(s)
  BY DEF ProgramInv, VcnInv, VcnTypeOK
<1>2. MaxStops \in Nat
  BY MaximaAssumption
<1>3. CASE UNCHANGED <<deployed, tenants>>
  BY <1>3 DEF DeployedTyped
<1>4. CASE Up
  <2>1. /\ deployed'.lists = BagToSet(securityLists) /\ deployed'.spells = BagToSet(built)
        /\ deployed'.exported = (Built("export") # {}) /\ deployed'.stops = 0 /\ tenants' = tenants
    BY <1>4 DEF Up
  <2>2. deployed'.exported \in BOOLEAN /\ deployed'.stops \in 0..MaxStops
    BY <1>2, <2>1
  <2> QED BY <1>1, <2>1, <2>2 DEF DeployedTyped
<1>5. CASE UpStops
  <2>1. PICK tiers \in SUBSET Tiers :
          deployed' = [lists    |-> {r \in BagToSet(securityLists) : r.tier \in tiers}
                                      \cup {r \in deployed.lists : r.tier \notin tiers},
                       spells   |-> deployed.spells \cap BagToSet(built),
                       exported |-> deployed.exported,
                       stops    |-> deployed.stops + 1]
    BY <1>5 DEF UpStops
  <2>2. /\ deployed'.lists \subseteq BagToSet(securityLists) \cup deployed.lists
        /\ deployed'.spells \subseteq deployed.spells
        /\ deployed'.exported = deployed.exported /\ deployed'.stops = deployed.stops + 1
    BY <2>1
  <2>3. deployed.stops < MaxStops /\ tenants' = tenants
    BY <1>5 DEF UpStops
  <2>4. deployed'.stops \in 0..MaxStops
    BY <1>2, <2>2, <2>3 DEF DeployedTyped
  <2> QED BY <1>1, <2>2, <2>3, <2>4 DEF DeployedTyped
<1>6. CASE \E s \in TenantChoices : Tenant(s)
  <2>1. deployed' = deployed /\ tenants' \subseteq tenants \cup TenantChoices
    BY <1>6 DEF Tenant
  <2>2. TenantChoices' = TenantChoices
    BY DEF TenantChoices
  <2> QED BY <2>1, <2>2 DEF DeployedTyped
<1> QED BY <1>3, <1>4, <1>5, <1>6 DEF SharedNext, sharedVars, WriteSpell, Abandon

(* Every variable of the shared network keeps its type. *)
THEOREM SharedTypeCorrect == SharedSpec => []SharedTypeOK
<1>1. ProgramInv /\ DeployedTyped => SharedTypeOK
  BY ProgramTyped, SpellsAssumption DEF DeployedTyped, Permitted, SharedTypeOK
<1>2. SharedSpec => []DeployedTyped
  BY NothingDeployed, DeployedStep, OwnerInvariant, PTL DEF SharedSpec
<1> QED BY <1>1, <1>2, OwnerInvariant, PTL

-----------------------------------------------------------------------------
(* Tenants *)

(* A rule of one tier's list admits traffic of that tier only, so replacing the
   lists tier by tier loses nothing that both the old and the new lists admit. *)
LEMMA TierByTier ==
  ASSUME NEW old, NEW new, NEW tiers, NEW dir, NEW tier, NEW port, NEW peer,
         Admits(old, dir, tier, port, peer), Admits(new, dir, tier, port, peer)
  PROVE  Admits({r \in new : r.tier \in tiers} \cup {r \in old : r.tier \notin tiers},
                dir, tier, port, peer)
  BY DEF Admits

(* TenantsServed is inductive when it speaks of every deployed spell, not only
   of those that a tenant uses so far. *)
DeployedServed == \A s \in deployed.spells : Served(s, deployed.lists)

(* A deployment, whole or stopped half-way, keeps the deployed spells served: one that
   the old lists and the new ones both serve is served by any mix of whole lists. *)
LEMMA ServedStep ==
  ASSUME ProgramInv, Registered, DeployedServed, [SharedNext]_sharedVars
  PROVE  DeployedServed'
<1>1. \A s \in BagToSet(built) : Served(s, BagToSet(securityLists))
  BY BuiltServed
<1>2. CASE UNCHANGED deployed
  BY <1>2 DEF DeployedServed, Served, SpellNeeds
<1>3. CASE Up
  <2>1. deployed'.lists = BagToSet(securityLists) /\ deployed'.spells = BagToSet(built)
    BY <1>3 DEF Up
  <2> QED BY <1>1, <2>1 DEF DeployedServed
<1>4. CASE UpStops
  <2>1. PICK tiers \in SUBSET Tiers :
          deployed' = [lists    |-> {r \in BagToSet(securityLists) : r.tier \in tiers}
                                      \cup {r \in deployed.lists : r.tier \notin tiers},
                       spells   |-> deployed.spells \cap BagToSet(built),
                       exported |-> deployed.exported,
                       stops    |-> deployed.stops + 1]
    BY <1>4 DEF UpStops
  <2> DEFINE mix == {r \in BagToSet(securityLists) : r.tier \in tiers}
                      \cup {r \in deployed.lists : r.tier \notin tiers}
  <2>2. deployed'.lists = mix /\ deployed'.spells = deployed.spells \cap BagToSet(built)
    BY <2>1
  <2>3. ASSUME NEW s \in deployed.spells \cap BagToSet(built) PROVE Served(s, mix)
    <3>1. Served(s, deployed.lists) /\ Served(s, BagToSet(securityLists))
      BY <1>1 DEF DeployedServed
    <3> QED BY <3>1, TierByTier DEF Served
  <2> HIDE DEF mix
  <2> QED BY <2>2, <2>3 DEF DeployedServed
<1> QED BY <1>2, <1>3, <1>4 DEF SharedNext, sharedVars, WriteSpell, Abandon, Tenant

(* The documented workflow works, after any number of updates, the ones that
   stopped after some of the four lists included: what a tenant needs is admitted
   as long as the owner keeps the tenant's spell in its program. *)
THEOREM EveryTenantServed ==
  ASSUME CatchErrors = FALSE
  PROVE  SharedSpec => []TenantsServed
<1>1. SharedInit => DeployedServed
  BY DEF SharedInit, DeployedServed
<1>2. ProgramInv /\ Registered /\ DeployedServed /\ [SharedNext]_sharedVars => DeployedServed'
  BY ServedStep
<1>3. DeployedServed => TenantsServed
  BY DEF DeployedServed, Served, TenantsServed
<1> QED BY <1>1, <1>2, <1>3, OwnerSound, PTL DEF SharedSpec

-----------------------------------------------------------------------------
(* The groups of a cluster *)

(* Both ends of every channel between two groups of a cluster are written. *)
LEMMA BothEnds ==
  ASSUME NEW k \in BOOLEAN
  PROVE  Reciprocal(OkeNsgRules(k))
<1> SUFFICES ASSUME NEW r \in OkeNsgRules(k), r.peer \in OkeNsgs PROVE Mirror(r) \in OkeNsgRules(k)
  BY DEF Reciprocal
<1> USE DEF OkeNsgRules, ApiNsgRules, LbNsgRules, WorkerNsgRules, PodNsgRules, NsgIn, NsgOut, NsgRule,
            Mirror, ApiPorts, All, OkeNsgs
<1>1. CASE r \in ApiNsgRules(k)
  BY <1>1
<1>2. CASE r \in LbNsgRules
  BY <1>2
<1>3. CASE r \in WorkerNsgRules
  BY <1>3
<1>4. CASE r \in PodNsgRules
  BY <1>4
<1> QED BY <1>1, <1>2, <1>3, <1>4

(* What a rule asks of the lists, written as the rules that could answer it. *)
Answered(r, rules) ==
  LET tier == OkeTier(r.nsg)
      peer == SubnetPeer(r)
  IN  \/ peer = tier
      \/ r.dir = "ingress" /\ IngressTcp(tier, r.port, peer) \in rules
      \/ r.dir = "egress" /\ EgressTcp(tier, r.port, peer) \in rules
      \/ r.dir = "egress" /\ EgressAll(tier, peer) \in rules
      \/ r.dir = "ingress" /\ SecurityRule(tier, "ingress", "all", AnyPort, peer) \in rules

(* Such a rule lets the traffic through. *)
LEMMA AnsweredAdmits ==
  ASSUME NEW r, NEW rules, Answered(r, rules)
  PROVE  AdmittedBySubnet(r, rules)
<1> DEFINE tier == OkeTier(r.nsg)
           peer == SubnetPeer(r)
           a == SecurityRule(tier, "ingress", "all", AnyPort, peer)
<1>1. a.tier = tier /\ a.dir = "ingress" /\ a.proto = "all" /\ a.port = AnyPort /\ a.peer = peer
  BY DEF SecurityRule
<1>2. peer \in CoveredBy(peer)
  BY DEF CoveredBy
<1> HIDE DEF a
<1>3. r.dir = "ingress" /\ a \in rules => Admits(rules, r.dir, tier, r.port, peer)
  BY <1>1, <1>2 DEF Admits
<1> QED BY <1>3, RuleAdmits DEF Answered, AdmittedBySubnet, a

(* Every rule of the groups has an answer among the rules of the cluster. *)
LEMMA GroupsAnswered ==
  ASSUME NEW k \in BOOLEAN, NEW r \in OkeNsgRules(k)
  PROVE  Answered(r, OkeRules(k))
<1> USE DEF NsgIn, NsgOut, NsgRule, ApiPorts, All, OkeNsgs, OkeTier, SubnetPeer, Answered
<1>1. CASE r \in ApiNsgRules(k)
  BY <1>1 DEF ApiNsgRules, OkeRules, OkePublicRules
<1>2. CASE r \in LbNsgRules
  BY <1>2 DEF LbNsgRules, OkeRules, OkePublicRules, WebRules
<1>3. CASE r \in WorkerNsgRules
  BY <1>3 DEF WorkerNsgRules, OkeRules, OkePrivateRules
<1>4. CASE r \in PodNsgRules
  BY <1>4 DEF PodNsgRules, OkeRules, OkePrivateRules
<1> QED BY <1>1, <1>2, <1>3, <1>4 DEF OkeNsgRules

(* A spell that is a cluster was asked for as one. *)
LEMMA ClusterAsked ==
  ASSUME NEW s, Asked(s), s.kind = "OkeCluster"
  PROVE  \E k \in BOOLEAN : s = Spell("OkeCluster", "private", "public", <<>>, k)
<1>1. ASSUME NEW kind \in {"Nsg", "serves", "late ComputeInstance", "VcnFlowLogs", "export", "ComputeInstance",
                           "Bastion", "ScalableWorkload", "LoadBalancer", "InternalLoadBalancer"},
             NEW at, NEW to, NEW ports, NEW opt, s = Spell(kind, at, to, ports, opt)
      PROVE  FALSE
  <2>1. s.kind = kind
    BY <1>1 DEF Spell
  <2>2. "OkeCluster" \notin {"Nsg", "serves", "late ComputeInstance", "VcnFlowLogs", "export", "ComputeInstance",
                             "Bastion", "ScalableWorkload", "LoadBalancer", "InternalLoadBalancer"}
    OBVIOUS
  <2> QED BY <2>1, <2>2
<1>2. ~AskedNsg(s) /\ ~AskedServes(s)
  BY <1>1 DEF AskedNsg, AskedServes
<1>3. s \notin Silent
  BY <1>1 DEF Silent
<1>4. /\ ~\E tier \in Tiers : s = Spell("ComputeInstance", tier, "", <<>>, FALSE)
      /\ s # Spell("Bastion", "private", "", <<>>, FALSE)
  BY <1>1
<1>5. /\ ~\E port \in Ports, public \in BOOLEAN : s = Spell("ScalableWorkload", "private", "", <<port>>, public)
      /\ ~\E port \in Ports : s = Spell("LoadBalancer", "public", "private", <<port>>, FALSE)
      /\ ~\E port \in Ports : s = Spell("InternalLoadBalancer", "private", "private", <<port>>, FALSE)
  BY <1>1
<1> QED BY <1>2, <1>3, <1>4, <1>5 DEF Asked, AskedResource

(* The two layers of an OKE cluster agree, in every program the owner writes:
   both ends of every channel between its groups are there, and the security
   lists OCI was given let through what the groups let through between subnets,
   however many clusters share the network and whatever was built before. *)
THEOREM OkeLayers ==
  ASSUME CatchErrors = FALSE
  PROVE  SharedSpec => []OkeLayersAgree
<1>1. ProgramInv /\ Registered => OkeLayersAgree
  <2> SUFFICES ASSUME ProgramInv, Registered, NEW s \in BagToSet(built), s.kind = "OkeCluster"
               PROVE  /\ Reciprocal(OkeNsgRules(s.opt))
                      /\ \A r \in OkeNsgRules(s.opt) : AdmittedBySubnet(r, BagToSet(securityLists))
    BY DEF OkeLayersAgree, Built
  <2>1. PICK k \in BOOLEAN : s = Spell("OkeCluster", "private", "public", <<>>, k)
    BY ClusterAsked DEF ProgramInv, Permitted
  <2>2. (s.opt = k) /\ RulesMade(s) = OkeRules(k)
    BY <2>1, OkeBrings DEF Spell, Brings
  <2>3. OkeRules(k) \subseteq BagToSet(securityLists)
    <3>1. finalized /\ OkeRules(k) \subseteq BagToSet(lists)
      BY <2>2 DEF Registered, Light
    <3> QED BY <3>1 DEF ProgramInv, VcnInv, DeployedIsCollected
  <2>4. ASSUME NEW r \in OkeNsgRules(k) PROVE AdmittedBySubnet(r, BagToSet(securityLists))
    <3>1. AdmittedBySubnet(r, OkeRules(k))
      BY GroupsAnswered, AnsweredAdmits
    <3> QED BY <2>3, <3>1, AdmitsGrows DEF AdmittedBySubnet
  <2> QED BY <2>2, <2>4, BothEnds
<1> QED BY <1>1, OwnerSound, PTL

-----------------------------------------------------------------------------
(* The networks that shipped programs build *)

(* The role each group has, and the tier that goes with it. *)
ScriptRole == [lb |-> "INTERNET_EDGE", web |-> "APP_SERVER", db |-> "DATABASE", mgmt |-> "MANAGEMENT"]
ScriptTier == [lb |-> "public", web |-> "private", db |-> "secure", mgmt |-> "management"]

(* Who serves whom, on which port. *)
Relations(ports) ==
  {<<"lb", "web", ports[1]>>, <<"web", "db", ports[2]>>,
   <<"mgmt", "lb", SSH>>, <<"mgmt", "web", SSH>>, <<"mgmt", "db", SSH>>}

(* The statements of the programs that build a network of groups. *)
NetworkStatement(s, ports) ==
  \/ \E n \in GroupNames, q \in Seq(OwnPorts) : s = NsgOf(n, ScriptRole[n], q)
  \/ \E rel \in Relations(ports), ssh \in BOOLEAN : s = ServesOf(rel[1], rel[2], rel[3], ssh)
  \/ \E tier \in {"private", "secure"} : s = InstanceIn(tier)
  \/ s = ExportVcn

(* A program holds nothing else. *)
LEMMA NetworkPrograms ==
  ASSUME NEW name \in Configured, NEW ports \in Ports \X Ports
  PROVE  \A i \in DOMAIN Statements(name, ports) : NetworkStatement(Statements(name, ports)[i], ports)
<1> DEFINE Ok(s) == NetworkStatement(s, ports)
<1>1. ASSUME NEW q \in Seq(OwnPorts)
      PROVE  /\ Ok(NsgOf("lb", "INTERNET_EDGE", q)) /\ Ok(NsgOf("web", "APP_SERVER", q))
             /\ Ok(NsgOf("db", "DATABASE", q)) /\ Ok(NsgOf("mgmt", "MANAGEMENT", q))
  BY DEF NetworkStatement, GroupNames, ScriptRole
<1>2. ASSUME NEW ssh \in BOOLEAN
      PROVE  /\ Ok(ServesOf("lb", "web", ports[1], ssh)) /\ Ok(ServesOf("web", "db", ports[2], ssh))
             /\ Ok(ServesOf("mgmt", "lb", SSH, ssh)) /\ Ok(ServesOf("mgmt", "web", SSH, ssh))
             /\ Ok(ServesOf("mgmt", "db", SSH, ssh))
  <2>1. ASSUME NEW rel \in Relations(ports) PROVE Ok(ServesOf(rel[1], rel[2], rel[3], ssh))
    BY <2>1 DEF NetworkStatement
  <2>2. /\ <<"lb", "web", ports[1]>> \in Relations(ports) /\ <<"web", "db", ports[2]>> \in Relations(ports)
        /\ <<"mgmt", "lb", SSH>> \in Relations(ports) /\ <<"mgmt", "web", SSH>> \in Relations(ports)
        /\ <<"mgmt", "db", SSH>> \in Relations(ports)
    BY DEF Relations
  <2> HIDE DEF Ok
  <2> QED BY <2>1, <2>2
<1>3. Ok(InstanceIn("private")) /\ Ok(InstanceIn("secure")) /\ Ok(ExportVcn)
  BY DEF NetworkStatement
<1>4. /\ <<>> \in Seq(OwnPorts) /\ <<HTTP, HTTPS, SSH>> \in Seq(OwnPorts)
      /\ <<HTTP, HTTPS>> \in Seq(OwnPorts)
  BY DEF OwnPorts
<1> HIDE DEF Ok
<1>5. \A i \in DOMAIN WebDb(ports[1], ports[2]) : Ok(WebDb(ports[1], ports[2])[i])
  <2> DEFINE a == NsgOf("lb", "INTERNET_EDGE", <<HTTP, HTTPS, SSH>>)
             b == NsgOf("web", "APP_SERVER", <<>>)
             c == NsgOf("db", "DATABASE", <<>>)
             d == ServesOf("lb", "web", ports[1], TRUE)
             e == ServesOf("web", "db", ports[2], TRUE)
             f == InstanceIn("private")
             g == InstanceIn("secure")
  <2>1. Ok(a) /\ Ok(b) /\ Ok(c)
    BY <1>1, <1>4
  <2>2. Ok(d) /\ Ok(e)
    BY <1>2
  <2>3. WebDb(ports[1], ports[2]) = <<a, b, c, d, e, f, g, ExportVcn>>
    BY DEF WebDb
  <2> HIDE DEF a, b, c, d, e
  <2> QED BY <1>3, <2>1, <2>2, <2>3
<1>6. \A i \in DOMAIN SecureVcn(ports[1], ports[2]) : Ok(SecureVcn(ports[1], ports[2])[i])
  <2> DEFINE a == NsgOf("lb", "INTERNET_EDGE", <<HTTP, HTTPS>>)
             b == NsgOf("web", "APP_SERVER", <<>>)
             c == NsgOf("db", "DATABASE", <<>>)
             d == NsgOf("mgmt", "MANAGEMENT", <<>>)
             e == ServesOf("lb", "web", ports[1], TRUE)
             f == ServesOf("web", "db", ports[2], TRUE)
             g == ServesOf("mgmt", "lb", SSH, FALSE)
             h == ServesOf("mgmt", "web", SSH, FALSE)
             k == ServesOf("mgmt", "db", SSH, FALSE)
  <2>1. Ok(a) /\ Ok(b) /\ Ok(c) /\ Ok(d)
    BY <1>1, <1>4
  <2>2. Ok(e) /\ Ok(f) /\ Ok(g) /\ Ok(h) /\ Ok(k)
    BY <1>2
  <2>3. SecureVcn(ports[1], ports[2]) = <<a, b, c, d, e, f, g, h, k, ExportVcn>>
    BY DEF SecureVcn
  <2> HIDE DEF a, b, c, d, e, f, g, h, k
  <2> QED BY <1>3, <2>1, <2>2, <2>3
<1>7. /\ Statements("web-db", ports) = WebDb(ports[1], ports[2])
      /\ Statements("examples/secure-vcn", ports) = SecureVcn(ports[1], ports[2])
  BY DEF Statements
<1> QED BY <1>5, <1>6, <1>7 DEF Configured, Ok

(* Each group that was built has its role. *)
ScriptRoles == \A n \in GroupNames : role[n] \in {"absent", "failed", ScriptRole[n]}

(* The parts of these roles. *)
LEMMA ScriptGroups ==
  ASSUME NEW x \in GroupNames
  PROVE  /\ ScriptRole[x] \in RoleNames /\ ScriptRole[x] # "none"
         /\ RoleSpec[ScriptRole[x]].subnet_tier = ScriptTier[x]
         /\ RoleSpec[ScriptRole[x]].accept_management_ssh <=> x # "lb"
         /\ RoleSpec[ScriptRole[x]].accept_management_ssh \in BOOLEAN
         /\ ScriptTier[x] \in Tiers
<1> USE DEF ScriptRole, ScriptTier, RoleNames, RoleSpec, Role, Tiers
<1>1. CASE x = "lb"    BY <1>1
<1>2. CASE x = "web"   BY <1>2
<1>3. CASE x = "db"    BY <1>3
<1>4. CASE x = "mgmt"  BY <1>4
<1> QED BY <1>1, <1>2, <1>3, <1>4 DEF GroupNames

(* What they mean for a relation. *)
LEMMA ScriptRelation ==
  ASSUME ScriptRoles, NEW n \in GroupNames, NEW m \in GroupNames, Live(n), Live(m),
         NEW port, NEW ssh \in BOOLEAN
  PROVE  RelationSpell(n, m, port, ssh) =
           Spell("serves", ScriptTier[n], ScriptTier[m], <<port>>, ssh /\ m # "lb")
<1>1. role[n] = ScriptRole[n] /\ role[m] = ScriptRole[m]
  BY DEF ScriptRoles, Live
<1>2. \A x \in GroupNames :
        /\ ScriptRole[x] \in RoleNames /\ ScriptRole[x] # "none"
        /\ RoleSpec[ScriptRole[x]].subnet_tier = ScriptTier[x]
        /\ RoleSpec[ScriptRole[x]].accept_management_ssh <=> x # "lb"
        /\ RoleSpec[ScriptRole[x]].accept_management_ssh \in BOOLEAN
  BY ScriptGroups
<1>3. HasRole(n) /\ HasRole(m) /\ TierOf(n) = ScriptTier[n] /\ TierOf(m) = ScriptTier[m]
  BY <1>1, <1>2 DEF HasRole, TierOf
<1>4. AcceptsSsh(m) = (m # "lb")
  BY <1>1, <1>2 DEF AcceptsSsh
<1> QED BY <1>3, <1>4 DEF RelationSpell
(* What a rule of these programs may let into the secure and management tiers:
   the private tier on the database's port and SSH, the management tier by SSH. *)
Restrained(r, ports) ==
  r.dir = "ingress" =>
    \/ r.tier \in {"public", "private"}
    \/ r.tier = "secure" /\ r.peer = "private" /\ r.port \in {ports[2], SSH}
    \/ r.tier = "secure" /\ r.peer = "management" /\ r.port = SSH

(* What a statement owes to the lists. *)
Wanted(s) ==
  CASE s.kind = "Nsg"    -> NsgRules(s.to, s.ports)
    [] s.kind = "serves" ->
         ServesRules(ScriptTier[s.at], ScriptTier[s.to], s.ports[1], s.opt /\ s.to # "lb")
    [] OTHER -> {}

(* The spell behind a statement. *)
SpellOf(s) ==
  CASE s.kind = "Nsg"    -> GroupSpell(s.to, s.ports)
    [] s.kind = "serves" -> RelationSpell(s.at, s.to, s.ports[1], s.opt)
    [] s.kind = "ComputeInstance" -> InstanceSpell(s.at)
    [] OTHER -> s

GroupsKept ==
  /\ role' \in [Nsgs -> RoleNames \cup {"none", "absent", "failed"}]
  /\ DOMAIN labels' = Nsgs /\ \A n \in Nsgs : \A l \in labels'[n] : LabelOK(l)
  /\ ScriptRoles'

(* A statement that builds a group. *)
LEMMA GroupStatement ==
  ASSUME ProgramInv, ScriptUses, ScriptRoles, NEW ports \in Ports \X Ports,
         NEW n \in GroupNames, NEW q \in Seq(OwnPorts), NEW s, s = NsgOf(n, ScriptRole[n], q), Do(s)
  PROVE  /\ Completes(SpellOf(s)) \/ Raises(SpellOf(s))
         /\ GroupsKept
         /\ RulesMade(SpellOf(s)) = Wanted(s) /\ \A r \in Wanted(s) : Restrained(r, ports)
<1> DEFINE r0 == ScriptRole[n]
<1>1. s.kind = "Nsg" /\ s.at = n /\ s.to = r0 /\ s.ports = q
  BY DEF NsgOf, Spell
<1>2. NewNsg(n, r0, q)
  BY <1>1 DEF Do
<1>3. r0 \in RoleNames /\ n \in Nsgs
  BY ScriptGroups DEF ScriptUses
<1>4. q \in Seq(Ports)
  <2>1. OwnPorts \subseteq Ports
    BY DEF ScriptUses
  <2> QED BY <2>1, SeqDef
<1>5. SpellOf(s) = GroupSpell(r0, q) /\ Wanted(s) = NsgRules(r0, q)
  BY <1>1 DEF SpellOf, Wanted
<1>6. /\ role' \in [Nsgs -> RoleNames \cup {"none", "absent", "failed"}]
      /\ DOMAIN labels' = Nsgs /\ \A m \in Nsgs : \A l \in labels'[m] : LabelOK(l)
  BY <1>2, <1>3, <1>4, NewNsgTyped
<1>7. ScriptRoles'
  <2>1. role' = [role EXCEPT ![n] = IF outcome' = "ok" THEN r0 ELSE "failed"]
    BY <1>2 DEF NewNsg
  <2>2. \A x \in GroupNames : role'[x] \in {"absent", "failed", ScriptRole[x]}
    BY <1>3, <2>1 DEF ScriptRoles, ProgramInv, ScriptUses
  <2> QED BY <2>2 DEF ScriptRoles
<1>8. RulesMade(GroupSpell(r0, q)) = NsgRules(r0, q)
  BY <1>3, <1>4, NsgBrings DEF Brings, GroupSpell
<1>9. \A r \in NsgRules(r0, q) : Restrained(r, ports)
  BY DEF NsgRules, Restrained, IngressTcp, EgressAll, SecurityRule
<1> QED BY <1>2, <1>3, <1>4, <1>5, <1>6, <1>7, <1>8, <1>9, NewNsgStep DEF GroupsKept

(* A statement that relates two groups. *)
LEMMA RelationStatement ==
  ASSUME ProgramInv, ScriptUses, ScriptRoles, NEW ports \in Ports \X Ports,
         NEW rel \in Relations(ports), NEW ssh \in BOOLEAN,
         NEW s, s = ServesOf(rel[1], rel[2], rel[3], ssh), Do(s)
  PROVE  /\ Completes(SpellOf(s)) \/ Raises(SpellOf(s))
         /\ GroupsKept
         /\ RulesMade(SpellOf(s)) = Wanted(s) /\ \A r \in Wanted(s) : Restrained(r, ports)
<1> DEFINE n == rel[1]
           m == rel[2]
           port == rel[3]
           src == ScriptTier[n]
           tgt == ScriptTier[m]
           open == ssh /\ m # "lb"
<1>1. s.kind = "serves" /\ s.at = n /\ s.to = m /\ s.ports = <<port>> /\ s.ports[1] = port /\ s.opt = ssh
  BY DEF ServesOf, Spell
<1>2. Serves(n, m, port, ssh)
  BY <1>1 DEF Do
<1>3. /\ n \in GroupNames /\ m \in GroupNames /\ port \in Ports
      /\ \/ src = "public" /\ tgt = "private"
         \/ src = "private" /\ tgt = "secure" /\ port = ports[2]
         \/ src = "management" /\ tgt \in {"public", "private"}
         \/ src = "management" /\ tgt = "secure" /\ port = SSH
  BY DEF Relations, GroupNames, ScriptTier, ScriptUses, OwnPorts
<1>4. n \in Nsgs /\ m \in Nsgs /\ Live(n) /\ Live(m)
  BY <1>2, <1>3 DEF Serves, ScriptUses
<1>5. SpellOf(s) = RelationSpell(n, m, port, ssh) /\ Wanted(s) = ServesRules(src, tgt, port, open)
  BY <1>1 DEF SpellOf, Wanted
<1> HIDE DEF n, m, port
<1>6. RelationSpell(n, m, port, ssh) = Spell("serves", src, tgt, <<port>>, open)
  BY <1>3, <1>4, ScriptRelation
<1>7. GroupsKept
  <2>1. /\ role' \in [Nsgs -> RoleNames \cup {"none", "absent", "failed"}]
        /\ DOMAIN labels' = Nsgs /\ \A x \in Nsgs : \A l \in labels'[x] : LabelOK(l)
    BY <1>2, <1>3, <1>4, ServesTyped
  <2>2. role' = role
    BY <1>2 DEF Serves
  <2> QED BY <2>1, <2>2 DEF GroupsKept, ScriptRoles
<1>8. src \in Tiers /\ tgt \in Tiers /\ open \in BOOLEAN
  BY <1>3, ScriptGroups
<1> HIDE DEF src, tgt, open
<1>9. RulesMade(RelationSpell(n, m, port, ssh)) = ServesRules(src, tgt, port, open)
  BY <1>3, <1>6, <1>8, ServesBrings DEF Brings
<1>10. \A r \in ServesRules(src, tgt, port, open) : Restrained(r, ports)
  <2>1. ASSUME NEW p \in {port, SSH}, NEW r \in ChannelRules(src, tgt, p) PROVE Restrained(r, ports)
    <3>1. CASE r = EgressTcp(src, p, tgt)
      BY <3>1 DEF Restrained, EgressTcp, SecurityRule
    <3>2. CASE r = IngressTcp(tgt, p, src)
      BY <1>3, <3>2 DEF Restrained, IngressTcp, SecurityRule
    <3> QED BY <3>1, <3>2 DEF ChannelRules
  <2> QED BY <2>1 DEF ServesRules
<1>11. Completes(RelationSpell(n, m, port, ssh)) \/ Raises(RelationSpell(n, m, port, ssh))
  BY <1>2, <1>3, <1>4, ServesStep, ProgramTyped
<1> QED BY <1>5, <1>7, <1>9, <1>10, <1>11

(* A statement that builds an instance, or exports the Vcn. *)
LEMMA ResourceStatement ==
  ASSUME ProgramInv, ScriptRoles, NEW ports \in Ports \X Ports,
         NEW s, (\E tier \in {"private", "secure"} : s = InstanceIn(tier)) \/ s = ExportVcn, Do(s)
  PROVE  /\ Completes(SpellOf(s)) \/ Raises(SpellOf(s))
         /\ GroupsKept
         /\ Wanted(s) = {} /\ \A r \in RulesMade(SpellOf(s)) : Restrained(r, ports)
         /\ SpellOf(s).kind \notin Light
<1>1. KeepsNsgs => GroupsKept
  BY DEF KeepsNsgs, GroupsKept, ScriptRoles, ProgramInv
<1>2. ASSUME NEW tier \in {"private", "secure"}, s = InstanceIn(tier)
      PROVE  /\ Completes(SpellOf(s)) \/ Raises(SpellOf(s))
             /\ KeepsNsgs
             /\ Wanted(s) = {} /\ \A r \in RulesMade(SpellOf(s)) : Restrained(r, ports)
             /\ SpellOf(s).kind \notin Light
  <2>1. s.kind = "ComputeInstance" /\ s.at = tier /\ tier \in Tiers
    BY <1>2 DEF InstanceIn, Spell, Tiers
  <2>2. ComputeInstance(tier)
    BY <2>1 DEF Do
  <2>3. SpellOf(s) = InstanceSpell(tier) /\ Wanted(s) = {}
    BY <2>1 DEF SpellOf, Wanted
  <2>4. InstanceSpell(tier).kind \notin Light
    BY DEF InstanceSpell, Spell, Light
  <2>5. RulesMade(InstanceSpell(tier)) \subseteq {IngressTcp(tier, SSH, ComputeSshSource(tier))}
    BY <2>1, ComputeBrings, SilentBrings DEF Brings, InstanceSpell
  <2>6. Restrained(IngressTcp(tier, SSH, ComputeSshSource(tier)), ports)
    BY DEF Restrained, IngressTcp, SecurityRule, ComputeSshSource
  <2>7. KeepsNsgs
    BY <2>2 DEF ComputeInstance
  <2> QED BY <2>1, <2>2, <2>3, <2>4, <2>5, <2>6, <2>7, ComputeStep
<1>3. ASSUME s = ExportVcn
      PROVE  /\ Completes(SpellOf(s)) \/ Raises(SpellOf(s))
             /\ KeepsNsgs
             /\ Wanted(s) = {} /\ \A r \in RulesMade(SpellOf(s)) : Restrained(r, ports)
             /\ SpellOf(s).kind \notin Light
  <2>1. s.kind = "export" /\ s = Spell("export", "", "", <<>>, FALSE)
    BY <1>3 DEF ExportVcn, Spell
  <2>2. Export
    BY <2>1 DEF Do
  <2>3. SpellOf(s) = s /\ Wanted(s) = {}
    BY <2>1 DEF SpellOf, Wanted
  <2>4. AskedResource(s) /\ RulesMade(s) = {}
    BY <2>1, SilentBrings DEF AskedResource, Silent, Brings
  <2>5. Finalizing(s)
    BY <2>1, <2>2 DEF Export
  <2>6. KeepsNsgs
    BY <2>5 DEF Finalizing
  <2>7. s.kind \notin Light
    BY <2>1 DEF Light
  <2> QED BY <2>3, <2>4, <2>5, <2>6, <2>7, FinalizingStep
<1> QED BY <1>1, <1>2, <1>3
-----------------------------------------------------------------------------
(* The invariant of such a program *)

(* A statement adds to the lists only rules of its spell and the baseline. *)
LEMMA ListsFrom ==
  ASSUME ProgramInv, NEW x, Completes(x) \/ Raises(x)
  PROVE  BagToSet(lists') \subseteq BagToSet(lists) \cup RulesMade(x) \cup Each(VcnBaselineRules)
<1> DEFINE calls == CallsOf(x)
<1>1. calls \in Seq(Call)
  BY AskedCalls DEF Completes, Raises
<1>2. Collect(calls) \/ Materialise(calls) \/ UNCHANGED lists
  BY DEF Completes, Raises, Reuse, Refuse, Rejects
<1>3. BagToSet(Added(calls)) \subseteq RulesMade(x)
  BY AddedFrom DEF RulesMade
<1> HIDE DEF calls
<1> QED BY <1>1, <1>2, <1>3, ListsAfter

(* The Vcn's own rules let nothing into the secure and management tiers. *)
LEMMA OwnRestrained ==
  ASSUME NEW ports
  PROVE  \A r \in Each(VcnSeedRules) \cup Each(VcnBaselineRules) : Restrained(r, ports)
<1>1. Each(VcnSeedRules) =
        {SecurityRule("public", "ingress", "icmp", AnyPort, "internet"),
         SecurityRule("public", "ingress", "icmp", AnyPort, "vcn")}
  BY EachShort DEF VcnSeedRules
<1>2. \A r \in Each(VcnBaselineRules) : r.dir = "egress"
  BY DEF Each, VcnBaselineRules, EgressAll, SecurityRule
<1>3. \A r \in Each(VcnSeedRules) : r.tier = "public"
  BY <1>1 DEF SecurityRule
<1> QED BY <1>2, <1>3 DEF Restrained

(* The inductive invariant of a program that builds a network: until an
   exception ends it, each statement before pc has its rules on the lists, and
   the Vcn is closed once it was exported.  Nothing is said of other programs. *)
NetworkInv ==
  /\ ProgramInv /\ Registered /\ Accounted
  /\ settings \in Ports \X Ports /\ pc \in Nat \ {0}
  /\ ScriptRoles
  /\ \A r \in BagToSet(lists) : Restrained(r, settings)
  /\ outcome = "ok" =>
       \A i \in DOMAIN Program : i < pc =>
         Wanted(Program[i]) \subseteq BagToSet(lists) /\ (Program[i] = ExportVcn => finalized)

(* The places of a program, and what it is sure to hold. *)
LEMMA ProgramPlaces ==
  ASSUME NEW name \in Configured, NEW ports \in Ports \X Ports
  PROVE  LET S == Statements(name, ports) IN
         /\ Len(S) \in Nat /\ DOMAIN S = 1..Len(S)
         /\ \E i \in DOMAIN S, q \in Seq(OwnPorts) :
              S[i] = NsgOf("lb", "INTERNET_EDGE", q) /\ HTTPS \in Each(q)
         /\ \E i \in DOMAIN S : S[i] = ServesOf("lb", "web", ports[1], TRUE)
         /\ \E i \in DOMAIN S : S[i] = ServesOf("web", "db", ports[2], TRUE)
         /\ \E i \in DOMAIN S : S[i] = ExportVcn
<1> DEFINE lbs == {NsgOf("lb", "INTERNET_EDGE", q) : q \in {p \in Seq(OwnPorts) : HTTPS \in Each(p)}}
           d == ServesOf("lb", "web", ports[1], TRUE)
           e == ServesOf("web", "db", ports[2], TRUE)
           Parts(S) ==
             /\ Len(S) \in Nat /\ DOMAIN S = 1..Len(S)
             /\ \E i \in DOMAIN S : S[i] \in lbs
             /\ \E i \in DOMAIN S : S[i] = d
             /\ \E i \in DOMAIN S : S[i] = e
             /\ \E i \in DOMAIN S : S[i] = ExportVcn
<1>1. NsgOf("lb", "INTERNET_EDGE", <<HTTP, HTTPS, SSH>>) \in lbs
  <2>1. <<HTTP, HTTPS, SSH>> \in Seq(OwnPorts) /\ HTTPS \in Each(<<HTTP, HTTPS, SSH>>)
    BY DEF OwnPorts, Each
  <2> QED BY <2>1
<1>2. NsgOf("lb", "INTERNET_EDGE", <<HTTP, HTTPS>>) \in lbs
  <2>1. <<HTTP, HTTPS>> \in Seq(OwnPorts) /\ HTTPS \in Each(<<HTTP, HTTPS>>)
    BY DEF OwnPorts, Each
  <2> QED BY <2>1
<1> HIDE DEF lbs, d, e
<1>3. Parts(WebDb(ports[1], ports[2]))
  <2> DEFINE a == NsgOf("lb", "INTERNET_EDGE", <<HTTP, HTTPS, SSH>>)
             b == NsgOf("web", "APP_SERVER", <<>>)
             c == NsgOf("db", "DATABASE", <<>>)
             f == InstanceIn("private")
             g == InstanceIn("secure")
             S == <<a, b, c, d, e, f, g, ExportVcn>>
  <2>1. WebDb(ports[1], ports[2]) = S
    BY DEF WebDb, d, e
  <2>2. a \in lbs
    BY <1>1
  <2> HIDE DEF a, b, c, f, g
  <2>3. Len(S) = 8 /\ DOMAIN S = 1..8 /\ S[1] = a /\ S[4] = d /\ S[5] = e /\ S[8] = ExportVcn
    OBVIOUS
  <2> QED BY <2>1, <2>2, <2>3
<1>4. Parts(SecureVcn(ports[1], ports[2]))
  <2> DEFINE a == NsgOf("lb", "INTERNET_EDGE", <<HTTP, HTTPS>>)
             b == NsgOf("web", "APP_SERVER", <<>>)
             c == NsgOf("db", "DATABASE", <<>>)
             m == NsgOf("mgmt", "MANAGEMENT", <<>>)
             g == ServesOf("mgmt", "lb", SSH, FALSE)
             h == ServesOf("mgmt", "web", SSH, FALSE)
             k == ServesOf("mgmt", "db", SSH, FALSE)
             S == <<a, b, c, m, d, e, g, h, k, ExportVcn>>
  <2>1. SecureVcn(ports[1], ports[2]) = S
    BY DEF SecureVcn, d, e
  <2>2. a \in lbs
    BY <1>2
  <2> HIDE DEF a, b, c, m, g, h, k
  <2>3. Len(S) = 10 /\ DOMAIN S = 1..10 /\ S[1] = a /\ S[5] = d /\ S[6] = e /\ S[10] = ExportVcn
    OBVIOUS
  <2> QED BY <2>1, <2>2, <2>3
<1>5. /\ Statements("web-db", ports) = WebDb(ports[1], ports[2])
      /\ Statements("examples/secure-vcn", ports) = SecureVcn(ports[1], ports[2])
  BY DEF Statements
<1>6. Parts(Statements(name, ports))
  BY <1>3, <1>4, <1>5 DEF Configured
<1> QED BY <1>6 DEF lbs, d, e

(* What a statement does, whichever of its kinds it is. *)
LEMMA StatementDoes ==
  ASSUME ProgramInv, ScriptUses, ScriptRoles, NEW ports \in Ports \X Ports,
         NEW s, NetworkStatement(s, ports), Do(s)
  PROVE  /\ Completes(SpellOf(s)) \/ Raises(SpellOf(s))
         /\ GroupsKept
         /\ Wanted(s) \subseteq RulesMade(SpellOf(s))
         /\ \A r \in RulesMade(SpellOf(s)) : Restrained(r, ports)
         /\ s = ExportVcn => SpellOf(s).kind \notin Light
<1>1. CASE \E n \in GroupNames, q \in Seq(OwnPorts) : s = NsgOf(n, ScriptRole[n], q)
  <2>1. PICK n \in GroupNames, q \in Seq(OwnPorts) : s = NsgOf(n, ScriptRole[n], q)
    BY <1>1
  <2>2. s # ExportVcn
    BY <2>1 DEF NsgOf, ExportVcn, Spell
  <2> QED BY <2>1, <2>2, GroupStatement
<1>2. CASE \E rel \in Relations(ports), ssh \in BOOLEAN : s = ServesOf(rel[1], rel[2], rel[3], ssh)
  <2>1. PICK rel \in Relations(ports), ssh \in BOOLEAN : s = ServesOf(rel[1], rel[2], rel[3], ssh)
    BY <1>2
  <2>2. s # ExportVcn
    BY <2>1 DEF ServesOf, ExportVcn, Spell
  <2> QED BY <2>1, <2>2, RelationStatement
<1>3. CASE (\E tier \in {"private", "secure"} : s = InstanceIn(tier)) \/ s = ExportVcn
  BY <1>3, ResourceStatement
<1> QED BY <1>1, <1>2, <1>3 DEF NetworkStatement

(* A statement of such a program keeps it: it moves pc past itself and leaves what
   it owes behind, unless it ends the program. *)
LEMMA NetworkStep ==
  ASSUME CatchErrors = FALSE, ScriptUses, script \in Configured, NetworkInv, Statement
  PROVE  NetworkInv'
<1> DEFINE s == Program[pc]
           x == SpellOf(s)
<1>1. /\ Do(s) /\ pc <= Len(Program) /\ pc' = pc + 1
      /\ script' = script /\ settings' = settings
  BY DEF Statement
<1>2. Program' = Program
  BY <1>1 DEF Program
<1>3. Len(Program) \in Nat /\ DOMAIN Program = 1..Len(Program)
  BY ProgramPlaces DEF NetworkInv, Program
<1>4. pc \in DOMAIN Program
  BY <1>1, <1>3 DEF NetworkInv
<1>5. NetworkStatement(s, settings)
  BY <1>4, NetworkPrograms DEF NetworkInv, Program
<1> HIDE DEF s, x
<1>6. /\ Completes(x) \/ Raises(x)
      /\ GroupsKept
      /\ Wanted(s) \subseteq RulesMade(x)
      /\ \A r \in RulesMade(x) : Restrained(r, settings)
      /\ s = ExportVcn => x.kind \notin Light
  BY <1>1, <1>5, StatementDoes DEF NetworkInv, x
<1>7. ProgramInv'
  BY <1>6, SpellKeeps DEF NetworkInv, GroupsKept
<1>8. Registered' /\ Accounted'
  BY <1>6, RulesStep DEF NetworkInv
<1>9. \A r \in BagToSet(lists') : Restrained(r, settings')
  BY <1>1, <1>6, ListsFrom, OwnRestrained DEF NetworkInv
<1>10. ASSUME outcome' = "ok", NEW i \in DOMAIN Program, i < pc'
       PROVE  Wanted(Program[i]) \subseteq BagToSet(lists') /\ (Program[i] = ExportVcn => finalized')
  <2>1. outcome = "ok" /\ Completes(x)
    BY <1>6, <1>10 DEF Raises, Completes, CanCall
  <2>2. BagToSet(lists) \subseteq BagToSet(lists') /\ (finalized => finalized')
    BY <1>6, ListsGrow DEF NetworkInv
  <2>3. CASE i < pc
    BY <2>1, <2>2, <2>3 DEF NetworkInv
  <2>4. CASE i = pc
    <3>1. RulesMade(x) \subseteq BagToSet(lists') /\ (x.kind \notin Light => finalized')
      BY <2>1, CompletedLists DEF NetworkInv
    <3> QED BY <1>6, <2>4, <3>1 DEF s
  <2>5. i < pc \/ i = pc
    BY <1>1, <1>3, <1>10 DEF NetworkInv
  <2> QED BY <2>3, <2>4, <2>5
<1>11. settings' \in Ports \X Ports /\ pc' \in Nat \ {0} /\ ScriptRoles'
  BY <1>1, <1>6 DEF NetworkInv, GroupsKept
<1> QED BY <1>2, <1>7, <1>8, <1>9, <1>10, <1>11 DEF NetworkInv

(* Before the first statement nothing is owed. *)
LEMMA NetworkInit ==
  ASSUME ScriptInit, script \in Configured, ScriptUses
  PROVE  NetworkInv
<1>1. ProgramInv /\ Registered /\ Accounted
  BY ProgramInit, RulesInit DEF ScriptInit
<1>2. settings \in Ports \X Ports /\ pc = 1
  BY DEF ScriptInit
<1>3. ScriptRoles
  BY DEF ScriptRoles, ScriptInit, Init, ScriptUses
<1>4. BagToSet(lists) = Each(VcnSeedRules)
  BY DEF ScriptInit, Init, VcnInit, BagOf, BagToSet, Each
<1>5. \A r \in BagToSet(lists) : Restrained(r, settings)
  BY <1>4, OwnRestrained
<1>6. DOMAIN Program = 1..Len(Program) /\ Len(Program) \in Nat
  BY <1>2, ProgramPlaces DEF Program
<1> QED BY <1>1, <1>2, <1>3, <1>5, <1>6 DEF NetworkInv

(* It holds of every program that reads ports. *)
LEMMA NetworkInvariant ==
  ASSUME CatchErrors = FALSE, ScriptUses
  PROVE  ScriptSpec => [](script \in Configured => NetworkInv)
<1> DEFINE I == script \in Configured => NetworkInv
<1>1. ScriptInit => I
  BY NetworkInit
<1>2. I /\ [Statement]_progVars => I'
  <2> SUFFICES ASSUME I, [Statement]_progVars PROVE I'
    OBVIOUS
  <2>1. script' = script
    BY DEF Statement, progVars
  <2>2. CASE Statement
    BY <2>1, <2>2, NetworkStep
  <2>3. CASE UNCHANGED progVars
    <3>1. script \in Configured => NetworkInv'
      <4> SUFFICES ASSUME NetworkInv PROVE NetworkInv'
        OBVIOUS
      <4>1. UNCHANGED vars /\ settings' = settings /\ pc' = pc /\ Program' = Program
        BY <2>3 DEF progVars, Program
      <4>2. ProgramInv'
        BY <4>1, ProgramStep DEF NetworkInv
      <4>3. Registered' /\ Accounted' /\ ScriptRoles'
        BY <4>1 DEF NetworkInv, vars, Registered, Accounted, FixedRules, ScriptRoles
      <4> QED BY <4>1, <4>2, <4>3 DEF NetworkInv, vars
    <3> QED BY <2>1, <3>1
  <2> QED BY <2>2, <2>3
<1> QED BY <1>1, <1>2, PTL DEF ScriptSpec
-----------------------------------------------------------------------------
(* The networks of the shipped programs *)

(* What the security lists hold, they hold of what the statements made. *)
LEMMA DeployedRestrained ==
  ASSUME NetworkInv
  PROVE  \A r \in BagToSet(securityLists) : Restrained(r, settings)
<1>1. securityLists = lists \/ securityLists = EmptyBag
  BY DEF NetworkInv, ProgramInv, VcnInv, DeployedIsCollected
<1> QED BY <1>1, EmptyBagIsBag DEF NetworkInv

(* Nothing but the declared path reaches the inner tiers. *)
LEMMA RestrainedIsolates ==
  ASSUME NEW R, NEW ports \in Ports \X Ports, \A r \in R : Restrained(r, ports),
         NEW p \in Ports \cup {SSH, HTTP, HTTPS}, NEW src \in Tiers
  PROVE  /\ PathOpen(R, src, "management", p) => FALSE
         /\ PathOpen(R, src, "secure", p) =>
              \/ src = "private" /\ p \in {ports[2], SSH}
              \/ src = "management" /\ p = SSH
<1>1. p # AnyPort /\ AnyPort \notin {ports[2], SSH}
  BY PortFacts DEF SSH, HTTP, HTTPS, AnyPort
<1>2. ASSUME PathOpen(R, src, "management", p) PROVE FALSE
  <2>1. PICK r \in R : r.dir = "ingress" /\ r.tier = "management"
    BY <1>2 DEF PathOpen, Admits
  <2> QED BY <2>1 DEF Restrained
<1>3. ASSUME PathOpen(R, src, "secure", p)
      PROVE  \/ src = "private" /\ p \in {ports[2], SSH}
             \/ src = "management" /\ p = SSH
  <2>1. PICK r \in R : /\ r.dir = "ingress" /\ r.tier = "secure"
                       /\ r.port \in {p, AnyPort} /\ r.peer \in CoveredBy(src)
    BY <1>3 DEF PathOpen, Admits
  <2>2. \/ r.peer = "private" /\ r.port \in {ports[2], SSH}
        \/ r.peer = "management" /\ r.port = SSH
    BY <2>1 DEF Restrained
  <2>3. r.port = p
    BY <1>1, <2>1, <2>2
  <2>4. r.peer = src
    BY <2>1, <2>2, TierCovers DEF Tiers
  <2> QED BY <2>2, <2>3, <2>4
<1> QED BY <1>2, <1>3

(* Whatever ports a program that reads them is given, no tier reaches into the
   management tier, and the database tier answers the private tier on the
   database's port and SSH, the management tier on SSH, and nobody else
   (web_db.py, secure_vcn.py). *)
THEOREM NetworksIsolated ==
  ASSUME CatchErrors = FALSE, ScriptUses
  PROVE  ScriptSpec => []TiersIsolated
<1>1. (script \in Configured => NetworkInv) => TiersIsolated
  <2> SUFFICES ASSUME script \in Configured, NetworkInv PROVE TiersIsolated
    BY DEF TiersIsolated
  <2> DEFINE R == BagToSet(securityLists)
  <2>1. /\ \A r \in R : Restrained(r, settings)
        /\ settings \in Ports \X Ports
    BY DeployedRestrained DEF NetworkInv
  <2> HIDE DEF R
  <2>2. \A p \in Ports \cup {SSH, HTTP, HTTPS}, src \in Tiers :
          /\ ~PathOpen(R, src, "management", p)
          /\ PathOpen(R, src, "secure", p) =>
               \/ src = "private" /\ p \in {settings[2], SSH}
               \/ src = "management" /\ p = SSH
    BY <2>1, RestrainedIsolates
  <2>3. \A p \in Ports \cup {SSH, HTTP, HTTPS} :
          /\ ~PathOpen(R, "public", "secure", p)
          /\ \A src \in Tiers \ {"management"} : ~PathOpen(R, src, "management", p)
          /\ PathOpen(R, "management", "secure", p) => p = SSH
          /\ PathOpen(R, "private", "secure", p) => p \in {settings[2], SSH}
    BY <2>2 DEF Tiers
  <2> QED BY <2>3 DEF TiersIsolated, R
<1> QED BY <1>1, NetworkInvariant, PTL

(* A program that reads its ports and ran to its end left a network in which the
   public tier answers the internet on 443, and the path from the load
   balancers to the web instances and on to the databases is open at both
   ends, for the application and for SSH. *)
THEOREM NetworksConnected ==
  ASSUME CatchErrors = FALSE, ScriptUses
  PROVE  ScriptSpec => []TiersConnected
<1>1. (script \in Configured => NetworkInv) => TiersConnected
  <2> SUFFICES ASSUME script \in Configured, NetworkInv, Finished PROVE TiersConnected
    BY DEF TiersConnected
  <2> DEFINE R == BagToSet(securityLists)
             L == BagToSet(lists)
  <2>1. settings \in Ports \X Ports /\ outcome = "ok" /\ pc > Len(Program) /\ pc \in Nat
    BY DEF Finished, NetworkInv
  <2>2. /\ Len(Program) \in Nat /\ DOMAIN Program = 1..Len(Program)
        /\ \E i \in DOMAIN Program, q \in Seq(OwnPorts) :
             Program[i] = NsgOf("lb", "INTERNET_EDGE", q) /\ HTTPS \in Each(q)
        /\ \E i \in DOMAIN Program : Program[i] = ServesOf("lb", "web", settings[1], TRUE)
        /\ \E i \in DOMAIN Program : Program[i] = ServesOf("web", "db", settings[2], TRUE)
        /\ \E i \in DOMAIN Program : Program[i] = ExportVcn
    BY <2>1, ProgramPlaces DEF Program
  <2>3. \A i \in DOMAIN Program : Wanted(Program[i]) \subseteq L /\ (Program[i] = ExportVcn => finalized)
    BY <2>1, <2>2 DEF NetworkInv
  <2>4. R = L
    BY <2>2, <2>3 DEF NetworkInv, ProgramInv, VcnInv, DeployedIsCollected
  <2>5. ASSUME NEW q, HTTPS \in Each(q), NEW s, s = NsgOf("lb", "INTERNET_EDGE", q)
        PROVE  IngressTcp("public", HTTPS, "internet") \in Wanted(s)
    <3>1. s.kind = "Nsg" /\ s.to = "INTERNET_EDGE" /\ s.ports = q
      BY <2>5 DEF NsgOf, Spell
    <3>2. IngressTcp("public", HTTPS, "internet") \in NsgRules("INTERNET_EDGE", q)
      BY <2>5 DEF NsgRules, Each, RoleSpec, Role
    <3> QED BY <3>1, <3>2 DEF Wanted
  <2>6. ASSUME NEW n \in {"lb", "web"}, NEW m \in {"web", "db"}, NEW port,
               NEW s, s = ServesOf(n, m, port, TRUE), NEW p \in {port, SSH},
               ScriptTier[n] # ScriptTier[m]
        PROVE  ChannelRules(ScriptTier[n], ScriptTier[m], p) \subseteq Wanted(s)
    <3>1. s.kind = "serves" /\ s.at = n /\ s.to = m /\ s.ports[1] = port /\ s.opt
      BY <2>6 DEF ServesOf, Spell
    <3>2. Wanted(s) = ServesRules(ScriptTier[n], ScriptTier[m], port, TRUE)
      BY <3>1 DEF Wanted
    <3> QED BY <2>6, <3>2 DEF ServesRules
  <2> HIDE DEF R, L
  <2>7. IngressTcp("public", HTTPS, "internet") \in L
    BY <2>2, <2>3, <2>5
  <2>8. \A p \in {settings[1], SSH} : ChannelRules("public", "private", p) \subseteq L
    <3>1. ScriptTier["lb"] = "public" /\ ScriptTier["web"] = "private"
      BY DEF ScriptTier
    <3>2. PICK i \in DOMAIN Program : Program[i] = ServesOf("lb", "web", settings[1], TRUE)
      BY <2>2
    <3> QED BY <2>3, <2>6, <3>1, <3>2
  <2>9. \A p \in {settings[2], SSH} : ChannelRules("private", "secure", p) \subseteq L
    <3>1. ScriptTier["web"] = "private" /\ ScriptTier["db"] = "secure"
      BY DEF ScriptTier
    <3>2. PICK i \in DOMAIN Program : Program[i] = ServesOf("web", "db", settings[2], TRUE)
      BY <2>2
    <3> QED BY <2>3, <2>6, <3>1, <3>2
  <2>10. ASSUME NEW src, NEW tgt, NEW p, ChannelRules(src, tgt, p) \subseteq L
         PROVE  PathOpen(L, src, tgt, p)
    BY <2>10, RuleAdmits DEF ChannelRules, PathOpen
  <2>11. /\ Admits(L, "ingress", "public", HTTPS, "internet")
         /\ \A p \in {settings[1], SSH} : PathOpen(L, "public", "private", p)
         /\ \A p \in {settings[2], SSH} : PathOpen(L, "private", "secure", p)
    BY <2>7, <2>8, <2>9, <2>10, RuleAdmits
  <2> QED BY <2>4, <2>11 DEF TiersConnected, R
<1> QED BY <1>1, NetworkInvariant, PTL
=============================================================================
