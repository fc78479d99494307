---------------------------- MODULE SpellProgram ----------------------------
(***************************************************************************)
(* A Pulumi program that builds spells, in any order, on one Vcn: Nsg and  *)
(* its serves relation (nsg.py), ComputeInstance (compute.py), Bastion     *)
(* (bastion.py), ScalableWorkload (autoscale.py), LoadBalancer and         *)
(* InternalLoadBalancer (loadbalancer.py), OkeCluster (kubernetes.py),     *)
(* VcnFlowLogs (network_logging.py) and Vcn.export (network.py).           *)
(*                                                                         *)
(* OCI filters traffic at two layers.  The subnet layer is the Vcn's       *)
(* security lists (VcnBuilder); the interface layer is the rules attached  *)
(* to each Nsg, known here by their labels.                                *)
(***************************************************************************)
EXTENDS Integers, Sequences, FiniteSets, Bags, SecurityRules

CONSTANTS
  Nsgs,        \* names of network security groups
  Roles,       \* role names the program uses
  Ports,       \* application ports the program uses
  Spells,      \* kinds of spells the program uses
  MaxSpells,   \* bound: how many spells are built
  FlowLogs,    \* as in VcnBuilder
  CatchErrors

SpellKinds ==
  {"Nsg", "serves", "ComputeInstance", "Bastion", "ScalableWorkload", "LoadBalancer",
   "InternalLoadBalancer", "OkeCluster", "VcnFlowLogs", "export"}

(* The highest TCP port. *)
MaxPort == 65535

ASSUME RolesAssumption  == Roles \subseteq RoleNames
ASSUME PortsAssumption  == Ports \subseteq 1..MaxPort
ASSUME SpellsAssumption == Spells \subseteq SpellKinds
ASSUME BoundAssumption  == MaxSpells \in Nat

VARIABLES
  lists, applied, finalized, securityLists, created, flowLogs, outcome,  \* the Vcn
  role,    \* role of each Nsg, "none" without one, "absent", or "failed" (its constructor raised)
  labels,  \* _rule_labels: the interface-layer rules of each Nsg
  built    \* history: bag of the spells that completed

INSTANCE VcnBuilder
  WITH Rule          <- SpellRule(Ports),
       Fingerprint   <- SpellFingerprint(Ports),
       Unkeyed       <- NoFingerprint,
       SeedRules     <- VcnSeedRules,
       BaselineRules <- VcnBaselineRules

vars == <<lists, applied, finalized, securityLists, created, flowLogs, outcome, role, labels, built>>

(***************************************************************************)
(* Spells                                                                  *)
(***************************************************************************)

(* What a spell is asked for: its kind, where it sits, what it reaches, the
   ports it opens and its one option. *)
Spell(kind, at, to, ports, opt) ==
  [kind |-> kind, at |-> at, to |-> to, ports |-> ports, opt |-> opt]

(* The registration calls of a spell. *)
CallsOf(s) ==
  CASE s.kind = "Nsg"                  -> IF s.at = "none" THEN <<>> ELSE AmbientCalls(s.at, s.ports)
    [] s.kind = "serves"               -> ServesCalls(s.at, s.to, s.ports[1], s.opt)
    [] s.kind = "ComputeInstance"      -> ComputeCalls(s.at)
    [] s.kind = "Bastion"              -> BastionCalls
    [] s.kind = "ScalableWorkload"     -> WorkloadCalls(s.opt, s.ports[1])
    [] s.kind = "LoadBalancer"         -> LoadBalancerCalls(s.ports[1])
    [] s.kind = "InternalLoadBalancer" -> InternalLbCalls(s.ports[1])
    [] s.kind = "OkeCluster"           -> OkeCalls(IF s.opt THEN 1 ELSE 0)
    [] OTHER                           -> <<>>

(* The spell is part of the program from now on, unless it raised. *)
Remember(s) == built' = IF outcome' = "ok" THEN built (+) SetToBag({s}) ELSE built

CanBuild(kind) == kind \in Spells /\ BagCardinality(built) < MaxSpells

(***************************************************************************)
(* Nsg                                                                     *)
(***************************************************************************)

Live(n) == role[n] \notin {"absent", "failed"}
HasRole(n) == role[n] \in RoleNames
TierOf(n) == RoleSpec[role[n]].subnet_tier

Label(kind, peer, port) == [kind |-> kind, peer |-> peer, port |-> port]

(* Labels of the rules _apply_role_ambient_rules adds first. *)
AmbientLabels(r, ports) ==
  (IF RoleSpec[r].subnet_tier = "public"
   THEN [i \in DOMAIN ports |-> Label("internet-in", "internet", ports[i])] ELSE <<>>)
  \o (IF RoleSpec[r].egress_services THEN <<Label("svc-out", "services", AnyPort)>> ELSE <<>>)
  \o (IF RoleSpec[r].egress_internet THEN <<Label("inet-out", "internet", AnyPort)>> ELSE <<>>)

NewLabels(r, ports) == IF r = "none" THEN <<>> ELSE AmbientLabels(r, ports)

(* add_rule for each <<nsg, label>> of a sequence: a label already on its Nsg
   raises ValueError, and the rules before it stay. *)
Clashes(adds) ==
  {i \in DOMAIN adds :
     \/ adds[i][2] \in labels[adds[i][1]]
     \/ \E j \in 1..(i - 1) : adds[j] = adds[i]}

Attach(adds) ==
  labels' = [n \in Nsgs |->
               labels[n] \cup {adds[i][2] : i \in {j \in DOMAIN adds :
                                 adds[j][1] = n /\ \A k \in Clashes(adds) : j < k}}]

NewNsg(n, r, ports) ==
  LET adds == [i \in DOMAIN NewLabels(r, ports) |-> <<n, NewLabels(r, ports)[i]>>]
      s    == Spell("Nsg", r, "", ports, FALSE)
  IN
  /\ CanBuild("Nsg")
  /\ role[n] = "absent"
  /\ Attach(adds)
  /\ IF (r = "INTERNET_EDGE" /\ ports = <<>>) \/ Clashes(adds) # {}
     THEN RejectArguments
     ELSE Register(CallsOf(s))
  /\ role' = [role EXCEPT ![n] = IF outcome' = "ok" THEN r ELSE "failed"]
  /\ Remember(s)

(* The labels of n.serves(m, port), on both ends, then the security-list rules
   when both ends have a role. *)
ServesLabels(n, m, port, ssh) ==
  <<<<n, Label("out", m, port)>>, <<m, Label("in", n, port)>>>>
    \o (IF ssh THEN <<<<n, Label("out-ssh", m, SSH)>>, <<m, Label("in-ssh", n, SSH)>>>> ELSE <<>>)

AcceptsSsh(m) == role[m] = "none" \/ RoleSpec[role[m]].accept_management_ssh

Serves(n, m, port, withSsh) ==
  LET ssh  == withSsh /\ AcceptsSsh(m)
      adds == ServesLabels(n, m, port, ssh)
      both == HasRole(n) /\ HasRole(m)
      s    == IF both THEN Spell("serves", TierOf(n), TierOf(m), <<port>>, ssh)
                      ELSE Spell("serves", "none", "none", <<port>>, ssh)
  IN
  /\ CanBuild("serves")
  /\ Live(n) /\ Live(m)
  /\ Attach(adds)
  /\ IF Clashes(adds) # {} THEN RejectArguments ELSE Register(CallsOf(s))
  /\ Remember(s)
  /\ UNCHANGED role

(***************************************************************************)
(* Spells that need the subnets                                            *)
(***************************************************************************)

KeepsNsgs == UNCHANGED <<role, labels>>

(* A ComputeInstance in a tier, its own or that of its Nsg.  On a closed Vcn
   it leaves its rule out and never raises. *)
ComputeInstance(tier) ==
  LET s == Spell(IF finalized THEN "late ComputeInstance" ELSE "ComputeInstance",
                 tier, "", <<>>, FALSE)
  IN
  /\ CanBuild("ComputeInstance")
  /\ RegisterAndFinalize(CallsOf(s))
  /\ Remember(s)
  /\ KeepsNsgs

(* Fault: on a closed Vcn the rule is skipped without a word. *)
BastionQuiet ==
  LET s == Spell("Bastion", "private", "", <<>>, FALSE)
  IN
  /\ CanBuild("Bastion")
  /\ IF finalized THEN FinalizeNetwork ELSE RegisterAndFinalize(CallsOf(s))
  /\ Remember(s)
  /\ KeepsNsgs

(* Bastion looks before it registers: on a closed Vcn without its rule it
   raises, and the fingerprint is not recorded. *)
Bastion ==
  LET s == Spell("Bastion", "private", "", <<>>, FALSE)
  IN
  /\ CanBuild("Bastion")
  /\ \/ /\ ~finalized
        /\ RegisterAndFinalize(CallsOf(s))
     \/ /\ finalized /\ HasAmbientRule(BastionFingerprint)
        /\ FinalizeNetwork
     \/ /\ finalized /\ ~HasAmbientRule(BastionFingerprint)
        /\ CanCall
        /\ outcome' = "RuntimeError"
        /\ UNCHANGED <<lists, applied, finalized, securityLists, created, flowLogs>>
  /\ Remember(s)
  /\ KeepsNsgs

(* A spell that registers all its rules, finalises, and creates resources. *)
Finalizing(s) ==
  /\ CanBuild(s.kind)
  /\ RegisterAndFinalize(CallsOf(s))
  /\ Remember(s)
  /\ KeepsNsgs

ScalableWorkload(port, public) ==
  Finalizing(Spell("ScalableWorkload", "private", "", <<port>>, public))

LoadBalancer(port) ==
  Finalizing(Spell("LoadBalancer", "public", "private", <<port>>, FALSE))

InternalLoadBalancer(port) ==
  Finalizing(Spell("InternalLoadBalancer", "private", "private", <<port>>, FALSE))

OkeCluster(kubectl) ==
  Finalizing(Spell("OkeCluster", "private", "public", <<>>, kubectl))

VcnFlowLogs == Finalizing(Spell("VcnFlowLogs", "", "", <<>>, FALSE))

Export == Finalizing(Spell("export", "", "", <<>>, FALSE))

(* Constructors that reject their own arguments first: no volumes, no client
   CIDRs, a script without a shebang, a port outside 1-65535, a wrong retention. *)
BadArguments(kind) ==
  /\ kind \in {"ComputeInstance", "Bastion", "ScalableWorkload", "LoadBalancer",
               "InternalLoadBalancer", "VcnFlowLogs"}
  /\ CanBuild(kind)
  /\ RejectArguments
  /\ KeepsNsgs /\ UNCHANGED built

-----------------------------------------------------------------------------

Init ==
  /\ VcnInit
  /\ role   = [n \in Nsgs |-> "absent"]
  /\ labels = [n \in Nsgs |-> {}]
  /\ built  = EmptyBag

(* Port lists of an Nsg (bound: none, one, or two, possibly the same one
   twice); only an INTERNET_EDGE Nsg reads them. *)
PortLists(r) ==
  IF r = "INTERNET_EDGE"
  THEN {<<>>} \cup {<<p>> : p \in Ports} \cup {pq \in Ports \X Ports : pq[1] <= pq[2]}
  ELSE {<<>>}

Next ==
  \/ \E n \in Nsgs, r \in Roles \cup {"none"} : \E ports \in PortLists(r) : NewNsg(n, r, ports)
  \/ \E n, m \in Nsgs, port \in Ports, ssh \in BOOLEAN : Serves(n, m, port, ssh)
  \/ \E tier \in Tiers : ComputeInstance(tier)
  \/ Bastion
  \/ \E port \in Ports, public \in BOOLEAN : ScalableWorkload(port, public)
  \/ \E port \in Ports : LoadBalancer(port)
  \/ \E port \in Ports : InternalLoadBalancer(port)
  \/ \E kubectl \in BOOLEAN : OkeCluster(kubectl)
  \/ VcnFlowLogs
  \/ Export
  \/ \E kind \in SpellKinds : BadArguments(kind)

Spec == Init /\ [][Next]_vars

-----------------------------------------------------------------------------

(* Values of the variables; the labels of an Nsg are those the code can write. *)
TypeOK ==
  /\ VcnTypeOK
  /\ role \in [Nsgs -> RoleNames \cup {"none", "absent", "failed"}]
  /\ \A n \in Nsgs : \A l \in labels[n] :
       /\ l.kind \in {"internet-in", "svc-out", "inet-out", "out", "in", "out-ssh", "in-ssh"}
       /\ l.peer \in Nsgs \cup {"internet", "services"}
       /\ l.port \in Ports \cup {SSH, AnyPort}
  /\ IsABag(built)

Built(kind) == {s \in BagToSet(built) : s.kind = kind}

(* What the subnet layer must let through for one interface-layer rule of n:
   <<direction, tier, port, peer>>.  Rules between Nsgs of one tier, or with an
   Nsg without a role, ask nothing of the security lists. *)
SubnetNeeds(n, l) ==
  CASE l.kind = "internet-in" -> {<<"ingress", TierOf(n), l.port, "internet">>}
    [] l.kind \in {"svc-out", "inet-out"} -> {<<"egress", TierOf(n), AnyPort, l.peer>>}
    [] OTHER ->
         IF HasRole(n) /\ HasRole(l.peer) /\ TierOf(n) # TierOf(l.peer)
         THEN {<<IF l.kind \in {"in", "in-ssh"} THEN "ingress" ELSE "egress",
                 TierOf(n), l.port, TierOf(l.peer)>>}
         ELSE {}

(* The two layers agree: whatever an Nsg rule between roles lets through, the
   security lists let through as well, so no declared relation is silently
   dropped at the subnet (docs/concepts/design.md, "Two layers of security
   enforcement").  A fingerprint that two different relations share, or a rule
   registered for the wrong tier or direction, breaks it. *)
DualLayer ==
  outcome = "ok" =>
    \A n \in Nsgs : \A l \in labels[n] : \A need \in SubnetNeeds(n, l) :
      Admits(BagToSet(lists), need[1], need[2], need[3], need[4])

(* What a completed spell needs of the security lists, as its documentation in
   the source gives it. *)
SpellNeeds(s) ==
  CASE s.kind = "ComputeInstance" -> {<<"ingress", s.at, SSH, ComputeSshSource(s.at)>>}
    [] s.kind = "Bastion" -> {<<"ingress", "private", SSH, "internet">>}
    [] s.kind = "LoadBalancer" \/ (s.kind = "ScalableWorkload" /\ s.opt) ->
         {<<"ingress", "public", HTTP, "internet">>, <<"ingress", "public", HTTPS, "internet">>,
          <<"egress", "public", s.ports[1], "private">>, <<"ingress", "private", s.ports[1], "public">>}
    [] s.kind = "ScalableWorkload" /\ ~s.opt ->
         {<<"ingress", "private", p, "vcn">> : p \in {HTTP, HTTPS, s.ports[1]}}
    [] s.kind = "InternalLoadBalancer" ->
         {<<"ingress", "private", HTTP, "vcn">>, <<"egress", "private", s.ports[1], "private">>}
    [] s.kind = "OkeCluster" ->
         {<<"egress", "private", 6443, "public">>, <<"ingress", "public", 6443, "private">>,
          <<"egress", "public", 10250, "private">>, <<"ingress", "private", 10250, "public">>}
    [] OTHER -> {}

(* A spell whose constructor returned finds its traffic admitted by the
   security lists OCI was given, whatever was built before it: it cannot have
   missed the finalisation or lost its rule to another spell's fingerprint. *)
SpellsServed ==
  outcome = "ok" =>
    \A s \in BagToSet(built) : \A need \in SpellNeeds(s) :
      Admits(BagToSet(securityLists), need[1], need[2], need[3], need[4])

(* Ports of the public tier that some spell was asked to open. *)
RequestedPorts ==
  (UNION {{s.ports[i] : i \in DOMAIN s.ports} : s \in {x \in Built("Nsg") : x.at = "INTERNET_EDGE"}})
  \cup (IF \E s \in Built("ComputeInstance") : s.at = "public" THEN {SSH} ELSE {})
  \cup (IF \/ Built("LoadBalancer") \cup Built("OkeCluster") # {}
           \/ \E s \in Built("ScalableWorkload") : s.opt
        THEN {HTTP, HTTPS} ELSE {})

(* A path that some completed spell declared: a serves relation between the two
   tiers, SSH to an instance from the tier its rule names (the private tier has
   egress to everywhere), and everything a public port is open to. *)
Declared(src, tgt, port) ==
  \/ \E s \in Built("serves") :
       s.at = src /\ s.to = tgt /\ (port = s.ports[1] \/ (s.opt /\ port = SSH))
  \/ port = SSH /\ \E s \in Built("ComputeInstance") : s.at = tgt /\ src = ComputeSshSource(tgt)
  \/ tgt = "public" /\ port \in RequestedPorts

(* Least privilege between tiers: the security lists open no TCP path from one
   tier to another that was not declared, however many relations and roles are
   combined (the lists belong to whole subnets, so rules of different relations
   could join into a path nobody asked for).  From the private to the secure tier
   this is the code's promise and not that of docs/reference/vcn-architecture.md,
   whose baseline opens every TCP port: _inject_baseline_rules adds egress only. *)
PathsDeclared ==
  outcome = "ok" =>
    \A src \in Tiers, tgt \in Tiers, port \in Ports \cup {SSH} :
      src # tgt /\ PathOpen(BagToSet(lists), src, tgt, port) => Declared(src, tgt, port)

(* Only what was asked for is open to the internet: requested ports on the
   public tier, SSH on the private tier once a Bastion was built, nothing on
   the secure and management tiers, and no way out of them or of the public
   tier (docs/concepts/network-topology.md). *)
ExposureExplained ==
  outcome = "ok" =>
    \A r \in {x \in BagToSet(lists) : x.peer = "internet" /\ x.proto # "icmp"} :
      \/ r.dir = "ingress" /\ r.tier = "public" /\ r.port \in RequestedPorts
      \/ r = BastionRule /\ Built("Bastion") # {}
      \/ r.dir = "egress" /\ r.tier = "private"

CallsMade == UNION {{CallsOf(s)[i] : i \in DOMAIN CallsOf(s)} : s \in BagToSet(built)}

(* Copies of r owed to fingerprinted calls: one per distinct call. *)
KeyedCopies(r) == Cardinality({c \in CallsMade : c.fp # NoFingerprint /\ c.rules[1] = r})

(* Copies of r owed to plain calls: one per spell that made them. *)
PlainSites(s, r) ==
  LET calls == CallsOf(s) IN
  {site \in UNION {{i} \X (DOMAIN calls[i].rules) : i \in DOMAIN calls} :
     calls[site[1]].fp = NoFingerprint /\ RuleAt(calls, site) = r}

PlainCopies(r) ==
  Cardinality(UNION {(1..built[s]) \X {s} \X PlainSites(s, r) : s \in BagToSet(built)})

(* The order in which spells are built has no influence on the security lists:
   they are a function of the bag of completed spells ("rule accumulation is
   order-independent within a stack", docs/concepts/design.md). *)
OrderIndependent ==
  outcome = "ok" =>
    \A r \in BagToSet(lists) \cup {c.rules[1] : c \in CallsMade} :
      CopiesOf(r, lists) =
        CopiesOf(r, BagOf(VcnSeedRules)) + KeyedCopies(r) + PlainCopies(r)
          + (IF finalized THEN CopiesOf(r, BagOf(VcnBaselineRules)) ELSE 0)

(* The Vcn of a program of spells keeps the promise of the abstract ledger. *)
KeepsLedger == Ledger!Spec
=============================================================================
