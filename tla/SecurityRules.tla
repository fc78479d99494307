--------------------------- MODULE SecurityRules ----------------------------
(***************************************************************************)
(* The vocabulary of security-list rules: tiers, roles, the rules each     *)
(* spell contributes and the fingerprints they carry.  Every operator is   *)
(* the list of registration calls one spell makes, in the order it makes   *)
(* them (providers/oci/nsg.py, compute.py, bastion.py, autoscale.py,       *)
(* loadbalancer.py, kubernetes.py and network.py).                         *)
(*                                                                         *)
(* A CIDR is named for what it covers: "internet" is 0.0.0.0/0, "vcn" the  *)
(* whole VCN, a tier its subnet, "services" the OCI service CIDR and       *)
(* "kubectl" a CIDR of the administrators.                                 *)
(***************************************************************************)
EXTENDS Integers, Sequences

Tiers == {"public", "private", "secure", "management"}
Peers == Tiers \cup {"internet", "vcn", "services", "kubectl"}

SSH       == 22
HTTP      == 80
HTTPS     == 443
AnyPort   == 0      \* no port restriction
NodePorts == 30000  \* stands for the range 30000-32767

(***************************************************************************)
(* Roles                                                                   *)
(***************************************************************************)

Role(tier, internet, services, ssh) ==
  [subnet_tier |-> tier, egress_internet |-> internet,
   egress_services |-> services, accept_management_ssh |-> ssh]

RoleSpec ==
  [INTERNET_EDGE |-> Role("public",     FALSE, FALSE, FALSE),
   APP_SERVER    |-> Role("private",    TRUE,  TRUE,  TRUE),
   CACHE         |-> Role("private",    TRUE,  TRUE,  TRUE),
   DATABASE      |-> Role("secure",     FALSE, TRUE,  TRUE),
   MANAGEMENT    |-> Role("management", FALSE, TRUE,  TRUE)]

RoleNames == DOMAIN RoleSpec

(***************************************************************************)
(* Rules and fingerprints                                                  *)
(***************************************************************************)

SecurityRule(tier, dir, proto, port, peer) ==
  [tier |-> tier, dir |-> dir, proto |-> proto, port |-> port, peer |-> peer]

IngressTcp(tier, port, peer) == SecurityRule(tier, "ingress", "tcp", port, peer)
EgressTcp(tier, port, peer)  == SecurityRule(tier, "egress", "tcp", port, peer)
EgressAll(tier, peer)        == SecurityRule(tier, "egress", "all", AnyPort, peer)

(* Fingerprint strings differ exactly when one of these five parts does:
   the owner prefix, the tier, the direction, the port and the other end. *)
FingerprintRecord(owner, tier, dir, port, other) ==
  [owner |-> owner, tier |-> tier, dir |-> dir, port |-> port, other |-> other]

NoFingerprint == FingerprintRecord("none", "", "", AnyPort, "")

Directions == {"ingress", "egress"}

SpellRule(ports) ==
  [tier : Tiers, dir : Directions, proto : {"tcp", "icmp", "all"},
   port : ports \cup {SSH, HTTP, HTTPS, AnyPort, NodePorts, 6443, 10250, 10256, 12250},
   peer : Peers]

SpellFingerprint(ports) ==
  [owner : {"", "compute", "bastion", "lb"}, tier : Tiers, dir : Directions,
   port : ports \cup {SSH, HTTP, HTTPS, AnyPort}, other : Peers \cup {""}]

Keyed(fp, rule) == [fp |-> fp, rules |-> <<rule>>]
Plain(rules)    == [fp |-> NoFingerprint, rules |-> rules]

(***************************************************************************)
(* What Vcn itself contributes                                             *)
(***************************************************************************)

(* Path-MTU and destination-unreachable ICMP, put in by Vcn.__init__. *)
VcnSeedRules ==
  <<SecurityRule("public", "ingress", "icmp", AnyPort, "internet"),
    SecurityRule("public", "ingress", "icmp", AnyPort, "vcn")>>

(* NAT egress for the private tier, Service Gateway egress for every internal
   tier: _inject_baseline_rules.  The ingress from the private to the secure tier
   that docs/reference/vcn-architecture.md lists with them is not in the code. *)
VcnBaselineRules ==
  <<EgressAll("private", "internet"), EgressAll("private", "services"),
    EgressAll("secure", "services"), EgressAll("management", "services")>>

(***************************************************************************)
(* What the spells contribute                                              *)
(***************************************************************************)

OpenToInternet(port) ==
  Keyed(FingerprintRecord("", "public", "ingress", port, ""), IngressTcp("public", port, "internet"))

AmbientEgress(tier, peer) ==
  Keyed(FingerprintRecord("", tier, "egress", AnyPort, peer), EgressAll(tier, peer))

(* Nsg._apply_role_ambient_rules *)
AmbientCalls(role, ports) ==
  LET r == RoleSpec[role] IN
    (IF r.subnet_tier = "public" THEN [i \in DOMAIN ports |-> OpenToInternet(ports[i])] ELSE <<>>)
    \o (IF r.egress_services THEN <<AmbientEgress(r.subnet_tier, "services")>> ELSE <<>>)
    \o (IF r.egress_internet THEN <<AmbientEgress(r.subnet_tier, "internet")>> ELSE <<>>)

(* Fault: the ingress fingerprint does not name the source tier. *)
CrossTierBySource(src, tgt, port) ==
  <<Keyed(FingerprintRecord("", src, "egress", port, tgt), EgressTcp(src, port, tgt)),
    Keyed(FingerprintRecord("", tgt, "ingress", port, ""), IngressTcp(tgt, port, src))>>

(* Fault: tcp_options forgotten. *)
CrossTierAnyPort(src, tgt, port) ==
  <<Keyed(FingerprintRecord("", src, "egress", port, tgt), EgressTcp(src, AnyPort, tgt)),
    Keyed(FingerprintRecord("", tgt, "ingress", port, src), IngressTcp(tgt, AnyPort, src))>>

(* One port from one tier to another: egress on the source tier's list, then
   ingress on the target tier's. *)
CrossTier(src, tgt, port) ==
  <<Keyed(FingerprintRecord("", src, "egress", port, tgt), EgressTcp(src, port, tgt)),
    Keyed(FingerprintRecord("", tgt, "ingress", port, src), IngressTcp(tgt, port, src))>>

(* Fault: no SSH channel. *)
ServesCallsWithoutSsh(src, tgt, port, ssh) ==
  IF src = tgt THEN <<>> ELSE CrossTier(src, tgt, port)

(* Fault: the SSH channel is always opened. *)
ServesCallsAlwaysSsh(src, tgt, port, ssh) ==
  IF src = tgt THEN <<>> ELSE CrossTier(src, tgt, port) \o CrossTier(src, tgt, SSH)

(* Nsg.serves, between the tiers of two roles. *)
ServesCalls(src, tgt, port, ssh) ==
  IF src = tgt THEN <<>>
  ELSE CrossTier(src, tgt, port) \o (IF ssh THEN CrossTier(src, tgt, SSH) ELSE <<>>)

(* Fault: every tier but the private one answers the internet. *)
ComputeSshSourceOpen(tier) == IF tier = "private" THEN "public" ELSE "internet"

(* ComputeInstance._add_compute_security_rules *)
ComputeSshSource(tier) ==
  IF tier \in {"secure", "management"} THEN "private"
  ELSE IF tier = "private" THEN "public" ELSE "internet"

ComputeCalls(tier) ==
  IF tier = "public" THEN <<OpenToInternet(SSH)>>
  ELSE <<Keyed(FingerprintRecord("compute", tier, "ingress", SSH, ""),
               IngressTcp(tier, SSH, ComputeSshSource(tier)))>>

(* Fault: the string ComputeInstance uses for the private tier. *)
BastionFingerprintShared == FingerprintRecord("compute", "private", "ingress", SSH, "")

(* Bastion._add_bastion_security_rules *)
BastionFingerprint == FingerprintRecord("bastion", "private", "ingress", SSH, "")
BastionRule        == IngressTcp("private", SSH, "internet")
BastionCalls       == <<Keyed(BastionFingerprint, BastionRule)>>

BackendPath(port) == <<EgressTcp("public", port, "private"), IngressTcp("private", port, "public")>>

(* ScalableWorkload._add_scalable_workload_security_rules *)
WorkloadCalls(public, port) ==
  IF public
  THEN <<OpenToInternet(HTTP), OpenToInternet(HTTPS), Plain(BackendPath(port))>>
  ELSE <<Plain(<<IngressTcp("private", HTTP, "vcn"), IngressTcp("private", HTTPS, "vcn"),
                 IngressTcp("private", port, "vcn")>>)>>

(* LoadBalancer._add_security_rules *)
LbOpen(port) ==
  Keyed(FingerprintRecord("lb", "public", "ingress", port, ""), IngressTcp("public", port, "internet"))

LoadBalancerCalls(port) == <<LbOpen(HTTP), LbOpen(HTTPS), Plain(BackendPath(port))>>

(* Fault: the internal listener answers the internet. *)
InternalLbCallsOpen(port) ==
  <<Keyed(FingerprintRecord("lb", "private", "ingress", HTTP, ""), IngressTcp("private", HTTP, "internet")),
    Plain(<<EgressTcp("private", port, "private")>>)>>

(* InternalLoadBalancer._add_security_rules *)
InternalLbCalls(port) ==
  <<Keyed(FingerprintRecord("lb", "private", "ingress", HTTP, ""), IngressTcp("private", HTTP, "vcn")),
    Plain(<<EgressTcp("private", port, "private")>>)>>

(* Fault: the nodes cannot reach the endpoint, as if it were in their subnet. *)
OkePublicIngressNoApi(kubectl) ==
  <<IngressTcp("public", 12250, "private"),
    IngressTcp("public", HTTPS, "internet"), IngressTcp("public", HTTP, "internet")>>
    \o [i \in 1..kubectl |-> IngressTcp("public", 6443, "kubectl")]

(* _OkeClusterMixin._add_oke_security_lists_rules, one operator per list.
   kubectl is the number of administrator CIDRs. *)
OkePublicIngress(kubectl) ==
  <<IngressTcp("public", 6443, "private"), IngressTcp("public", 12250, "private"),
    IngressTcp("public", HTTPS, "internet"), IngressTcp("public", HTTP, "internet")>>
    \o [i \in 1..kubectl |-> IngressTcp("public", 6443, "kubectl")]

OkePublicEgress ==
  <<EgressTcp("public", AnyPort, "services"), EgressTcp("public", 10250, "private"),
    EgressTcp("public", NodePorts, "private"), EgressTcp("public", 10256, "private"),
    EgressAll("public", "private")>>

OkePrivateIngress ==
  <<IngressTcp("private", 10250, "public"), IngressTcp("private", NodePorts, "public"),
    IngressTcp("private", 10256, "public"),
    SecurityRule("private", "ingress", "all", AnyPort, "public")>>

OkePrivateEgress ==
  <<EgressTcp("private", AnyPort, "services"), EgressTcp("private", 6443, "public"),
    EgressTcp("private", 12250, "public"), EgressTcp("private", HTTPS, "internet"),
    EgressTcp("private", HTTP, "internet")>>

(* They reach the Vcn in one call. *)
OkeCalls(kubectl) ==
  <<Plain(OkePublicIngress(kubectl) \o OkePublicEgress \o OkePrivateIngress \o OkePrivateEgress)>>

(***************************************************************************)
(* Does a bag or set of rules let traffic through?  (OCI: a rule admits a  *)
(* packet of its direction, protocol, port range and peer.)                *)
(***************************************************************************)

CoveredBy(peer) == {peer, "internet"} \cup (IF peer \in Tiers THEN {"vcn"} ELSE {})

Admits(rules, dir, tier, port, peer) ==
  \E r \in rules :
    /\ r.dir = dir /\ r.tier = tier
    /\ r.proto \in {"tcp", "all"}
    /\ r.port \in {port, AnyPort}
    /\ r.peer \in CoveredBy(peer)

(* TCP from one tier to another needs an egress and an ingress rule. *)
PathOpen(rules, src, tgt, port) ==
  /\ Admits(rules, "egress", src, port, tgt)
  /\ Admits(rules, "ingress", tgt, port, src)
=============================================================================
