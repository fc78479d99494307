------------------------- MODULE SpellProgramProofs -------------------------
(***************************************************************************)
(* Theorems about every program of spells on one Vcn, of any length and in *)
(* any order.  Four parts: which rules each spell makes (Brings), that a   *)
(* step completes one spell or raises (StepIsSpell), the inductive         *)
(* invariants (ProgramInv for any program; Registered, Accounted and       *)
(* Counted for one that ends with its first exception, as Python programs  *)
(* do), and what follows from them for the traffic.                        *)
(***************************************************************************)
EXTENDS SpellProgram, BagLemmas, SequenceTheorems, WellFoundedInduction

-----------------------------------------------------------------------------
(* Sequences *)

(* What stands in a sequence. *)
Each(q) == {q[i] : i \in DOMAIN q}

(* A concatenation holds what its parts hold. *)
LEMMA EachConcat ==
  ASSUME NEW S, NEW p \in Seq(S), NEW q \in Seq(S)
  PROVE  p \o q \in Seq(S) /\ Each(p \o q) = Each(p) \cup Each(q)
<1>1. p \o q \in Seq(S)
  OBVIOUS
<1>2. ASSUME NEW i \in DOMAIN p PROVE i \in DOMAIN (p \o q) /\ (p \o q)[i] = p[i]
  OBVIOUS
<1>3. ASSUME NEW i \in DOMAIN q
      PROVE  Len(p) + i \in DOMAIN (p \o q) /\ (p \o q)[Len(p) + i] = q[i]
  OBVIOUS
<1>4. ASSUME NEW i \in DOMAIN (p \o q)
      PROVE  (i \in DOMAIN p /\ (p \o q)[i] = p[i])
               \/ (i - Len(p) \in DOMAIN q /\ (p \o q)[i] = q[i - Len(p)])
  OBVIOUS
<1>5. Each(p \o q) \subseteq Each(p) \cup Each(q)
  BY <1>4 DEF Each
<1>6. Each(p) \subseteq Each(p \o q)
  BY <1>2 DEF Each
<1>7. Each(q) \subseteq Each(p \o q)
  BY <1>3 DEF Each
<1> QED BY <1>1, <1>5, <1>6, <1>7

(* Short sequences. *)
LEMMA EachShort ==
  /\ Each(<<>>) = {}
  /\ \A a : Each(<<a>>) = {a}
  /\ \A a, b : Each(<<a, b>>) = {a, b}
  /\ \A a, b, c : Each(<<a, b, c>>) = {a, b, c}
  /\ \A a, b, c, d : Each(<<a, b, c, d>>) = {a, b, c, d}
  /\ \A a, b, c, d, e : Each(<<a, b, c, d, e>>) = {a, b, c, d, e}
<1>1. Each(<<>>) = {}  BY DEF Each
<1>2. ASSUME NEW a PROVE Each(<<a>>) = {a}  BY DEF Each
<1>3. ASSUME NEW a, NEW b PROVE Each(<<a, b>>) = {a, b}
  <2>1. DOMAIN <<a, b>> = {1, 2}  OBVIOUS
  <2> QED BY <2>1 DEF Each
<1>4. ASSUME NEW a, NEW b, NEW c PROVE Each(<<a, b, c>>) = {a, b, c}
  <2>1. DOMAIN <<a, b, c>> = {1, 2, 3}  OBVIOUS
  <2> QED BY <2>1 DEF Each
<1>5. ASSUME NEW a, NEW b, NEW c, NEW d PROVE Each(<<a, b, c, d>>) = {a, b, c, d}
  <2>1. DOMAIN <<a, b, c, d>> = {1, 2, 3, 4}  OBVIOUS
  <2> QED BY <2>1 DEF Each
<1>6. ASSUME NEW a, NEW b, NEW c, NEW d, NEW e PROVE Each(<<a, b, c, d, e>>) = {a, b, c, d, e}
  <2>1. DOMAIN <<a, b, c, d, e>> = {1, 2, 3, 4, 5}  OBVIOUS
  <2> QED BY <2>1 DEF Each
<1> QED BY <1>1, <1>2, <1>3, <1>4, <1>5, <1>6

(* The first place where something stands. *)
LEMMA FirstPlace ==
  ASSUME NEW T \in SUBSET Nat, T # {}
  PROVE  \E x \in T : \A y \in T : x <= y
<1> DEFINE R == OpToRel(<, Nat)
<1>1. \E x \in T : \A y \in T : ~(<<y, x>> \in R)
  BY NatLessThanWellFounded, WFMin
<1>2. \A x, y \in Nat : <<y, x>> \in R <=> y < x
  BY DEF OpToRel
<1> HIDE DEF R
<1>3. PICK x \in T : \A y \in T : ~(y < x)
  BY <1>1, <1>2
<1> QED BY <1>3

-----------------------------------------------------------------------------
(* Roles and rules *)

(* The public tier has one role; only the roles of the private tier reach the
   internet. *)
LEMMA RoleFacts ==
  ASSUME NEW r \in RoleNames
  PROVE  /\ RoleSpec[r].subnet_tier \in Tiers
         /\ RoleSpec[r].egress_services \in BOOLEAN
         /\ RoleSpec[r].egress_internet \in BOOLEAN
         /\ RoleSpec[r].accept_management_ssh \in BOOLEAN
         /\ RoleSpec[r].subnet_tier = "public" <=> r = "INTERNET_EDGE"
         /\ RoleSpec[r].egress_internet => RoleSpec[r].subnet_tier = "private"
<1>1. r \in {"INTERNET_EDGE", "APP_SERVER", "CACHE", "DATABASE", "MANAGEMENT"}
  BY DEF RoleNames, RoleSpec
<1>2. CASE r = "INTERNET_EDGE"  BY <1>2 DEF RoleSpec, Role, Tiers
<1>3. CASE r = "APP_SERVER"  BY <1>3 DEF RoleSpec, Role, Tiers
<1>4. CASE r = "CACHE"  BY <1>4 DEF RoleSpec, Role, Tiers
<1>5. CASE r = "DATABASE"  BY <1>5 DEF RoleSpec, Role, Tiers
<1>6. CASE r = "MANAGEMENT"  BY <1>6 DEF RoleSpec, Role, Tiers
<1> QED BY <1>1, <1>2, <1>3, <1>4, <1>5, <1>6

Numbers == Ports \cup {SSH, HTTP, HTTPS, AnyPort, NodePorts, 6443, 10250, 10256, 12250}

(* The rules spells make are rules. *)
LEMMA RuleTyped ==
  ASSUME NEW tier \in Tiers, NEW port \in Numbers, NEW peer \in Peers
  PROVE  /\ IngressTcp(tier, port, peer) \in SpellRule(Ports)
         /\ EgressTcp(tier, port, peer) \in SpellRule(Ports)
         /\ EgressAll(tier, peer) \in SpellRule(Ports)
         /\ SecurityRule(tier, "ingress", "all", port, peer) \in SpellRule(Ports)
         /\ SecurityRule(tier, "ingress", "icmp", port, peer) \in SpellRule(Ports)
  BY DEF Numbers, IngressTcp, EgressTcp, EgressAll, SecurityRule, SpellRule, Directions

(* Their fingerprints are fingerprints, and none is "no fingerprint". *)
LEMMA FingerprintTyped ==
  ASSUME NEW owner \in {"", "compute", "bastion", "lb"}, NEW tier \in Tiers, NEW dir \in Directions,
         NEW port \in Ports \cup {SSH, HTTP, HTTPS, AnyPort}, NEW other \in Peers \cup {""}
  PROVE  /\ FingerprintRecord(owner, tier, dir, port, other) \in SpellFingerprint(Ports)
         /\ FingerprintRecord(owner, tier, dir, port, other) # NoFingerprint
  BY DEF FingerprintRecord, SpellFingerprint, NoFingerprint

-----------------------------------------------------------------------------
(* Registration calls *)

(* The rule that a fingerprint stands for.  That there is one is what
   add_unique_security_list_rules relies on when it drops a second call. *)
RuleOf(fp) ==
  CASE fp.owner = "compute" -> IngressTcp(fp.tier, SSH, ComputeSshSource(fp.tier))
    [] fp.owner = "bastion" -> BastionRule
    [] fp.owner = "lb"      -> IngressTcp(fp.tier, fp.port, IF fp.tier = "public" THEN "internet" ELSE "vcn")
    [] OTHER ->
         IF fp.dir = "egress"
         THEN IF fp.port = AnyPort THEN EgressAll(fp.tier, fp.other) ELSE EgressTcp(fp.tier, fp.port, fp.other)
         ELSE IngressTcp(fp.tier, fp.port, IF fp.other = "" THEN "internet" ELSE fp.other)

IsKeyed(c) ==
  /\ c.fp \in SpellFingerprint(Ports) /\ c.fp # NoFingerprint
  /\ c = Keyed(c.fp, RuleOf(c.fp))
  /\ RuleOf(c.fp) \in SpellRule(Ports)

IsPlain(c) == c = Plain(c.rules) /\ c.rules \in Seq(SpellRule(Ports))

WellMade == {c \in Call : IsKeyed(c) \/ IsPlain(c)}

(* A call with a fingerprint is well made when its rule is the fingerprint's. *)
LEMMA KeyedMade ==
  ASSUME NEW fp \in SpellFingerprint(Ports), fp # NoFingerprint, RuleOf(fp) \in SpellRule(Ports)
  PROVE  /\ Keyed(fp, RuleOf(fp)) \in WellMade
         /\ Each(Keyed(fp, RuleOf(fp)).rules) = {RuleOf(fp)}
<1> DEFINE r == RuleOf(fp)
           c == Keyed(fp, r)
<1>1. <<r>> \in Seq(SpellRule(Ports))
  OBVIOUS
<1>2. c.fp = fp /\ c.rules = <<r>> /\ c \in Call
  BY <1>1 DEF Keyed, Call
<1>3. IsKeyed(c)
  BY <1>2 DEF IsKeyed, Keyed
<1> QED BY <1>2, <1>3, EachShort DEF WellMade

(* A plain call brings the rules it is given. *)
LEMMA PlainMade ==
  ASSUME NEW rules \in Seq(SpellRule(Ports))
  PROVE  /\ Plain(rules) \in WellMade
         /\ Plain(rules).rules = rules
<1> DEFINE c == Plain(rules)
<1>1. c.fp = NoFingerprint /\ c.rules = rules /\ c \in Call
  BY DEF Plain, Call
<1>2. IsPlain(c)
  BY <1>1 DEF IsPlain
<1> QED BY <1>1, <1>2 DEF WellMade

(* Application ports are numbers; none of them stands for "any". *)
LEMMA PortFacts ==
  ASSUME NEW p \in Ports \cup {SSH, HTTP, HTTPS}
  PROVE  /\ p # AnyPort
         /\ p \in Ports \cup {SSH, HTTP, HTTPS, AnyPort}
         /\ p \in Numbers
<1>1. p \in Numbers /\ p \in Ports \cup {SSH, HTTP, HTTPS, AnyPort}
  BY DEF Numbers
<1>2. p # AnyPort
  <2>1. \A q \in Ports : q # 0
    BY PortsAssumption
  <2> QED BY <2>1 DEF AnyPort, SSH, HTTP, HTTPS
<1> QED BY <1>1, <1>2

(* The calls spells make, one by one. *)
LEMMA OpenMade ==
  ASSUME NEW p \in Ports \cup {SSH, HTTP, HTTPS}
  PROVE  /\ OpenToInternet(p) \in WellMade
         /\ Each(OpenToInternet(p).rules) = {IngressTcp("public", p, "internet")}
<1> DEFINE fp == FingerprintRecord("", "public", "ingress", p, "")
<1>1. fp \in SpellFingerprint(Ports) /\ fp # NoFingerprint
  BY PortFacts, FingerprintTyped DEF Tiers, Directions
<1>2. RuleOf(fp) = IngressTcp("public", p, "internet")
  BY DEF RuleOf, FingerprintRecord
<1>3. RuleOf(fp) \in SpellRule(Ports)
  BY <1>2, PortFacts, RuleTyped DEF Tiers, Peers
<1>4. OpenToInternet(p) = Keyed(fp, RuleOf(fp))
  BY <1>2 DEF OpenToInternet
<1> HIDE DEF fp
<1> QED BY <1>1, <1>2, <1>3, <1>4, KeyedMade

(* An ambient-egress call brings its one rule, on its own fingerprint. *)
LEMMA AmbientMade ==
  ASSUME NEW tier \in Tiers, NEW peer \in {"services", "internet"}
  PROVE  /\ AmbientEgress(tier, peer) \in WellMade
         /\ Each(AmbientEgress(tier, peer).rules) = {EgressAll(tier, peer)}
<1> DEFINE fp == FingerprintRecord("", tier, "egress", AnyPort, peer)
<1>1. fp \in SpellFingerprint(Ports) /\ fp # NoFingerprint
  BY FingerprintTyped DEF Peers, Directions
<1>2. RuleOf(fp) = EgressAll(tier, peer)
  BY DEF RuleOf, FingerprintRecord
<1>3. RuleOf(fp) \in SpellRule(Ports)
  <2>1. peer \in Peers /\ AnyPort \in Numbers
    BY DEF Peers, Numbers
  <2> QED BY <1>2, <2>1, RuleTyped
<1>4. AmbientEgress(tier, peer) = Keyed(fp, RuleOf(fp))
  BY <1>2 DEF AmbientEgress
<1> HIDE DEF fp
<1> QED BY <1>1, <1>2, <1>3, <1>4, KeyedMade

OutCall(src, tgt, p) == Keyed(FingerprintRecord("", src, "egress", p, tgt), EgressTcp(src, p, tgt))
InCall(src, tgt, p)  == Keyed(FingerprintRecord("", tgt, "ingress", p, src), IngressTcp(tgt, p, src))

(* The two calls of a cross-tier channel bring its two ends. *)
LEMMA CrossTierMade ==
  ASSUME NEW src \in Tiers, NEW tgt \in Tiers, NEW p \in Ports \cup {SSH}
  PROVE  /\ OutCall(src, tgt, p) \in WellMade /\ InCall(src, tgt, p) \in WellMade
         /\ Each(OutCall(src, tgt, p).rules) = {EgressTcp(src, p, tgt)}
         /\ Each(InCall(src, tgt, p).rules) = {IngressTcp(tgt, p, src)}
<1> DEFINE f == FingerprintRecord("", src, "egress", p, tgt)
           g == FingerprintRecord("", tgt, "ingress", p, src)
<1>1. /\ f \in SpellFingerprint(Ports) /\ f # NoFingerprint
      /\ g \in SpellFingerprint(Ports) /\ g # NoFingerprint
  BY PortFacts, FingerprintTyped DEF Tiers, Peers, Directions
<1>2. RuleOf(f) = EgressTcp(src, p, tgt) /\ RuleOf(g) = IngressTcp(tgt, p, src)
  BY PortFacts DEF RuleOf, FingerprintRecord, Tiers
<1>3. RuleOf(f) \in SpellRule(Ports) /\ RuleOf(g) \in SpellRule(Ports)
  BY <1>2, PortFacts, RuleTyped DEF Peers
<1>4. OutCall(src, tgt, p) = Keyed(f, RuleOf(f)) /\ InCall(src, tgt, p) = Keyed(g, RuleOf(g))
  BY <1>2 DEF OutCall, InCall
<1> HIDE DEF f, g
<1> QED BY <1>1, <1>2, <1>3, <1>4, KeyedMade

(* A call fingerprinted by a spell of its own (an instance, a bastion, a load
   balancer) brings the rule its fingerprint stands for. *)
LEMMA OwnedMade ==
  ASSUME NEW fp \in SpellFingerprint(Ports), fp.owner \in {"compute", "bastion", "lb"}, fp.port \in Numbers
  PROVE  /\ Keyed(fp, RuleOf(fp)) \in WellMade
         /\ Each(Keyed(fp, RuleOf(fp)).rules) = {RuleOf(fp)}
<1>1. fp # NoFingerprint
  <2>1. NoFingerprint.owner = "none"
    BY DEF NoFingerprint, FingerprintRecord
  <2>2. fp.owner # "none"
    OBVIOUS
  <2> QED BY <2>1, <2>2
<1>2. fp.tier \in Tiers
  BY DEF SpellFingerprint
<1>3. ComputeSshSource(fp.tier) \in Peers /\ "private" \in Tiers /\ "internet" \in Peers /\ "vcn" \in Peers
  BY DEF ComputeSshSource, Peers, Tiers
<1>4. SSH \in Numbers
  BY DEF Numbers
<1>5. RuleOf(fp) \in SpellRule(Ports)
  BY <1>2, <1>3, <1>4, RuleTyped DEF RuleOf, BastionRule
<1> QED BY <1>1, <1>5, KeyedMade

-----------------------------------------------------------------------------
(* The calls and the rules of each spell *)

RulesIn(calls) == UNION {Each(c.rules) : c \in calls}

RulesMade(s) == RulesIn(Each(CallsOf(s)))

(* What a spell brings to an open Vcn: well-made calls with these rules. *)
Brings(s, rules) == CallsOf(s) \in Seq(WellMade) /\ RulesMade(s) = rules

NsgRules(r, ports) ==
  {IngressTcp("public", p, "internet") : p \in IF r = "INTERNET_EDGE" THEN Each(ports) ELSE {}}
    \cup {EgressAll(RoleSpec[r].subnet_tier, peer) :
            peer \in {q \in {"services", "internet"} :
                        IF q = "services" THEN RoleSpec[r].egress_services
                                          ELSE RoleSpec[r].egress_internet}}

(* The calls of an Nsg with a role bring the ambient rules of that role. *)
LEMMA NsgBrings ==
  ASSUME NEW r \in RoleNames, NEW ports \in Seq(Ports)
  PROVE  Brings(Spell("Nsg", r, "", ports, FALSE), NsgRules(r, ports))
<1> DEFINE s == Spell("Nsg", r, "", ports, FALSE)
           t == RoleSpec[r].subnet_tier
           P == IF t = "public" THEN [i \in DOMAIN ports |-> OpenToInternet(ports[i])] ELSE <<>>
           Q == IF RoleSpec[r].egress_services THEN <<AmbientEgress(t, "services")>> ELSE <<>>
           R == IF RoleSpec[r].egress_internet THEN <<AmbientEgress(t, "internet")>> ELSE <<>>
           open == {p \in Each(ports) : t = "public"}
           out == {q \in {"services", "internet"} :
                     IF q = "services" THEN RoleSpec[r].egress_services ELSE RoleSpec[r].egress_internet}
<1>1. t \in Tiers /\ (t = "public" <=> r = "INTERNET_EDGE")
  BY RoleFacts
<1>2. CallsOf(s) = (P \o Q) \o R
  <2>1. s.kind = "Nsg" /\ s.at = r /\ s.ports = ports /\ r # "none"
    BY DEF Spell, RoleNames, RoleSpec
  <2>2. CallsOf(s) = AmbientCalls(r, ports)
    BY <2>1 DEF CallsOf
  <2> QED BY <2>2 DEF AmbientCalls
<1>3. P \in Seq(WellMade) /\ Each(P) = {OpenToInternet(p) : p \in open}
  <2>1. CASE t = "public"
    <3>1. \A i \in DOMAIN ports : ports[i] \in Ports
      OBVIOUS
    <3>2. P \in [1..Len(ports) -> WellMade]
      BY <2>1, <3>1, OpenMade
    <3>3. P \in Seq(WellMade)
      BY <3>2, SeqDef
    <3> QED BY <2>1, <3>3 DEF Each
  <2>2. CASE t # "public"
    BY <2>2, EachShort
  <2> QED BY <2>1, <2>2
<1>4. /\ Q \in Seq(WellMade) /\ R \in Seq(WellMade)
      /\ Each(Q) \cup Each(R) = {AmbientEgress(t, q) : q \in out}
  <2>1. AmbientEgress(t, "services") \in WellMade /\ AmbientEgress(t, "internet") \in WellMade
    BY <1>1, AmbientMade
  <2>2. Each(Q) = IF RoleSpec[r].egress_services THEN {AmbientEgress(t, "services")} ELSE {}
    BY EachShort
  <2>3. Each(R) = IF RoleSpec[r].egress_internet THEN {AmbientEgress(t, "internet")} ELSE {}
    BY EachShort
  <2>4. Q \in Seq(WellMade) /\ R \in Seq(WellMade)
    BY <2>1
  <2> QED BY <2>2, <2>3, <2>4
<1> HIDE DEF P, Q, R
<1>5. P \o Q \in Seq(WellMade) /\ Each(P \o Q) = Each(P) \cup Each(Q)
  BY <1>3, <1>4, EachConcat
<1>6. CallsOf(s) \in Seq(WellMade) /\ Each(CallsOf(s)) = Each(P \o Q) \cup Each(R)
  <2> DEFINE PQ == P \o Q
  <2>1. PQ \in Seq(WellMade) /\ R \in Seq(WellMade) /\ CallsOf(s) = PQ \o R
    BY <1>2, <1>4, <1>5
  <2> HIDE DEF PQ, s
  <2>2. CallsOf(s) \in Seq(WellMade) /\ Each(CallsOf(s)) = Each(PQ) \cup Each(R)
    BY <2>1, EachConcat
  <2> QED BY <2>2 DEF PQ
<1>7. Each(CallsOf(s)) = {OpenToInternet(p) : p \in open} \cup {AmbientEgress(t, q) : q \in out}
  BY <1>3, <1>4, <1>5, <1>6
<1>8. \A p \in open : Each(OpenToInternet(p).rules) = {IngressTcp("public", p, "internet")}
  <2>1. open \subseteq Ports
    BY DEF Each
  <2> QED BY <2>1, OpenMade
<1>9. \A q \in out : Each(AmbientEgress(t, q).rules) = {EgressAll(t, q)}
  BY <1>1, AmbientMade
<1>10. RulesMade(s) = {IngressTcp("public", p, "internet") : p \in open} \cup {EgressAll(t, q) : q \in out}
  <2> HIDE DEF open, out, s, t
  <2>1. ASSUME NEW x \in RulesMade(s)
        PROVE  x \in {IngressTcp("public", p, "internet") : p \in open} \cup {EgressAll(t, q) : q \in out}
    <3>1. PICK c \in Each(CallsOf(s)) : x \in Each(c.rules)
      BY DEF RulesMade, RulesIn
    <3>2. CASE \E p \in open : c = OpenToInternet(p)
      BY <1>8, <3>1, <3>2
    <3>3. CASE \E q \in out : c = AmbientEgress(t, q)
      BY <1>9, <3>1, <3>3
    <3> QED BY <1>7, <3>2, <3>3
  <2>2. \A p \in open : IngressTcp("public", p, "internet") \in RulesMade(s)
    BY <1>7, <1>8 DEF RulesMade, RulesIn
  <2>3. \A q \in out : EgressAll(t, q) \in RulesMade(s)
    BY <1>7, <1>9 DEF RulesMade, RulesIn
  <2> QED BY <2>1, <2>2, <2>3
<1>11. open = IF r = "INTERNET_EDGE" THEN Each(ports) ELSE {}
  BY <1>1
<1> QED BY <1>6, <1>10, <1>11 DEF Brings, NsgRules

(* The rules of a few calls. *)
LEMMA RulesOfCalls ==
  /\ RulesIn({}) = {}
  /\ \A a : RulesIn({a}) = Each(a.rules)
  /\ \A a, b : RulesIn({a, b}) = Each(a.rules) \cup Each(b.rules)
  /\ \A a, b, d : RulesIn({a, b, d}) = Each(a.rules) \cup Each(b.rules) \cup Each(d.rules)
  /\ \A S, T : RulesIn(S \cup T) = RulesIn(S) \cup RulesIn(T)
<1>1. RulesIn({}) = {}  BY DEF RulesIn
<1>2. ASSUME NEW a PROVE RulesIn({a}) = Each(a.rules)  BY DEF RulesIn
<1>3. ASSUME NEW S, NEW T PROVE RulesIn(S \cup T) = RulesIn(S) \cup RulesIn(T)  BY DEF RulesIn
<1>4. ASSUME NEW a, NEW b PROVE RulesIn({a, b}) = Each(a.rules) \cup Each(b.rules)
  <2>1. {a, b} = {a} \cup {b}  OBVIOUS
  <2>2. RulesIn({a} \cup {b}) = RulesIn({a}) \cup RulesIn({b})  BY <1>3
  <2> QED BY <1>2, <2>1, <2>2, Zenon
<1>5. ASSUME NEW a, NEW b, NEW d
      PROVE  RulesIn({a, b, d}) = Each(a.rules) \cup Each(b.rules) \cup Each(d.rules)
  <2>1. {a, b, d} = {a, b} \cup {d}  OBVIOUS
  <2>2. RulesIn({a, b} \cup {d}) = RulesIn({a, b}) \cup RulesIn({d})  BY <1>3
  <2> QED BY <1>2, <1>4, <2>1, <2>2, Zenon
<1> QED BY <1>1, <1>2, <1>3, <1>4, <1>5

ChannelRules(src, tgt, p) == {EgressTcp(src, p, tgt), IngressTcp(tgt, p, src)}

ServesRules(src, tgt, port, ssh) ==
  IF src = tgt THEN {}
  ELSE ChannelRules(src, tgt, port) \cup (IF ssh THEN ChannelRules(src, tgt, SSH) ELSE {})

(* A cross-tier channel brings the rules of its two ends. *)
LEMMA ChannelBrings ==
  ASSUME NEW src \in Tiers, NEW tgt \in Tiers, NEW p \in Ports \cup {SSH}
  PROVE  /\ CrossTier(src, tgt, p) \in Seq(WellMade)
         /\ RulesIn(Each(CrossTier(src, tgt, p))) = ChannelRules(src, tgt, p)
<1> DEFINE a == OutCall(src, tgt, p)
           b == InCall(src, tgt, p)
<1>1. CrossTier(src, tgt, p) = <<a, b>>
  BY DEF CrossTier, OutCall, InCall
<1>2. /\ a \in WellMade /\ b \in WellMade
      /\ Each(a.rules) = {EgressTcp(src, p, tgt)} /\ Each(b.rules) = {IngressTcp(tgt, p, src)}
  BY CrossTierMade
<1> HIDE DEF a, b
<1>3. Each(<<a, b>>) = {a, b}
  BY EachShort
<1>4. RulesIn({a, b}) = Each(a.rules) \cup Each(b.rules)
  BY RulesOfCalls
<1> QED BY <1>1, <1>2, <1>3, <1>4 DEF ChannelRules

(* n.serves(m) brings a channel between their tiers, and one more for SSH when the
   target takes it; nothing within one tier. *)
LEMMA ServesBrings ==
  ASSUME NEW src, NEW tgt, src = tgt \/ {src, tgt} \subseteq Tiers,
         NEW port \in Ports, NEW ssh \in BOOLEAN
  PROVE  Brings(Spell("serves", src, tgt, <<port>>, ssh), ServesRules(src, tgt, port, ssh))
<1> DEFINE s == Spell("serves", src, tgt, <<port>>, ssh)
           P == CrossTier(src, tgt, port)
           Q == IF ssh THEN CrossTier(src, tgt, SSH) ELSE <<>>
<1>1. CallsOf(s) = ServesCalls(src, tgt, port, ssh)
  BY DEF Spell, CallsOf
<1>2. CASE src = tgt
  <2>1. CallsOf(s) = <<>>
    BY <1>1, <1>2 DEF ServesCalls
  <2> HIDE DEF s
  <2>2. RulesMade(s) = {}
    BY <2>1, EachShort, RulesOfCalls DEF RulesMade
  <2>3. CallsOf(s) \in Seq(WellMade)
    BY <2>1
  <2> QED BY <1>2, <2>2, <2>3 DEF Brings, ServesRules, s
<1>3. CASE src # tgt
  <2>1. CallsOf(s) = P \o Q
    BY <1>1, <1>3 DEF ServesCalls
  <2>2. /\ P \in Seq(WellMade)
        /\ RulesIn(Each(P)) = ChannelRules(src, tgt, port)
    BY <1>3, ChannelBrings
  <2>3. /\ Q \in Seq(WellMade)
        /\ RulesIn(Each(Q)) = IF ssh THEN ChannelRules(src, tgt, SSH) ELSE {}
    <3>1. CASE ssh
      BY <1>3, <3>1, ChannelBrings
    <3>2. CASE ~ssh
      BY <3>2, EachShort, RulesOfCalls
    <3> QED BY <3>1, <3>2
  <2> HIDE DEF P, Q, s
  <2>4. CallsOf(s) \in Seq(WellMade) /\ Each(CallsOf(s)) = Each(P) \cup Each(Q)
    BY <2>1, <2>2, <2>3, EachConcat
  <2>5. RulesMade(s) = ServesRules(src, tgt, port, ssh)
    BY <1>3, <2>2, <2>3, <2>4, RulesOfCalls DEF RulesMade, ServesRules
  <2> QED BY <2>4, <2>5 DEF Brings, s
<1> QED BY <1>2, <1>3

(* One call, and nothing else. *)
LEMMA SingleBrings ==
  ASSUME NEW s, NEW c \in WellMade, CallsOf(s) = <<c>>
  PROVE  Brings(s, Each(c.rules))
<1>1. Each(CallsOf(s)) = {c}
  BY EachShort
<1>2. CallsOf(s) \in Seq(WellMade)
  OBVIOUS
<1> QED BY <1>1, <1>2, RulesOfCalls DEF Brings, RulesMade

(* Nothing to bring. *)
LEMMA NothingBrought ==
  ASSUME NEW s, CallsOf(s) = <<>>
  PROVE  Brings(s, {})
<1>1. Each(CallsOf(s)) = {} /\ CallsOf(s) \in Seq(WellMade)
  BY EachShort
<1> QED BY <1>1, RulesOfCalls DEF Brings, RulesMade

(* A late instance, flow logs, an export and an Nsg without a role bring nothing. *)
LEMMA SilentBrings ==
  /\ \A tier : Brings(Spell("late ComputeInstance", tier, "", <<>>, FALSE), {})
  /\ Brings(Spell("VcnFlowLogs", "", "", <<>>, FALSE), {})
  /\ Brings(Spell("export", "", "", <<>>, FALSE), {})
  /\ \A ports : Brings(Spell("Nsg", "none", "", ports, FALSE), {})
<1>1. \A tier : CallsOf(Spell("late ComputeInstance", tier, "", <<>>, FALSE)) = <<>>
  BY DEF CallsOf, Spell
<1>2. CallsOf(Spell("VcnFlowLogs", "", "", <<>>, FALSE)) = <<>>
  BY DEF CallsOf, Spell
<1>3. CallsOf(Spell("export", "", "", <<>>, FALSE)) = <<>>
  BY DEF CallsOf, Spell
<1>4. \A ports : CallsOf(Spell("Nsg", "none", "", ports, FALSE)) = <<>>
  BY DEF CallsOf, Spell
<1> QED BY <1>1, <1>2, <1>3, <1>4, NothingBrought

(* A ComputeInstance brings SSH to its tier, from where that tier takes it. *)
LEMMA ComputeBrings ==
  ASSUME NEW tier \in Tiers
  PROVE  Brings(Spell("ComputeInstance", tier, "", <<>>, FALSE), {IngressTcp(tier, SSH, ComputeSshSource(tier))})
<1> DEFINE s == Spell("ComputeInstance", tier, "", <<>>, FALSE)
<1>1. CallsOf(s) = ComputeCalls(tier)
  BY DEF Spell, CallsOf
<1> HIDE DEF s
<1>2. CASE tier = "public"
  <2>1. CallsOf(s) = <<OpenToInternet(SSH)>>
    BY <1>1, <1>2 DEF ComputeCalls
  <2>2. ComputeSshSource(tier) = "internet"
    BY <1>2 DEF ComputeSshSource
  <2> QED BY <1>2, <2>1, <2>2, OpenMade, SingleBrings DEF s
<1>3. CASE tier # "public"
  <2> DEFINE fp == FingerprintRecord("compute", tier, "ingress", SSH, "")
  <2>1. fp \in SpellFingerprint(Ports) /\ fp.owner = "compute" /\ fp.port \in Numbers /\ fp.tier = tier
    BY DEF FingerprintRecord, SpellFingerprint, Directions, Numbers
  <2>2. RuleOf(fp) = IngressTcp(tier, SSH, ComputeSshSource(tier))
    BY <2>1 DEF RuleOf
  <2>3. CallsOf(s) = <<Keyed(fp, RuleOf(fp))>>
    BY <1>1, <1>3, <2>2 DEF ComputeCalls
  <2> HIDE DEF fp
  <2>4. Keyed(fp, RuleOf(fp)) \in WellMade /\ Each(Keyed(fp, RuleOf(fp)).rules) = {RuleOf(fp)}
    BY <2>1, OwnedMade
  <2> QED BY <2>2, <2>3, <2>4, SingleBrings DEF s
<1> QED BY <1>2, <1>3

(* A Bastion brings SSH from the internet to the private tier. *)
LEMMA BastionBrings ==
  Brings(Spell("Bastion", "private", "", <<>>, FALSE), {BastionRule})
<1> DEFINE s == Spell("Bastion", "private", "", <<>>, FALSE)
           fp == BastionFingerprint
<1>1. fp \in SpellFingerprint(Ports) /\ fp.owner = "bastion" /\ fp.port \in Numbers
  BY DEF BastionFingerprint, FingerprintRecord, SpellFingerprint, Directions, Tiers, Numbers
<1>2. RuleOf(fp) = BastionRule
  BY <1>1 DEF RuleOf
<1>3. CallsOf(s) = <<Keyed(fp, RuleOf(fp))>>
  BY <1>2 DEF CallsOf, Spell, BastionCalls
<1> HIDE DEF fp, s
<1>4. Keyed(fp, RuleOf(fp)) \in WellMade /\ Each(Keyed(fp, RuleOf(fp)).rules) = {RuleOf(fp)}
  BY <1>1, OwnedMade
<1> QED BY <1>2, <1>3, <1>4, SingleBrings DEF s

BackendRules(port) == {EgressTcp("public", port, "private"), IngressTcp("private", port, "public")}

WebRules == {IngressTcp("public", HTTP, "internet"), IngressTcp("public", HTTPS, "internet")}

(* The path to a backend has its two ends. *)
LEMMA BackendMade ==
  ASSUME NEW port \in Ports
  PROVE  /\ Plain(BackendPath(port)) \in WellMade
         /\ Each(Plain(BackendPath(port)).rules) = BackendRules(port)
<1> DEFINE a == EgressTcp("public", port, "private")
           b == IngressTcp("private", port, "public")
<1>1. a \in SpellRule(Ports) /\ b \in SpellRule(Ports)
  BY PortFacts, RuleTyped DEF Tiers, Peers
<1>2. BackendPath(port) = <<a, b>>
  BY DEF BackendPath
<1>3. BackendRules(port) = {a, b}
  BY DEF BackendRules
<1> HIDE DEF a, b
<1>4. <<a, b>> \in Seq(SpellRule(Ports))
  BY <1>1
<1>5. Plain(<<a, b>>) \in WellMade /\ Plain(<<a, b>>).rules = <<a, b>>
  BY <1>4, PlainMade
<1>6. Each(<<a, b>>) = {a, b}
  BY EachShort
<1> QED BY <1>2, <1>3, <1>5, <1>6

(* Two calls with a fingerprint and a plain one: the public entrances. *)
LEMMA ThreeBring ==
  ASSUME NEW s, NEW a \in WellMade, NEW b \in WellMade, NEW d \in WellMade, CallsOf(s) = <<a, b, d>>
  PROVE  Brings(s, Each(a.rules) \cup Each(b.rules) \cup Each(d.rules))
<1>1. Each(CallsOf(s)) = {a, b, d}
  BY EachShort
<1>2. CallsOf(s) \in Seq(WellMade)
  OBVIOUS
<1>3. RulesIn({a, b, d}) = Each(a.rules) \cup Each(b.rules) \cup Each(d.rules)
  BY RulesOfCalls
<1> QED BY <1>1, <1>2, <1>3 DEF Brings, RulesMade

WorkloadRules(port, public) ==
  IF public THEN WebRules \cup BackendRules(port)
  ELSE {IngressTcp("private", HTTP, "vcn"), IngressTcp("private", HTTPS, "vcn"),
        IngressTcp("private", port, "vcn")}

(* A ScalableWorkload brings the web ports and its backend path, or, when internal,
   its three ports from the Vcn. *)
LEMMA WorkloadBrings ==
  ASSUME NEW port \in Ports, NEW public \in BOOLEAN
  PROVE  Brings(Spell("ScalableWorkload", "private", "", <<port>>, public), WorkloadRules(port, public))
<1> DEFINE s == Spell("ScalableWorkload", "private", "", <<port>>, public)
<1>1. CallsOf(s) = WorkloadCalls(public, port)
  BY DEF CallsOf, Spell
<1> HIDE DEF s
<1>2. CASE public
  <2> DEFINE a == OpenToInternet(HTTP)
             b == OpenToInternet(HTTPS)
             d == Plain(BackendPath(port))
  <2>1. CallsOf(s) = <<a, b, d>>
    BY <1>1, <1>2 DEF WorkloadCalls
  <2>2. /\ a \in WellMade /\ b \in WellMade /\ d \in WellMade
        /\ Each(a.rules) \cup Each(b.rules) = WebRules /\ Each(d.rules) = BackendRules(port)
    BY OpenMade, BackendMade DEF WebRules
  <2> HIDE DEF a, b, d
  <2>3. Brings(s, Each(a.rules) \cup Each(b.rules) \cup Each(d.rules))
    BY <2>1, <2>2, ThreeBring
  <2>4. Each(a.rules) \cup Each(b.rules) \cup Each(d.rules) = WorkloadRules(port, public)
    BY <1>2, <2>2 DEF WorkloadRules
  <2> QED BY <2>3, <2>4 DEF s
<1>3. CASE ~public
  <2> DEFINE a == IngressTcp("private", HTTP, "vcn")
             b == IngressTcp("private", HTTPS, "vcn")
             d == IngressTcp("private", port, "vcn")
  <2>1. a \in SpellRule(Ports) /\ b \in SpellRule(Ports) /\ d \in SpellRule(Ports)
    BY PortFacts, RuleTyped DEF Tiers, Peers
  <2>2. CallsOf(s) = <<Plain(<<a, b, d>>)>>
    BY <1>1, <1>3 DEF WorkloadCalls
  <2>3. WorkloadRules(port, public) = {a, b, d}
    BY <1>3 DEF WorkloadRules
  <2> HIDE DEF a, b, d
  <2>4. <<a, b, d>> \in Seq(SpellRule(Ports))
    BY <2>1
  <2>5. Plain(<<a, b, d>>) \in WellMade /\ Each(Plain(<<a, b, d>>).rules) = {a, b, d}
    <3>1. Plain(<<a, b, d>>) \in WellMade /\ Plain(<<a, b, d>>).rules = <<a, b, d>>
      BY <2>4, PlainMade
    <3>2. Each(<<a, b, d>>) = {a, b, d}
      BY EachShort
    <3> QED BY <3>1, <3>2
  <2> QED BY <2>2, <2>3, <2>5, SingleBrings DEF s
<1> QED BY <1>2, <1>3

(* A load balancer's call brings its front port. *)
LEMMA LbMade ==
  ASSUME NEW tier \in {"public", "private"}, NEW p \in {HTTP, HTTPS}
  PROVE  LET peer == IF tier = "public" THEN "internet" ELSE "vcn"
             c    == Keyed(FingerprintRecord("lb", tier, "ingress", p, ""), IngressTcp(tier, p, peer))
         IN  c \in WellMade /\ Each(c.rules) = {IngressTcp(tier, p, peer)}
<1> DEFINE fp == FingerprintRecord("lb", tier, "ingress", p, "")
<1>1. fp \in SpellFingerprint(Ports) /\ fp.owner = "lb" /\ fp.port \in Numbers
  BY DEF FingerprintRecord, SpellFingerprint, Directions, Tiers, Numbers
<1>2. RuleOf(fp) = IngressTcp(tier, p, IF tier = "public" THEN "internet" ELSE "vcn")
  BY DEF RuleOf, FingerprintRecord
<1>3. Keyed(fp, RuleOf(fp)) \in WellMade /\ Each(Keyed(fp, RuleOf(fp)).rules) = {RuleOf(fp)}
  BY <1>1, OwnedMade
<1> QED BY <1>2, <1>3

(* A LoadBalancer brings the web ports and its backend path. *)
LEMMA LoadBalancerBrings ==
  ASSUME NEW port \in Ports
  PROVE  Brings(Spell("LoadBalancer", "public", "private", <<port>>, FALSE), WebRules \cup BackendRules(port))
<1> DEFINE s == Spell("LoadBalancer", "public", "private", <<port>>, FALSE)
           a == LbOpen(HTTP)
           b == LbOpen(HTTPS)
           d == Plain(BackendPath(port))
<1>1. CallsOf(s) = <<a, b, d>>
  BY DEF CallsOf, Spell, LoadBalancerCalls
<1>2. /\ a \in WellMade /\ b \in WellMade
      /\ Each(a.rules) \cup Each(b.rules) = WebRules
  BY LbMade DEF LbOpen, WebRules
<1>3. d \in WellMade /\ Each(d.rules) = BackendRules(port)
  BY BackendMade
<1> HIDE DEF s, a, b, d
<1>4. Brings(s, Each(a.rules) \cup Each(b.rules) \cup Each(d.rules))
  BY <1>1, <1>2, <1>3, ThreeBring
<1>5. Each(a.rules) \cup Each(b.rules) \cup Each(d.rules) = WebRules \cup BackendRules(port)
  BY <1>2, <1>3
<1> QED BY <1>4, <1>5 DEF s

InternalLbRules(port) == {IngressTcp("private", HTTP, "vcn"), EgressTcp("private", port, "private")}

(* An InternalLoadBalancer brings its front port and the way out to its backend. *)
LEMMA InternalLbBrings ==
  ASSUME NEW port \in Ports
  PROVE  Brings(Spell("InternalLoadBalancer", "private", "private", <<port>>, FALSE), InternalLbRules(port))
<1> DEFINE s == Spell("InternalLoadBalancer", "private", "private", <<port>>, FALSE)
           a == Keyed(FingerprintRecord("lb", "private", "ingress", HTTP, ""), IngressTcp("private", HTTP, "vcn"))
           e == EgressTcp("private", port, "private")
           b == Plain(<<e>>)
<1>1. CallsOf(s) = <<a, b>>
  BY DEF CallsOf, Spell, InternalLbCalls
<1>2. a \in WellMade /\ Each(a.rules) = {IngressTcp("private", HTTP, "vcn")}
  BY LbMade
<1>3. b \in WellMade /\ Each(b.rules) = {e}
  <2>1. <<e>> \in Seq(SpellRule(Ports))
    BY PortFacts, RuleTyped DEF Tiers, Peers
  <2> HIDE DEF e
  <2> QED BY <2>1, PlainMade, EachShort
<1> HIDE DEF s, a, b
<1>4. Each(CallsOf(s)) = {a, b} /\ CallsOf(s) \in Seq(WellMade)
  BY <1>1, <1>2, <1>3, EachShort
<1>5. RulesIn({a, b}) = Each(a.rules) \cup Each(b.rules)
  BY RulesOfCalls
<1>6. RulesMade(s) = InternalLbRules(port)
  BY <1>2, <1>3, <1>4, <1>5 DEF RulesMade, InternalLbRules
<1> QED BY <1>4, <1>6 DEF Brings, s

OkePublicRules ==
  {IngressTcp("public", 6443, "private"), IngressTcp("public", 12250, "private"),
   EgressTcp("public", AnyPort, "services"), EgressTcp("public", 10250, "private"),
   EgressTcp("public", NodePorts, "private"), EgressTcp("public", 10256, "private"),
   EgressAll("public", "private")}

OkePrivateRules ==
  {IngressTcp("private", 10250, "public"), IngressTcp("private", NodePorts, "public"),
   IngressTcp("private", 10256, "public"), SecurityRule("private", "ingress", "all", AnyPort, "public"),
   EgressTcp("private", AnyPort, "services"), EgressTcp("private", 6443, "public"),
   EgressTcp("private", 12250, "public"), EgressTcp("private", HTTPS, "internet"),
   EgressTcp("private", HTTP, "internet")}

OkeRules(kubectl) ==
  OkePublicRules \cup OkePrivateRules \cup WebRules
    \cup (IF kubectl THEN {IngressTcp("public", 6443, "kubectl")} ELSE {})

(* What a cluster opens into the public tier. *)
LEMMA OkePublicIngressHas ==
  ASSUME NEW k \in {0, 1}
  PROVE  /\ OkePublicIngress(k) \in Seq(SpellRule(Ports))
         /\ Each(OkePublicIngress(k)) =
              {IngressTcp("public", 6443, "private"), IngressTcp("public", 12250, "private")}
                \cup WebRules \cup (IF k = 1 THEN {IngressTcp("public", 6443, "kubectl")} ELSE {})
<1> DEFINE a == IngressTcp("public", 6443, "private")
           b == IngressTcp("public", 12250, "private")
           c == IngressTcp("public", HTTPS, "internet")
           d == IngressTcp("public", HTTP, "internet")
           e == IngressTcp("public", 6443, "kubectl")
           P == <<a, b, c, d>>
           Q == [i \in 1..k |-> e]
<1>1. {a, b, c, d, e} \subseteq SpellRule(Ports)
  <2>1. {6443, 12250, HTTP, HTTPS} \subseteq Numbers
    BY DEF Numbers
  <2>2. "public" \in Tiers /\ {"private", "internet", "kubectl"} \subseteq Peers
    BY DEF Tiers, Peers
  <2> QED BY <2>1, <2>2, RuleTyped
<1>2. OkePublicIngress(k) = P \o Q
  BY DEF OkePublicIngress
<1>3. WebRules = {c, d}
  BY DEF WebRules
<1> HIDE DEF a, b, c, d, e
<1>4. P \in Seq(SpellRule(Ports)) /\ Each(P) = {a, b, c, d}
  BY <1>1, EachShort
<1>5. Q \in Seq(SpellRule(Ports)) /\ Each(Q) = IF k = 1 THEN {e} ELSE {}
  <2>1. Q \in [1..k -> SpellRule(Ports)]
    BY <1>1
  <2>2. Q \in Seq(SpellRule(Ports))
    BY <2>1, SeqDef
  <2>3. 1..0 = {} /\ 1..1 = {1}
    OBVIOUS
  <2> QED BY <2>2, <2>3 DEF Each
<1> HIDE DEF P, Q
<1>6. P \o Q \in Seq(SpellRule(Ports)) /\ Each(P \o Q) = Each(P) \cup Each(Q)
  BY <1>4, <1>5, EachConcat
<1>7. Each(P \o Q) = {a, b} \cup {c, d} \cup (IF k = 1 THEN {e} ELSE {})
  BY <1>4, <1>5, <1>6
<1> QED BY <1>2, <1>3, <1>6, <1>7 DEF a, b, e

(* What a cluster opens out of the public tier, and into and out of the private one. *)
LEMMA OkeListsHave ==
  /\ OkePublicEgress \in Seq(SpellRule(Ports)) /\ OkePrivateIngress \in Seq(SpellRule(Ports))
  /\ OkePrivateEgress \in Seq(SpellRule(Ports))
  /\ {IngressTcp("public", 6443, "private"), IngressTcp("public", 12250, "private")}
       \cup Each(OkePublicEgress) = OkePublicRules
  /\ Each(OkePrivateIngress) \cup Each(OkePrivateEgress) = OkePrivateRules
<1> DEFINE a == EgressTcp("public", AnyPort, "services")
           b == EgressTcp("public", 10250, "private")
           c == EgressTcp("public", NodePorts, "private")
           d == EgressTcp("public", 10256, "private")
           e == EgressAll("public", "private")
           f == IngressTcp("private", 10250, "public")
           g == IngressTcp("private", NodePorts, "public")
           h == IngressTcp("private", 10256, "public")
           i == SecurityRule("private", "ingress", "all", AnyPort, "public")
           j == EgressTcp("private", AnyPort, "services")
           k == EgressTcp("private", 6443, "public")
           l == EgressTcp("private", 12250, "public")
           m == EgressTcp("private", HTTPS, "internet")
           n == EgressTcp("private", HTTP, "internet")
           x == IngressTcp("public", 6443, "private")
           y == IngressTcp("public", 12250, "private")
<1>1. {a, b, c, d, e} \cup {f, g, h, i} \cup {j, k, l, m, n} \subseteq SpellRule(Ports)
  <2>1. {AnyPort, 10250, NodePorts, 10256, 6443, 12250, HTTP, HTTPS} \subseteq Numbers
    BY DEF Numbers
  <2>2. {"public", "private"} \subseteq Tiers /\ {"public", "private", "services", "internet"} \subseteq Peers
    BY DEF Tiers, Peers
  <2> QED BY <2>1, <2>2, RuleTyped
<1>2. /\ OkePublicEgress = <<a, b, c, d, e>>
      /\ OkePrivateIngress = <<f, g, h, i>>
      /\ OkePrivateEgress = <<j, k, l, m, n>>
  BY DEF OkePublicEgress, OkePrivateIngress, OkePrivateEgress
<1>3. /\ OkePublicRules = {x, y, a, b, c, d, e}
      /\ OkePrivateRules = {f, g, h, i, j, k, l, m, n}
  BY DEF OkePublicRules, OkePrivateRules
<1> HIDE DEF a, b, c, d, e, f, g, h, i, j, k, l, m, n, x, y
<1>4. /\ <<a, b, c, d, e>> \in Seq(SpellRule(Ports)) /\ <<f, g, h, i>> \in Seq(SpellRule(Ports))
      /\ <<j, k, l, m, n>> \in Seq(SpellRule(Ports))
  BY <1>1
<1>5. Each(<<a, b, c, d, e>>) = {a, b, c, d, e}  BY EachShort
<1>6. Each(<<f, g, h, i>>) = {f, g, h, i}  BY EachShort
<1>7. Each(<<j, k, l, m, n>>) = {j, k, l, m, n}  BY EachShort
<1>8. {x, y} \cup Each(OkePublicEgress) = OkePublicRules
  BY <1>2, <1>3, <1>5
<1>9. Each(OkePrivateIngress) \cup Each(OkePrivateEgress) = OkePrivateRules
  BY <1>2, <1>3, <1>6, <1>7
<1> QED BY <1>2, <1>4, <1>8, <1>9 DEF x, y

(* An OkeCluster brings the rules of its four lists. *)
LEMMA OkeBrings ==
  ASSUME NEW kubectl \in BOOLEAN
  PROVE  Brings(Spell("OkeCluster", "private", "public", <<>>, kubectl), OkeRules(kubectl))
<1> DEFINE s == Spell("OkeCluster", "private", "public", <<>>, kubectl)
           k == IF kubectl THEN 1 ELSE 0
           A == OkePublicIngress(k)
           B == OkePublicEgress
           C == OkePrivateIngress
           D == OkePrivateEgress
           AB == A \o B
           ABC == AB \o C
           all == ABC \o D
<1>1. CallsOf(s) = <<Plain(all)>>
  BY DEF CallsOf, Spell, OkeCalls
<1>2. /\ k \in {0, 1} /\ (k = 1 <=> kubectl)
  OBVIOUS
<1> HIDE DEF s, k
<1>3. /\ A \in Seq(SpellRule(Ports)) /\ B \in Seq(SpellRule(Ports))
      /\ C \in Seq(SpellRule(Ports)) /\ D \in Seq(SpellRule(Ports))
  BY <1>2, OkePublicIngressHas, OkeListsHave
<1> HIDE DEF A, B, C, D
<1>4. AB \in Seq(SpellRule(Ports)) /\ Each(AB) = Each(A) \cup Each(B)
  BY <1>3, EachConcat
<1> HIDE DEF AB
<1>5. ABC \in Seq(SpellRule(Ports)) /\ Each(ABC) = Each(AB) \cup Each(C)
  BY <1>3, <1>4, EachConcat
<1> HIDE DEF ABC
<1>6. all \in Seq(SpellRule(Ports)) /\ Each(all) = Each(ABC) \cup Each(D)
  BY <1>3, <1>5, EachConcat
<1>7. Each(all) = Each(A) \cup Each(B) \cup (Each(C) \cup Each(D))
  BY <1>4, <1>5, <1>6
<1>8. Each(all) = OkeRules(kubectl)
  <2> DEFINE x == {IngressTcp("public", 6443, "private"), IngressTcp("public", 12250, "private")}
             z == IF kubectl THEN {IngressTcp("public", 6443, "kubectl")} ELSE {}
  <2>1. Each(A) = x \cup WebRules \cup z
    BY <1>2, OkePublicIngressHas DEF A
  <2>2. x \cup Each(B) = OkePublicRules /\ Each(C) \cup Each(D) = OkePrivateRules
    BY OkeListsHave DEF B, C, D
  <2>3. OkeRules(kubectl) = OkePublicRules \cup OkePrivateRules \cup WebRules \cup z
    BY DEF OkeRules
  <2> HIDE DEF x, z
  <2> QED BY <1>7, <2>1, <2>2, <2>3
<1> HIDE DEF all
<1>9. Plain(all) \in WellMade /\ Plain(all).rules = all
  BY <1>6, PlainMade
<1> QED BY <1>1, <1>8, <1>9, SingleBrings DEF s

-----------------------------------------------------------------------------
(* The spells a program can ask for *)

Silent ==
  {Spell("late ComputeInstance", tier, "", <<>>, FALSE) : tier \in Tiers}
    \cup {Spell("VcnFlowLogs", "", "", <<>>, FALSE), Spell("export", "", "", <<>>, FALSE)}

AskedNsg(s) ==
  \E r \in RoleNames \cup {"none"}, ports \in Seq(Ports) : s = Spell("Nsg", r, "", ports, FALSE)

AskedServes(s) ==
  \E port \in Ports, ssh \in BOOLEAN :
    \/ s = Spell("serves", "none", "none", <<port>>, ssh)
    \/ \E src, tgt \in Tiers : s = Spell("serves", src, tgt, <<port>>, ssh)

(* The spells that create resources in the subnets. *)
AskedResource(s) ==
  \/ s \in Silent
  \/ \E tier \in Tiers : s = Spell("ComputeInstance", tier, "", <<>>, FALSE)
  \/ s = Spell("Bastion", "private", "", <<>>, FALSE)
  \/ \E port \in Ports, public \in BOOLEAN :
       s = Spell("ScalableWorkload", "private", "", <<port>>, public)
  \/ \E port \in Ports : s = Spell("LoadBalancer", "public", "private", <<port>>, FALSE)
  \/ \E port \in Ports : s = Spell("InternalLoadBalancer", "private", "private", <<port>>, FALSE)
  \/ \E kubectl \in BOOLEAN : s = Spell("OkeCluster", "private", "public", <<>>, kubectl)

Asked(s) == AskedNsg(s) \/ AskedServes(s) \/ AskedResource(s)

(* Every spell makes well-made calls. *)
LEMMA AskedCalls ==
  ASSUME NEW s, Asked(s)
  PROVE  CallsOf(s) \in Seq(WellMade) /\ CallsOf(s) \in Seq(Call)
<1>1. Seq(WellMade) \subseteq Seq(Call)
  <2>1. WellMade \subseteq Call
    BY DEF WellMade
  <2> QED BY <2>1, SeqDef
<1> DEFINE Good == CallsOf(s) \in Seq(WellMade)
<1> SUFFICES Good
  BY <1>1
<1>2. ASSUME NEW rules, Brings(s, rules) PROVE Good
  BY <1>2 DEF Brings
<1> HIDE DEF Good
<1>3. CASE AskedNsg(s)
  BY <1>2, <1>3, NsgBrings, SilentBrings DEF AskedNsg
<1>4. CASE AskedServes(s)
  <2>1. ASSUME NEW port \in Ports, NEW ssh \in BOOLEAN, NEW src, NEW tgt,
               src = tgt \/ {src, tgt} \subseteq Tiers, s = Spell("serves", src, tgt, <<port>>, ssh)
        PROVE  Good
    BY <1>2, <2>1, ServesBrings
  <2>2. PICK port \in Ports, ssh \in BOOLEAN :
          \/ s = Spell("serves", "none", "none", <<port>>, ssh)
          \/ \E src, tgt \in Tiers : s = Spell("serves", src, tgt, <<port>>, ssh)
    BY <1>4 DEF AskedServes
  <2>3. CASE s = Spell("serves", "none", "none", <<port>>, ssh)
    BY <2>1, <2>3
  <2>4. ASSUME NEW src \in Tiers, NEW tgt \in Tiers, s = Spell("serves", src, tgt, <<port>>, ssh)
        PROVE  Good
    <3>1. {src, tgt} \subseteq Tiers
      OBVIOUS
    <3> QED BY <2>1, <2>4, <3>1
  <2> QED BY <2>2, <2>3, <2>4
<1>5. CASE AskedResource(s)
  <2>1. CASE s \in Silent
    BY <1>2, <2>1, SilentBrings DEF Silent
  <2>2. CASE \E tier \in Tiers : s = Spell("ComputeInstance", tier, "", <<>>, FALSE)
    BY <1>2, <2>2, ComputeBrings
  <2>3. CASE s = Spell("Bastion", "private", "", <<>>, FALSE)
    BY <1>2, <2>3, BastionBrings
  <2>4. CASE \E port \in Ports, public \in BOOLEAN :
               s = Spell("ScalableWorkload", "private", "", <<port>>, public)
    BY <1>2, <2>4, WorkloadBrings
  <2>5. CASE \E port \in Ports : s = Spell("LoadBalancer", "public", "private", <<port>>, FALSE)
    BY <1>2, <2>5, LoadBalancerBrings
  <2>6. CASE \E port \in Ports : s = Spell("InternalLoadBalancer", "private", "private", <<port>>, FALSE)
    BY <1>2, <2>6, InternalLbBrings
  <2>7. CASE \E kubectl \in BOOLEAN : s = Spell("OkeCluster", "private", "public", <<>>, kubectl)
    BY <1>2, <2>7, OkeBrings
  <2> QED BY <1>5, <2>1, <2>2, <2>3, <2>4, <2>5, <2>6, <2>7 DEF AskedResource
<1> QED BY <1>3, <1>4, <1>5 DEF Asked

(* Which spells wait for nobody: they register their rules and leave the Vcn
   open.  All others need the subnets, and finalise it. *)
Light == {"Nsg", "serves"}

(* A spell that finalises the network is none of those that leave it open. *)
LEMMA ResourceIsNotLight ==
  ASSUME NEW s, AskedResource(s)
  PROVE  s.kind \notin Light
<1> USE DEF Light
<1>1. CASE s \in Silent
  <2>1. CASE \E tier \in Tiers : s = Spell("late ComputeInstance", tier, "", <<>>, FALSE)
    <3>1. PICK tier \in Tiers : s = Spell("late ComputeInstance", tier, "", <<>>, FALSE)
      BY <2>1
    <3>2. s.kind = "late ComputeInstance"
      BY <3>1 DEF Spell
    <3> QED BY <3>2
  <2>2. CASE s = Spell("VcnFlowLogs", "", "", <<>>, FALSE)
    BY <2>2 DEF Spell
  <2>3. CASE s = Spell("export", "", "", <<>>, FALSE)
    BY <2>3 DEF Spell
  <2> QED BY <1>1, <2>1, <2>2, <2>3 DEF Silent
<1>2. CASE \E tier \in Tiers : s = Spell("ComputeInstance", tier, "", <<>>, FALSE)
  <2>1. PICK tier \in Tiers : s = Spell("ComputeInstance", tier, "", <<>>, FALSE)
    BY <1>2
  <2>2. s.kind = "ComputeInstance"
    BY <2>1 DEF Spell
  <2> QED BY <2>2
<1>3. CASE s = Spell("Bastion", "private", "", <<>>, FALSE)
  BY <1>3 DEF Spell
<1>4. CASE \E port \in Ports, public \in BOOLEAN :
             s = Spell("ScalableWorkload", "private", "", <<port>>, public)
  <2>1. PICK port \in Ports, public \in BOOLEAN :
          s = Spell("ScalableWorkload", "private", "", <<port>>, public)
    BY <1>4
  <2>2. s.kind = "ScalableWorkload"
    BY <2>1 DEF Spell
  <2> QED BY <2>2
<1>5. CASE \E port \in Ports : s = Spell("LoadBalancer", "public", "private", <<port>>, FALSE)
  BY <1>5 DEF Spell
<1>6. CASE \E port \in Ports : s = Spell("InternalLoadBalancer", "private", "private", <<port>>, FALSE)
  BY <1>6 DEF Spell
<1>7. CASE \E kubectl \in BOOLEAN : s = Spell("OkeCluster", "private", "public", <<>>, kubectl)
  BY <1>7 DEF Spell
<1> QED BY <1>1, <1>2, <1>3, <1>4, <1>5, <1>6, <1>7 DEF AskedResource

-----------------------------------------------------------------------------
(* What a step does to the Vcn *)

(* A spell completes: its rules are collected, on an open Vcn, or all of them
   were there already, on a closed one. *)
Completes(s) ==
  /\ Asked(s)
  /\ CanCall
  /\ s.kind \in Spells \cup {"late ComputeInstance"}
  /\ \/ s.kind \in Light /\ Collect(CallsOf(s))
     \/ s.kind \notin Light /\ Materialise(CallsOf(s))
     \/ Reuse(CallsOf(s))
  /\ outcome' = "ok"
  /\ built' = built (+) SetToBag({s})

(* A spell that raises before it registers anything. *)
Rejects ==
  /\ CanCall
  /\ outcome' \in Outcome \ {"ok"}
  /\ UNCHANGED <<lists, applied, finalized, securityLists, created, flowLogs>>

(* A spell raises: nothing of it counts as built. *)
Raises(s) ==
  /\ Asked(s)
  /\ CanCall
  /\ Materialise(CallsOf(s)) \/ Refuse(CallsOf(s)) \/ Rejects
  /\ outcome' # "ok"
  /\ built' = built

(* A spell that only registers. *)
LEMMA RegisterStep ==
  ASSUME NEW s, Asked(s), s.kind \in Light \cap Spells, Register(CallsOf(s)), Remember(s)
  PROVE  Completes(s) \/ Raises(s)
<1>1. CASE Collect(CallsOf(s))
  <2>1. outcome' = "ok" /\ CanCall
    BY <1>1 DEF Collect
  <2> QED BY <1>1, <2>1 DEF Completes, Remember
<1>2. CASE Refuse(CallsOf(s))
  <2>1. outcome' # "ok" /\ CanCall
    BY <1>2 DEF Refuse
  <2> QED BY <1>2, <2>1 DEF Raises, Remember
<1>3. CASE Reuse(CallsOf(s))
  <2>1. outcome' = "ok" /\ CanCall
    BY <1>3 DEF Reuse
  <2> QED BY <1>3, <2>1 DEF Completes, Remember
<1> QED BY <1>1, <1>2, <1>3 DEF Register

(* A spell that registers and finalises. *)
LEMMA FinalizeStep ==
  ASSUME NEW s, AskedResource(s), s.kind \in Spells \cup {"late ComputeInstance"},
         RegisterAndFinalize(CallsOf(s)), Remember(s)
  PROVE  Completes(s) \/ Raises(s)
<1>1. Asked(s) /\ s.kind \notin Light
  BY ResourceIsNotLight DEF Asked
<1>2. CASE Materialise(CallsOf(s))
  <2>1. CanCall
    BY <1>2 DEF Materialise
  <2> QED BY <1>1, <1>2, <2>1 DEF Completes, Raises, Remember
<1>3. CASE Refuse(CallsOf(s))
  <2>1. outcome' # "ok" /\ CanCall
    BY <1>3 DEF Refuse
  <2> QED BY <1>1, <1>3, <2>1 DEF Raises, Remember
<1>4. CASE Reuse(CallsOf(s))
  <2>1. outcome' = "ok" /\ CanCall
    BY <1>4 DEF Reuse
  <2> QED BY <1>1, <1>4, <2>1 DEF Completes, Remember
<1> QED BY <1>2, <1>3, <1>4 DEF RegisterAndFinalize

(* A spell that raises on its own account. *)
LEMMA RejectStep ==
  ASSUME NEW s, Asked(s), Rejects, built' = built \/ Remember(s)
  PROVE  Raises(s)
<1>1. outcome' # "ok" /\ CanCall
  BY DEF Rejects
<1> QED BY <1>1 DEF Raises, Remember

-----------------------------------------------------------------------------
(* The steps of a program *)

(* The port lists of a group are lists of ports. *)
LEMMA PortListsTyped ==
  ASSUME NEW r, NEW ports \in PortLists(r)
  PROVE  ports \in Seq(Ports)
<1>1. CASE ports = <<>>
  BY <1>1
<1>2. CASE \E p \in Ports : ports = <<p>>
  BY <1>2
<1>3. CASE ports \in Ports \X Ports
  <2>1. PICK p \in Ports, q \in Ports : ports = <<p, q>>
    BY <1>3
  <2> QED BY <2>1
<1>4. ports = <<>> \/ (\E p \in Ports : ports = <<p>>) \/ ports \in Ports \X Ports
  BY DEF PortLists
<1> QED BY <1>1, <1>2, <1>3, <1>4

(* The spells behind a new group, a relation and an instance. *)
GroupSpell(r, ports) == Spell("Nsg", r, "", ports, FALSE)

RelationSpell(n, m, port, withSsh) ==
  LET ssh == withSsh /\ AcceptsSsh(m)
  IN  IF HasRole(n) /\ HasRole(m) THEN Spell("serves", TierOf(n), TierOf(m), <<port>>, ssh)
                                  ELSE Spell("serves", "none", "none", <<port>>, ssh)

InstanceSpell(tier) ==
  Spell(IF finalized THEN "late ComputeInstance" ELSE "ComputeInstance", tier, "", <<>>, FALSE)

(* A group registers its ambient rules, or rejects its arguments. *)
LEMMA NewNsgStep ==
  ASSUME NEW n \in Nsgs, NEW r \in RoleNames \cup {"none"}, NEW ports \in Seq(Ports), NewNsg(n, r, ports)
  PROVE  Completes(GroupSpell(r, ports)) \/ Raises(GroupSpell(r, ports))
<1> DEFINE s == GroupSpell(r, ports)
<1> SUFFICES Completes(s) \/ Raises(s)
  OBVIOUS
<1>1. AskedNsg(s)
  BY DEF AskedNsg, GroupSpell
<1>2. s.kind = "Nsg"
  BY DEF GroupSpell, Spell
<1> HIDE DEF s
<1>3. /\ Register(CallsOf(s)) \/ RejectArguments
      /\ Remember(s)
      /\ "Nsg" \in Spells
  BY DEF NewNsg, CanBuild, GroupSpell, s
<1>4. CASE Register(CallsOf(s))
  BY <1>1, <1>2, <1>3, <1>4, RegisterStep DEF Asked, Light
<1>5. CASE RejectArguments
  <2>1. Rejects
    BY <1>5 DEF RejectArguments, Rejects, Outcome
  <2> QED BY <1>1, <1>3, <2>1, RejectStep DEF Asked
<1> QED BY <1>3, <1>4, <1>5

(* So does a relation. *)
LEMMA ServesStep ==
  ASSUME TypeOK, NEW n \in Nsgs, NEW m \in Nsgs, NEW port \in Ports, NEW withSsh \in BOOLEAN,
         Serves(n, m, port, withSsh)
  PROVE  Completes(RelationSpell(n, m, port, withSsh)) \/ Raises(RelationSpell(n, m, port, withSsh))
<1> DEFINE ssh  == withSsh /\ AcceptsSsh(m)
           s == RelationSpell(n, m, port, withSsh)
<1> SUFFICES Completes(s) \/ Raises(s)
  OBVIOUS
<1>1. AskedServes(s)
  <2>1. ssh \in BOOLEAN
    <3>1. CASE withSsh = FALSE
      BY <3>1
    <3>2. CASE role[m] = "none"
      BY <3>2 DEF AcceptsSsh
    <3>3. CASE role[m] \in RoleNames
      <4>1. RoleSpec[role[m]].accept_management_ssh \in BOOLEAN
        BY <3>3, RoleFacts
      <4> QED BY <4>1 DEF AcceptsSsh
    <3> QED BY <3>2, <3>3 DEF TypeOK, Serves, Live
  <2> HIDE DEF ssh
  <2>2. CASE HasRole(n) /\ HasRole(m)
    <3>1. TierOf(n) \in Tiers /\ TierOf(m) \in Tiers
      BY <2>2, RoleFacts DEF TierOf, HasRole
    <3>2. s = Spell("serves", TierOf(n), TierOf(m), <<port>>, ssh)
      BY <2>2 DEF RelationSpell, ssh
    <3> QED BY <2>1, <3>1, <3>2 DEF AskedServes
  <2>3. CASE ~(HasRole(n) /\ HasRole(m))
    <3>1. s = Spell("serves", "none", "none", <<port>>, ssh)
      BY <2>3 DEF RelationSpell, ssh
    <3> QED BY <2>1, <3>1 DEF AskedServes
  <2> QED BY <2>2, <2>3
<1>2. s.kind = "serves"
  BY DEF RelationSpell, Spell
<1>3. /\ Register(CallsOf(s)) \/ RejectArguments
      /\ Remember(s)
      /\ "serves" \in Spells
  BY DEF Serves, CanBuild, RelationSpell
<1> HIDE DEF s
<1>4. CASE Register(CallsOf(s))
  BY <1>1, <1>2, <1>3, <1>4, RegisterStep DEF Asked, Light
<1>5. CASE RejectArguments
  <2>1. Rejects
    BY <1>5 DEF RejectArguments, Rejects, Outcome
  <2> QED BY <1>1, <1>3, <2>1, RejectStep DEF Asked
<1> QED BY <1>3, <1>4, <1>5

(* On a closed Vcn, Bastion goes on only when its own rule was collected. *)
LEMMA BastionStep ==
  ASSUME Bastion
  PROVE  \E s : Completes(s) \/ Raises(s)
<1> DEFINE s == Spell("Bastion", "private", "", <<>>, FALSE)
<1>1. AskedResource(s) /\ s.kind = "Bastion"
  BY DEF AskedResource, Spell
<1>2. CallsOf(s) = BastionCalls
  BY DEF CallsOf, Spell
<1> HIDE DEF s
<1>3. Remember(s) /\ "Bastion" \in Spells
  BY DEF Bastion, CanBuild, s
<1>4. CASE ~finalized /\ RegisterAndFinalize(CallsOf(s))
  BY <1>1, <1>3, <1>4, FinalizeStep
<1>5. CASE finalized /\ HasAmbientRule(BastionFingerprint) /\ FinalizeNetwork
  <2>1. FreshCalls(BastionCalls) = {}
    <3>1. DOMAIN BastionCalls = {1} /\ BastionCalls[1].fp = BastionFingerprint
      BY DEF BastionCalls, Keyed
    <3>2. BastionFingerprint # NoFingerprint
      BY DEF BastionFingerprint, NoFingerprint, FingerprintRecord
    <3> QED BY <1>5, <3>1, <3>2 DEF FreshCalls, Fresh, HasAmbientRule
  <2>2. FreshCalls(<<>>) = {}
    BY DEF FreshCalls
  <2>3. Reuse(<<>>)
    BY <1>5, <2>2 DEF FinalizeNetwork, RegisterAndFinalize, Materialise, Refuse
  <2>4. Reuse(CallsOf(s))
    BY <1>2, <2>1, <2>3 DEF Reuse
  <2> QED BY <1>1, <1>3, <2>4, FinalizeStep DEF RegisterAndFinalize
<1>6. CASE finalized /\ Rejects
  BY <1>1, <1>3, <1>6, RejectStep DEF Asked
<1>7. finalized /\ ~HasAmbientRule(BastionFingerprint) /\ CanCall /\ outcome' = "RuntimeError"
        /\ UNCHANGED <<lists, applied, finalized, securityLists, created, flowLogs>> => Rejects
  BY DEF Rejects, Outcome
<1> QED BY <1>4, <1>5, <1>6, <1>7 DEF Bastion, s

(* The other spells that need the subnets. *)
LEMMA FinalizingStep ==
  ASSUME NEW s, AskedResource(s), Finalizing(s)
  PROVE  Completes(s) \/ Raises(s)
<1>1. s.kind \in Spells /\ RegisterAndFinalize(CallsOf(s)) /\ Remember(s)
  BY DEF Finalizing, CanBuild
<1> QED BY <1>1, FinalizeStep

(* A ComputeInstance completes or raises, on an open Vcn and on a closed one. *)
LEMMA ComputeStep ==
  ASSUME NEW tier \in Tiers, ComputeInstance(tier)
  PROVE  Completes(InstanceSpell(tier)) \/ Raises(InstanceSpell(tier))
<1> DEFINE kind == IF finalized THEN "late ComputeInstance" ELSE "ComputeInstance"
           s == Spell(kind, tier, "", <<>>, FALSE)
<1> SUFFICES Completes(s) \/ Raises(s)
  BY DEF InstanceSpell
<1>1. AskedResource(s)
  BY DEF AskedResource, Silent
<1>2. s.kind = kind
  BY DEF Spell
<1> HIDE DEF s
<1>3. RegisterAndFinalize(CallsOf(s)) /\ Remember(s) /\ "ComputeInstance" \in Spells
  BY DEF ComputeInstance, CanBuild, s
<1> QED BY <1>1, <1>2, <1>3, FinalizeStep

(* A constructor that rejects its arguments raises and changes nothing else. *)
LEMMA BadArgumentsStep ==
  ASSUME NEW kind, BadArguments(kind)
  PROVE  \E s : Completes(s) \/ Raises(s)
<1>1. Rejects /\ built' = built
  BY DEF BadArguments, RejectArguments, Rejects, Outcome
<1>2. \E s : AskedResource(s)
  BY DEF AskedResource
<1> QED BY <1>1, <1>2, RejectStep DEF Asked

(* Whatever the program does, one spell completes or raises. *)
LEMMA StepIsSpell ==
  ASSUME TypeOK, Next
  PROVE  \E s : Completes(s) \/ Raises(s)
<1>1. CASE \E n \in Nsgs, r \in Roles \cup {"none"} : \E ports \in PortLists(r) : NewNsg(n, r, ports)
  BY <1>1, PortListsTyped, RolesAssumption, NewNsgStep
<1>2. CASE \E n, m \in Nsgs, port \in Ports, ssh \in BOOLEAN : Serves(n, m, port, ssh)
  BY <1>2, ServesStep
<1>3. CASE \E tier \in Tiers : ComputeInstance(tier)
  BY <1>3, ComputeStep
<1>4. CASE Bastion
  BY <1>4, BastionStep
<1>5. ASSUME NEW port \in Ports, NEW public \in BOOLEAN, ScalableWorkload(port, public)
      PROVE  \E s : Completes(s) \/ Raises(s)
  <2> DEFINE s == Spell("ScalableWorkload", "private", "", <<port>>, public)
  <2>1. AskedResource(s)
    BY DEF AskedResource
  <2> QED BY <1>5, <2>1, FinalizingStep DEF ScalableWorkload
<1>6. ASSUME NEW port \in Ports, LoadBalancer(port) \/ InternalLoadBalancer(port)
      PROVE  \E s : Completes(s) \/ Raises(s)
  <2>1. /\ AskedResource(Spell("LoadBalancer", "public", "private", <<port>>, FALSE))
        /\ AskedResource(Spell("InternalLoadBalancer", "private", "private", <<port>>, FALSE))
    BY DEF AskedResource
  <2> QED BY <1>6, <2>1, FinalizingStep DEF LoadBalancer, InternalLoadBalancer
<1>7. ASSUME NEW kubectl \in BOOLEAN, OkeCluster(kubectl)
      PROVE  \E s : Completes(s) \/ Raises(s)
  <2>1. AskedResource(Spell("OkeCluster", "private", "public", <<>>, kubectl))
    BY DEF AskedResource
  <2> QED BY <1>7, <2>1, FinalizingStep DEF OkeCluster
<1>8. CASE VcnFlowLogs \/ Export
  <2>1. /\ AskedResource(Spell("VcnFlowLogs", "", "", <<>>, FALSE))
        /\ AskedResource(Spell("export", "", "", <<>>, FALSE))
    BY DEF AskedResource, Silent
  <2> QED BY <1>8, <2>1, FinalizingStep DEF VcnFlowLogs, Export
<1>9. CASE \E kind \in SpellKinds : BadArguments(kind)
  BY <1>9, BadArgumentsStep
<1> QED BY <1>1, <1>2, <1>3, <1>4, <1>5, <1>6, <1>7, <1>8, <1>9 DEF Next

-----------------------------------------------------------------------------
(* The Vcn of a program: the facts of VcnApiProofs, for the rules and the      *)
(* fingerprints of the spells.                                                 *)

(* The rules of a finite list form a bag over the same rules. *)
LEMMA BagOfIsBag ==
  ASSUME NEW S, NEW rules \in Seq(S)
  PROVE  /\ IsABag(BagOf(rules)) /\ BagToSet(BagOf(rules)) \subseteq S
         /\ \A r : CopiesOf(r, BagOf(rules)) = Cardinality(Places(rules, r))
<1>1. BagOf(rules) = Tally(rules)
  BY DEF BagOf, Tally
<1>2. IsFiniteSet(DOMAIN rules)
  BY ListPlaces
<1>3. \A r : CopiesOf(r, BagOf(rules)) = Copies(r, BagOf(rules))
  BY DEF CopiesOf, Copies
<1>4. {rules[i] : i \in DOMAIN rules} \subseteq S
  OBVIOUS
<1> QED BY <1>1, <1>2, <1>3, <1>4, TallyIsBag

(* Each call of a sequence has a fingerprint, or none, and a list of rules. *)
LEMMA CallTyped ==
  ASSUME NEW calls \in Seq(Call), NEW i \in DOMAIN calls
  PROVE  /\ calls[i].fp \in SpellFingerprint(Ports) \cup {NoFingerprint}
         /\ calls[i].rules \in Seq(SpellRule(Ports))
<1>1. calls[i] \in Call
  OBVIOUS
<1> QED BY <1>1 DEF Call

(* The sites of the rules that fresh calls bring are finitely many. *)
LEMMA FreshSitesFinite ==
  ASSUME NEW calls \in Seq(Call)
  PROVE  IsFiniteSet(FreshSites(calls))
<1> DEFINE J == [i \in FreshCalls(calls) |-> DOMAIN calls[i].rules]
<1>1. IsFiniteSet(FreshCalls(calls))
  BY ListPlaces, FS_Subset DEF FreshCalls
<1>2. \A i \in FreshCalls(calls) : IsFiniteSet(J[i])
  BY CallTyped, ListPlaces DEF FreshCalls
<1>3. \A i \in FreshCalls(calls) : {i} \X J[i] = {i} \X (DOMAIN calls[i].rules)
  OBVIOUS
<1> HIDE DEF J
<1>4. IsFiniteSet(UNION {{i} \X J[i] : i \in FreshCalls(calls)})
  BY <1>1, <1>2, PairsFinite
<1>5. FreshSites(calls) = UNION {{i} \X J[i] : i \in FreshCalls(calls)}
  BY <1>3 DEF FreshSites
<1> QED BY <1>4, <1>5

(* What an open Vcn takes from any sequence of calls is a bag of rules. *)
LEMMA AddedIsBag ==
  ASSUME NEW calls \in Seq(Call)
  PROVE  /\ IsABag(Added(calls)) /\ BagToSet(Added(calls)) \subseteq SpellRule(Ports)
         /\ \A r : CopiesOf(r, Added(calls)) =
                    Cardinality({s \in FreshSites(calls) : RuleAt(calls, s) = r})
<1> DEFINE f == [s \in FreshSites(calls) |-> RuleAt(calls, s)]
<1>1. Added(calls) = Tally(f)
  BY DEF Added, Tally
<1>2. IsFiniteSet(DOMAIN f)
  BY FreshSitesFinite
<1>3. ASSUME NEW s \in FreshSites(calls) PROVE RuleAt(calls, s) \in SpellRule(Ports)
  <2>1. PICK i \in FreshCalls(calls) : s \in {i} \X (DOMAIN calls[i].rules)
    BY DEF FreshSites
  <2>2. s[1] = i /\ s[2] \in DOMAIN calls[i].rules
    BY <2>1
  <2>3. calls[i].rules \in Seq(SpellRule(Ports))
    BY CallTyped DEF FreshCalls
  <2> QED BY <2>2, <2>3 DEF RuleAt
<1>4. \A r : Places(f, r) = {s \in FreshSites(calls) : RuleAt(calls, s) = r}
  BY DEF Places
<1>5. \A r : CopiesOf(r, Added(calls)) = Copies(r, Tally(f))
  BY <1>1 DEF CopiesOf, Copies
<1>6. {f[s] : s \in DOMAIN f} \subseteq SpellRule(Ports)
  BY <1>3
<1> HIDE DEF f
<1> QED BY <1>1, <1>2, <1>4, <1>5, <1>6, TallyIsBag

(* The seed and baseline rules are bags of rules. *)
LEMMA FixedBags ==
  /\ IsABag(BagOf(VcnSeedRules)) /\ BagToSet(BagOf(VcnSeedRules)) \subseteq SpellRule(Ports)
  /\ IsABag(BagOf(VcnBaselineRules)) /\ BagToSet(BagOf(VcnBaselineRules)) \subseteq SpellRule(Ports)
<1>1. {AnyPort} \subseteq Numbers /\ {"internet", "services", "vcn"} \subseteq Peers
        /\ {"public", "private", "secure", "management"} \subseteq Tiers
  BY DEF Numbers, Peers, Tiers
<1>2. VcnSeedRules \in Seq(SpellRule(Ports))
  <2> DEFINE a == SecurityRule("public", "ingress", "icmp", AnyPort, "internet")
             b == SecurityRule("public", "ingress", "icmp", AnyPort, "vcn")
  <2>1. a \in SpellRule(Ports) /\ b \in SpellRule(Ports)
    BY <1>1, RuleTyped
  <2>2. VcnSeedRules = <<a, b>>
    BY DEF VcnSeedRules
  <2> HIDE DEF a, b
  <2> QED BY <2>1, <2>2
<1>3. VcnBaselineRules \in Seq(SpellRule(Ports))
  <2> DEFINE a == EgressAll("private", "internet")
             b == EgressAll("private", "services")
             c == EgressAll("secure", "services")
             d == EgressAll("management", "services")
  <2>1. {a, b, c, d} \subseteq SpellRule(Ports)
    BY <1>1, RuleTyped
  <2>2. VcnBaselineRules = <<a, b, c, d>>
    BY DEF VcnBaselineRules
  <2> HIDE DEF a, b, c, d
  <2> QED BY <2>1, <2>2
<1> QED BY <1>2, <1>3, BagOfIsBag

(* Recorded fingerprints are fingerprints. *)
LEMMA FingerprintsTyped ==
  ASSUME NEW calls \in Seq(Call)
  PROVE  /\ FingerprintsOf(calls) \subseteq SpellFingerprint(Ports)
         /\ RecordedBeforeRaise(calls) \subseteq SpellFingerprint(Ports)
<1>1. \A i \in DOMAIN calls : calls[i].fp \in SpellFingerprint(Ports) \cup {NoFingerprint}
  BY CallTyped
<1> QED BY <1>1 DEF FingerprintsOf, RecordedBeforeRaise, FreshCalls

-----------------------------------------------------------------------------
(* The invariant of the Vcn.  BaselineDeployed is inductive only together with
   DeployedIsCollected: what was deployed does not change because finalized is
   never reset. *)
VcnInv == VcnTypeOK /\ DeployedIsCollected /\ BaselineDeployed

(* RuleLedger's bags are the bags of this module. *)
LEMMA LedgerBags ==
  /\ \A B : Ledger!IsABag(B) <=> IsABag(B)
  /\ \A A, B : Ledger!\sqsubseteq(A, B) <=> A \sqsubseteq B
  /\ Ledger!EmptyBag = EmptyBag
  BY DEF IsABag, Ledger!IsABag, \sqsubseteq, Ledger!\sqsubseteq,
         EmptyBag, Ledger!EmptyBag, SetToBag, Ledger!SetToBag

(* A new Vcn satisfies the invariant, and the ledger it implements is new. *)
LEMMA VcnInitInv == VcnInit => VcnInv /\ Ledger!Init
<1> SUFFICES ASSUME VcnInit PROVE VcnInv /\ Ledger!Init
  OBVIOUS
<1>1. VcnTypeOK
  BY FixedBags, EmptyBagIsBag DEF VcnInit, VcnTypeOK, Outcome
<1>2. DeployedIsCollected /\ BaselineDeployed
  BY DEF VcnInit, DeployedIsCollected, BaselineDeployed
<1>3. Ledger!Init
  BY FixedBags, LedgerBags DEF VcnInit, Ledger!Init
<1> QED BY <1>1, <1>2, <1>3 DEF VcnInv

(* What a step of the Vcn has to establish. *)
GoodStep == VcnInv' /\ [Ledger!Next]_(Ledger!ledgerVars)

(* A registration on an open Vcn only adds rules. *)
LEMMA CollectGood ==
  ASSUME NEW calls \in Seq(Call), VcnInv, Collect(calls)
  PROVE  GoodStep
<1> USE DEF VcnInv
<1>1. /\ IsABag(lists') /\ BagToSet(lists') \subseteq SpellRule(Ports)
      /\ lists \sqsubseteq lists'
  BY AddedIsBag, BagSum DEF Collect, VcnTypeOK
<1>2. VcnTypeOK'
  BY <1>1, FingerprintsTyped DEF Collect, VcnTypeOK, Outcome
<1>3. DeployedIsCollected' /\ BaselineDeployed'
  BY DEF Collect, DeployedIsCollected, BaselineDeployed
<1>4. Ledger!Contribute
  BY <1>1, LedgerBags DEF Collect, Ledger!Contribute
<1> QED BY <1>2, <1>3, <1>4 DEF GoodStep, Ledger!Next

(* finalize_network on an open Vcn seals the ledger with everything collected
   and the baseline in it. *)
LEMMA MaterialiseGood ==
  ASSUME NEW calls \in Seq(Call), VcnInv, Materialise(calls)
  PROVE  GoodStep
<1> USE DEF VcnInv
<1> DEFINE M == lists (+) Added(calls)
<1>1. /\ IsABag(M) /\ BagToSet(M) \subseteq SpellRule(Ports)
      /\ lists \sqsubseteq M
  BY AddedIsBag, BagSum DEF VcnTypeOK
<1>2. lists' = M (+) BagOf(VcnBaselineRules)
  BY DEF Materialise
<1> HIDE DEF M
<1>3. /\ IsABag(lists') /\ BagToSet(lists') \subseteq SpellRule(Ports)
      /\ M \sqsubseteq lists'
      /\ BagOf(VcnBaselineRules) \sqsubseteq lists'
  BY <1>1, <1>2, FixedBags, BagSum
<1>4. lists \sqsubseteq lists'
  BY <1>1, <1>3, BagContainmentTransitive DEF VcnTypeOK
<1>5. VcnTypeOK'
  BY <1>3, FingerprintsTyped DEF Materialise, VcnTypeOK, Outcome
<1>6. DeployedIsCollected'
  BY DEF Materialise, DeployedIsCollected
<1>7. BaselineDeployed'
  BY <1>3 DEF Materialise, BaselineDeployed
<1>8. Ledger!Seal
  BY <1>3, <1>4, LedgerBags DEF Materialise, Ledger!Seal
<1> QED BY <1>5, <1>6, <1>7, <1>8 DEF GoodStep, Ledger!Next

(* Calls on a closed Vcn, and rejected arguments, leave the rules alone. *)
LEMMA ClosedGood ==
  ASSUME NEW calls \in Seq(Call), VcnInv,
         Refuse(calls) \/ Reuse(calls) \/ RejectArguments
  PROVE  GoodStep
<1>1. /\ UNCHANGED <<lists, finalized, securityLists, created, flowLogs>>
      /\ applied' \subseteq SpellFingerprint(Ports)
      /\ outcome' \in Outcome
  BY FingerprintsTyped DEF Refuse, Reuse, RejectArguments, Outcome, VcnInv, VcnTypeOK
<1>2. VcnTypeOK'
  BY <1>1 DEF VcnInv, VcnTypeOK
<1>3. DeployedIsCollected' /\ BaselineDeployed'
  BY <1>1 DEF VcnInv, DeployedIsCollected, BaselineDeployed
<1>4. UNCHANGED Ledger!ledgerVars
  BY <1>1 DEF Ledger!ledgerVars
<1> QED BY <1>2, <1>3, <1>4 DEF GoodStep, VcnInv


(* Whether a spell completes or raises, the Vcn keeps its invariant, and the
   ledger its promise. *)
LEMMA SpellGood ==
  ASSUME VcnInv, NEW s, Completes(s) \/ Raises(s)
  PROVE  GoodStep
<1>1. CallsOf(s) \in Seq(Call)
  BY AskedCalls DEF Completes, Raises
<1>2. ASSUME Rejects PROVE GoodStep
  <2>1. VcnTypeOK'
    BY <1>2 DEF Rejects, VcnInv, VcnTypeOK
  <2>2. DeployedIsCollected' /\ BaselineDeployed'
    BY <1>2 DEF Rejects, VcnInv, DeployedIsCollected, BaselineDeployed
  <2>3. UNCHANGED Ledger!ledgerVars
    BY <1>2 DEF Rejects, Ledger!ledgerVars
  <2> QED BY <2>1, <2>2, <2>3 DEF GoodStep, VcnInv
<1> QED BY <1>1, <1>2, CollectGood, MaterialiseGood, ClosedGood DEF Completes, Raises

-----------------------------------------------------------------------------
(* Types *)

(* The labels an Nsg may carry. *)
LabelOK(l) ==
  /\ l.kind \in {"internet-in", "svc-out", "inet-out", "out", "in", "out-ssh", "in-ssh"}
  /\ l.peer \in Nsgs \cup {"internet", "services"}
  /\ l.port \in Ports \cup {SSH, AnyPort}

(* A spell that this program may ask for. *)
Permitted(s) == Asked(s) /\ s.kind \in Spells \cup {"late ComputeInstance"}

(* TypeOK, and that built is a bag of spells the program asked for. *)
ProgramInv ==
  /\ VcnInv
  /\ role \in [Nsgs -> RoleNames \cup {"none", "absent", "failed"}]
  /\ DOMAIN labels = Nsgs
  /\ \A n \in Nsgs : \A l \in labels[n] : LabelOK(l)
  /\ IsABag(built)
  /\ \A s \in BagToSet(built) : Permitted(s)

(* The inductive invariant holds the type invariant. *)
LEMMA ProgramTyped == ProgramInv => TypeOK
  BY DEF ProgramInv, TypeOK, LabelOK, VcnInv

(* One more spell. *)
LEMMA OneMore ==
  ASSUME NEW B, IsABag(B), NEW s
  PROVE  /\ IsABag(B (+) SetToBag({s}))
         /\ BagToSet(B (+) SetToBag({s})) = BagToSet(B) \cup {s}
<1>1. IsABag(SetToBag({s})) /\ BagToSet(SetToBag({s})) = {s}
  BY DEF SetToBag, IsABag, BagToSet
<1> QED BY <1>1, BagSum

(* Whoever completes or raises, built holds spells the program asked for. *)
LEMMA BuiltGood ==
  ASSUME ProgramInv, NEW s, Completes(s) \/ Raises(s)
  PROVE  /\ IsABag(built') /\ \A x \in BagToSet(built') : Permitted(x)
         /\ BagToSet(built) \subseteq BagToSet(built')
<1>1. CASE Completes(s)
  <2>1. Permitted(s) /\ built' = built (+) SetToBag({s})
    BY <1>1 DEF Completes, Permitted
  <2>2. IsABag(built') /\ BagToSet(built') = BagToSet(built) \cup {s}
    BY <2>1, OneMore DEF ProgramInv
  <2> QED BY <2>1, <2>2 DEF ProgramInv
<1>2. CASE Raises(s)
  <2>1. built' = built
    BY <1>2 DEF Raises
  <2> QED BY <2>1 DEF ProgramInv
<1> QED BY <1>1, <1>2

(* add_rule keeps the labels typed. *)
LEMMA AttachTyped ==
  ASSUME ProgramInv, NEW adds, Attach(adds), \A i \in DOMAIN adds : LabelOK(adds[i][2])
  PROVE  DOMAIN labels' = Nsgs /\ \A n \in Nsgs : \A l \in labels'[n] : LabelOK(l)
  BY DEF Attach, ProgramInv

(* The labels of a new group. *)
LEMMA NewNsgTyped ==
  ASSUME ProgramInv, NEW n \in Nsgs, NEW r \in RoleNames \cup {"none"}, NEW ports \in Seq(Ports),
         NewNsg(n, r, ports)
  PROVE  /\ role' \in [Nsgs -> RoleNames \cup {"none", "absent", "failed"}]
         /\ DOMAIN labels' = Nsgs /\ \A m \in Nsgs : \A l \in labels'[m] : LabelOK(l)
<1> DEFINE new == NewLabels(r, ports)
           adds == [i \in DOMAIN new |-> <<n, new[i]>>]
           P == IF RoleSpec[r].subnet_tier = "public"
                THEN [i \in DOMAIN ports |-> Label("internet-in", "internet", ports[i])] ELSE <<>>
           Q == IF RoleSpec[r].egress_services THEN <<Label("svc-out", "services", AnyPort)>> ELSE <<>>
           R == IF RoleSpec[r].egress_internet THEN <<Label("inet-out", "internet", AnyPort)>> ELSE <<>>
           Good == {Label("internet-in", "internet", p) : p \in Ports}
                     \cup {Label("svc-out", "services", AnyPort), Label("inet-out", "internet", AnyPort)}
<1>1. role' \in [Nsgs -> RoleNames \cup {"none", "absent", "failed"}]
  BY DEF NewNsg, ProgramInv
<1>2. \A l \in Good : LabelOK(l)
  BY DEF Label, LabelOK
<1>3. P \in Seq(Good) /\ Q \in Seq(Good) /\ R \in Seq(Good)
  <2>1. \A i \in DOMAIN ports : Label("internet-in", "internet", ports[i]) \in Good
    OBVIOUS
  <2>2. Label("svc-out", "services", AnyPort) \in Good /\ Label("inet-out", "internet", AnyPort) \in Good
    OBVIOUS
  <2> HIDE DEF Good
  <2>3. [i \in DOMAIN ports |-> Label("internet-in", "internet", ports[i])] \in Seq(Good)
    BY <2>1, SeqDef
  <2> QED BY <2>2, <2>3
<1>4. new = IF r = "none" THEN <<>> ELSE (P \o Q) \o R
  BY DEF NewLabels, AmbientLabels
<1> HIDE DEF P, Q, R, Good
<1>5. new \in Seq(Good)
  BY <1>3, <1>4
<1> HIDE DEF new
<1>6. \A i \in DOMAIN adds : LabelOK(adds[i][2])
  BY <1>2, <1>5
<1>7. Attach(adds)
  BY DEF NewNsg, new
<1> HIDE DEF adds
<1> QED BY <1>1, <1>6, <1>7, AttachTyped

(* The labels of a relation. *)
LEMMA ServesTyped ==
  ASSUME ProgramInv, NEW n \in Nsgs, NEW m \in Nsgs, NEW port \in Ports, NEW withSsh \in BOOLEAN,
         Serves(n, m, port, withSsh)
  PROVE  /\ role' \in [Nsgs -> RoleNames \cup {"none", "absent", "failed"}]
         /\ DOMAIN labels' = Nsgs /\ \A x \in Nsgs : \A l \in labels'[x] : LabelOK(l)
<1> DEFINE ssh  == withSsh /\ AcceptsSsh(m)
           adds == ServesLabels(n, m, port, ssh)
           a == <<n, Label("out", m, port)>>
           b == <<m, Label("in", n, port)>>
           c == <<n, Label("out-ssh", m, SSH)>>
           d == <<m, Label("in-ssh", n, SSH)>>
<1>1. Attach(adds)
  BY DEF Serves
<1>2. \A x \in {a, b, c, d} : LabelOK(x[2])
  BY DEF Label, LabelOK
<1>3. adds = <<a, b>> \o (IF ssh THEN <<c, d>> ELSE <<>>)
  BY DEF ServesLabels
<1> HIDE DEF ssh, a, b, c, d
<1>4. adds \in Seq({a, b, c, d})
  <2>1. <<a, b>> \in Seq({a, b, c, d}) /\ (IF ssh THEN <<c, d>> ELSE <<>>) \in Seq({a, b, c, d})
    OBVIOUS
  <2> QED BY <1>3, <2>1
<1> HIDE DEF adds
<1>5. \A i \in DOMAIN adds : LabelOK(adds[i][2])
  BY <1>2, <1>4
<1>6. role' \in [Nsgs -> RoleNames \cup {"none", "absent", "failed"}]
  BY DEF Serves, ProgramInv
<1> QED BY <1>1, <1>5, <1>6, AttachTyped

(* Only two actions touch the groups. *)
LEMMA NextSplits ==
  ASSUME Next
  PROVE  \/ \E n \in Nsgs, r \in Roles \cup {"none"} : \E ports \in PortLists(r) : NewNsg(n, r, ports)
         \/ \E n, m \in Nsgs, port \in Ports, ssh \in BOOLEAN : Serves(n, m, port, ssh)
         \/ KeepsNsgs
  BY DEF Next, ComputeInstance, Bastion, ScalableWorkload, LoadBalancer, InternalLoadBalancer,
         OkeCluster, VcnFlowLogs, Export, Finalizing, BadArguments

(* Whatever the program does, its groups keep their types. *)
LEMMA GroupsTyped ==
  ASSUME ProgramInv, Next
  PROVE  /\ role' \in [Nsgs -> RoleNames \cup {"none", "absent", "failed"}]
         /\ DOMAIN labels' = Nsgs /\ \A n \in Nsgs : \A l \in labels'[n] : LabelOK(l)
<1>1. KeepsNsgs => /\ role' \in [Nsgs -> RoleNames \cup {"none", "absent", "failed"}]
                   /\ DOMAIN labels' = Nsgs /\ \A n \in Nsgs : \A l \in labels'[n] : LabelOK(l)
  BY DEF KeepsNsgs, ProgramInv
<1>2. \/ \E n \in Nsgs, r \in Roles \cup {"none"} : \E ports \in PortLists(r) : NewNsg(n, r, ports)
      \/ \E n, m \in Nsgs, port \in Ports, ssh \in BOOLEAN : Serves(n, m, port, ssh)
      \/ KeepsNsgs
  BY NextSplits
<1> QED BY <1>1, <1>2, PortListsTyped, RolesAssumption, NewNsgTyped, ServesTyped

(* A spell keeps the invariant as long as the groups keep their types. *)
LEMMA SpellKeeps ==
  ASSUME ProgramInv, NEW s, Completes(s) \/ Raises(s),
         role' \in [Nsgs -> RoleNames \cup {"none", "absent", "failed"}],
         DOMAIN labels' = Nsgs, \A n \in Nsgs : \A l \in labels'[n] : LabelOK(l)
  PROVE  ProgramInv' /\ [Ledger!Next]_(Ledger!ledgerVars)
<1>1. GoodStep
  BY SpellGood DEF ProgramInv
<1>2. IsABag(built') /\ \A x \in BagToSet(built') : Permitted(x)
  BY BuiltGood
<1> QED BY <1>1, <1>2 DEF ProgramInv, GoodStep

(* Every step of a program keeps its invariant, and is a step of the ledger or
   leaves it alone. *)
LEMMA ProgramStep ==
  ASSUME ProgramInv, [Next]_vars
  PROVE  ProgramInv' /\ [Ledger!Next]_(Ledger!ledgerVars)
<1>1. CASE Next
  BY <1>1, StepIsSpell, ProgramTyped, GroupsTyped, SpellKeeps
<1>2. CASE UNCHANGED vars
  <2>1. VcnInv'
    BY <1>2 DEF vars, ProgramInv, VcnInv, VcnTypeOK, DeployedIsCollected, BaselineDeployed
  <2>2. UNCHANGED Ledger!ledgerVars
    BY <1>2 DEF vars, Ledger!ledgerVars
  <2> QED BY <1>2, <2>1, <2>2 DEF vars, ProgramInv
<1> QED BY <1>1, <1>2

(* A program starts without spells. *)
LEMMA ProgramInit == Init => ProgramInv /\ Ledger!Init
  BY VcnInitInv, EmptyBagIsBag DEF Init, ProgramInv

(* The invariant every program keeps, whatever it catches. *)
THEOREM ProgramInvariant == Spec => []ProgramInv
  BY ProgramInit, ProgramStep, PTL DEF Spec

(* Every variable keeps its type, and no group carries a label the code does
   not write. *)
THEOREM TypeCorrect == Spec => []TypeOK
  BY ProgramInvariant, ProgramTyped, PTL

(* A program of spells implements the abstract ledger: rules are only added,
   and what was materialised never changes. *)
THEOREM ImplementsLedger == Spec => KeepsLedger
  BY ProgramInit, ProgramStep, ProgramInvariant, PTL DEF Spec, KeepsLedger, Ledger!Spec

-----------------------------------------------------------------------------
(* What became of the rules, as long as the program ends with its first        *)
(* exception.                                                                  *)

(* The spells that completed have their rules on the lists, and those that need
   the subnets found them. *)
Registered ==
  \A s \in BagToSet(built) :
    /\ RulesMade(s) \subseteq BagToSet(lists)
    /\ s.kind \notin Light => finalized

FixedRules == Each(VcnSeedRules) \cup (IF finalized THEN Each(VcnBaselineRules) ELSE {})

(* Every rule on the lists has an owner, and every recorded fingerprint its
   rule on the lists: the second is why a spell whose call is skipped loses
   nothing. *)
Accounted ==
  outcome = "ok" =>
    /\ \A fp \in applied : RuleOf(fp) \in BagToSet(lists)
    /\ BagToSet(lists) = FixedRules \cup UNION {RulesMade(s) : s \in BagToSet(built)}

(* A call with a fingerprint brings the fingerprint's rule, and one without has
   no fingerprint. *)
LEMMA MadeCalls ==
  ASSUME NEW calls \in Seq(WellMade), NEW i \in DOMAIN calls
  PROVE  calls[i].fp = NoFingerprint \/ Each(calls[i].rules) = {RuleOf(calls[i].fp)}
<1>1. PICK c : c = calls[i] /\ c \in WellMade
  OBVIOUS
<1>2. CASE IsKeyed(c)
  <2>1. c.rules = <<RuleOf(c.fp)>>
    BY <1>2 DEF IsKeyed, Keyed
  <2> QED BY <1>1, <2>1, EachShort
<1>3. CASE IsPlain(c)
  <2>1. c.fp = NoFingerprint
    BY <1>3 DEF IsPlain, Plain
  <2> QED BY <1>1, <2>1
<1> QED BY <1>1, <1>2, <1>3 DEF WellMade

(* An open Vcn takes all the rules of a fresh call... *)
LEMMA FreshRules ==
  ASSUME NEW calls, NEW i \in FreshCalls(calls)
  PROVE  Each(calls[i].rules) \subseteq BagToSet(Added(calls))
<1> SUFFICES ASSUME NEW k \in DOMAIN calls[i].rules
             PROVE  calls[i].rules[k] \in BagToSet(Added(calls))
  BY DEF Each
<1>1. <<i, k>> \in FreshSites(calls)
  BY DEF FreshSites
<1>2. RuleAt(calls, <<i, k>>) = calls[i].rules[k]
  BY DEF RuleAt
<1> QED BY <1>1, <1>2 DEF Added, BagToSet

(* ... and nothing else. *)
LEMMA AddedFrom ==
  ASSUME NEW calls
  PROVE  /\ BagToSet(Added(calls)) \subseteq RulesIn(Each(calls))
         /\ FreshCalls(calls) = {} => BagToSet(Added(calls)) = {}
<1>1. ASSUME NEW x \in BagToSet(Added(calls))
      PROVE  \E i \in FreshCalls(calls) : x \in Each(calls[i].rules)
  <2>1. PICK t \in FreshSites(calls) : x = RuleAt(calls, t)
    BY DEF Added, BagToSet
  <2>2. PICK i \in FreshCalls(calls) : t \in {i} \X (DOMAIN calls[i].rules)
    BY DEF FreshSites
  <2>3. t[1] = i /\ t[2] \in DOMAIN calls[i].rules
    BY <2>2
  <2>4. x \in Each(calls[i].rules)
    BY <2>1, <2>3 DEF RuleAt, Each
  <2> QED BY <2>4
<1>2. \A i \in FreshCalls(calls) : calls[i] \in Each(calls)
  BY DEF FreshCalls, Each
<1> QED BY <1>1, <1>2 DEF RulesIn

(* A fingerprint that is not recorded yet is fresh where it first occurs. *)
LEMMA FirstFresh ==
  ASSUME NEW S, NEW calls \in Seq(S), NEW i \in DOMAIN calls, calls[i].fp \notin applied
  PROVE  \E j \in FreshCalls(calls) : calls[j].fp = calls[i].fp
<1> DEFINE fp == calls[i].fp
           T == {j \in DOMAIN calls : calls[j].fp = fp}
<1>1. T \in SUBSET Nat /\ T # {}
  OBVIOUS
<1> HIDE DEF T
<1>2. PICK j \in T : \A k \in T : j <= k
  BY <1>1, FirstPlace
<1>3. j \in DOMAIN calls /\ calls[j].fp = fp
  BY DEF T
<1>4. ASSUME NEW k \in 1..(j - 1) PROVE calls[k].fp # fp
  <2>1. k \in DOMAIN calls /\ ~(j <= k)
    BY <1>3
  <2> QED BY <1>2, <2>1 DEF T
<1> QED BY <1>3, <1>4 DEF FreshCalls, Fresh

(* No rule of a spell is lost: the rule of a call that is skipped stands for a
   fingerprint recorded before, by this spell or by an earlier one. *)
LEMMA NoRuleLost ==
  ASSUME NEW calls \in Seq(WellMade), NEW L, \A fp \in applied : RuleOf(fp) \in L
  PROVE  RulesIn(Each(calls)) \subseteq L \cup BagToSet(Added(calls))
<1> SUFFICES ASSUME NEW i \in DOMAIN calls, NEW x \in Each(calls[i].rules)
             PROVE  x \in L \cup BagToSet(Added(calls))
  BY DEF RulesIn, Each
<1>1. CASE calls[i].fp = NoFingerprint
  <2>1. i \in FreshCalls(calls)
    BY <1>1 DEF FreshCalls, Fresh
  <2> QED BY <2>1, FreshRules
<1>2. CASE calls[i].fp # NoFingerprint
  <2> DEFINE fp == calls[i].fp
  <2>1. x = RuleOf(fp)
    BY <1>2, MadeCalls
  <2>2. CASE fp \in applied
    BY <2>1, <2>2
  <2>3. CASE fp \notin applied
    <3>1. PICK j \in FreshCalls(calls) : calls[j].fp = fp
      BY <2>3, FirstFresh
    <3>2. RuleOf(fp) \in Each(calls[j].rules)
      BY <1>2, <3>1, MadeCalls DEF FreshCalls
    <3> QED BY <2>1, <3>1, <3>2, FreshRules
  <2> QED BY <2>2, <2>3
<1> QED BY <1>1, <1>2

(* The fingerprints a spell records stand for rules it makes. *)
LEMMA RecordedRules ==
  ASSUME NEW calls \in Seq(WellMade), NEW fp \in FingerprintsOf(calls)
  PROVE  RuleOf(fp) \in RulesIn(Each(calls))
<1>1. PICK i \in DOMAIN calls : calls[i].fp = fp /\ fp # NoFingerprint
  BY DEF FingerprintsOf
<1>2. RuleOf(fp) \in Each(calls[i].rules)
  BY <1>1, MadeCalls
<1> QED BY <1>2 DEF RulesIn, Each

(* What a step does to the rules on the lists. *)
LEMMA ListsAfter ==
  ASSUME ProgramInv, NEW calls \in Seq(Call)
  PROVE  /\ Collect(calls) => BagToSet(lists') = BagToSet(lists) \cup BagToSet(Added(calls))
         /\ Materialise(calls) => BagToSet(lists') = BagToSet(lists) \cup BagToSet(Added(calls))
                                                       \cup Each(VcnBaselineRules)
<1>1. IsABag(lists) /\ IsABag(Added(calls)) /\ IsABag(BagOf(VcnBaselineRules))
  BY AddedIsBag, FixedBags DEF ProgramInv, VcnInv, VcnTypeOK
<1>2. /\ IsABag(lists (+) Added(calls))
      /\ BagToSet(lists (+) Added(calls)) = BagToSet(lists) \cup BagToSet(Added(calls))
  BY <1>1, BagSum
<1> DEFINE M == lists (+) Added(calls)
<1>3. Materialise(calls) => lists' = M (+) BagOf(VcnBaselineRules)
  BY DEF Materialise
<1>4. Collect(calls) => lists' = M
  BY DEF Collect
<1>5. BagToSet(BagOf(VcnBaselineRules)) = Each(VcnBaselineRules)
  BY DEF BagOf, BagToSet, Each
<1> HIDE DEF M
<1>6. BagToSet(M (+) BagOf(VcnBaselineRules)) = BagToSet(M) \cup Each(VcnBaselineRules)
  BY <1>1, <1>2, <1>5, BagSum DEF M
<1> QED BY <1>2, <1>3, <1>4, <1>6 DEF M

(* A spell that completes finds all its rules on the lists, and nothing else
   joins them but the baseline. *)
LEMMA CompletedLists ==
  ASSUME ProgramInv, CatchErrors = FALSE, Accounted, NEW s, Completes(s)
  PROVE  /\ outcome = "ok"
         /\ BagToSet(lists') = BagToSet(lists) \cup RulesMade(s) \cup FixedRules'
         /\ \A fp \in applied' : RuleOf(fp) \in BagToSet(lists')
         /\ finalized => finalized'
         /\ s.kind \notin Light => finalized'
<1> DEFINE calls == CallsOf(s)
           A == BagToSet(Added(calls))
           L == BagToSet(lists)
<1>1. calls \in Seq(WellMade) /\ calls \in Seq(Call)
  BY AskedCalls DEF Completes
<1>2. outcome = "ok"
  BY DEF Completes, CanCall
<1>3. (\A fp \in applied : RuleOf(fp) \in L) /\ FixedRules \subseteq L
  BY <1>2 DEF Accounted
<1>4. RulesMade(s) \subseteq L \cup A /\ A \subseteq RulesMade(s)
  BY <1>1, <1>3, NoRuleLost, AddedFrom DEF RulesMade
<1>5. \A fp \in FingerprintsOf(calls) : RuleOf(fp) \in RulesMade(s)
  BY <1>1, RecordedRules DEF RulesMade
<1>6. CASE s.kind \in Light /\ Collect(calls)
  <2>1. BagToSet(lists') = L \cup A
    BY <1>1, <1>6, ListsAfter
  <2>2. finalized' = finalized /\ applied' = applied \cup FingerprintsOf(calls)
    BY <1>6 DEF Collect
  <2>3. FixedRules' = FixedRules
    BY <2>2 DEF FixedRules
  <2> HIDE DEF A, L, calls
  <2>4. BagToSet(lists') = L \cup RulesMade(s) \cup FixedRules'
    BY <1>3, <1>4, <2>1, <2>3
  <2> QED BY <1>2, <1>3, <1>5, <1>6, <2>2, <2>4 DEF L
<1>7. CASE Materialise(calls)
  <2>1. BagToSet(lists') = L \cup A \cup Each(VcnBaselineRules)
    BY <1>1, <1>7, ListsAfter
  <2>2. ~finalized /\ finalized' /\ applied' = applied \cup FingerprintsOf(calls)
    BY <1>7 DEF Materialise
  <2>3. FixedRules' = FixedRules \cup Each(VcnBaselineRules)
    BY <2>2 DEF FixedRules
  <2> HIDE DEF A, L, calls
  <2>4. BagToSet(lists') = L \cup RulesMade(s) \cup FixedRules'
    BY <1>3, <1>4, <2>1, <2>3
  <2> QED BY <1>2, <1>3, <1>5, <2>2, <2>4 DEF L
<1>8. CASE Reuse(calls)
  <2>1. A = {} /\ lists' = lists /\ applied' = applied /\ finalized /\ finalized'
    BY <1>8, AddedFrom DEF Reuse
  <2>2. FixedRules' = FixedRules
    BY <2>1 DEF FixedRules
  <2>3. BagToSet(lists') = L \cup RulesMade(s) \cup FixedRules'
    BY <1>3, <1>4, <2>1, <2>2
  <2> QED BY <1>2, <1>3, <2>1, <2>3
<1> QED BY <1>6, <1>7, <1>8 DEF Completes

(* Rules never leave the lists, and a closed Vcn stays closed. *)
LEMMA ListsGrow ==
  ASSUME ProgramInv, NEW s, Completes(s) \/ Raises(s)
  PROVE  BagToSet(lists) \subseteq BagToSet(lists') /\ (finalized => finalized')
<1>1. CallsOf(s) \in Seq(Call)
  BY AskedCalls DEF Completes, Raises
<1>2. Collect(CallsOf(s)) \/ Materialise(CallsOf(s)) \/ UNCHANGED <<lists, finalized>>
  BY DEF Completes, Raises, Reuse, Refuse, Rejects
<1>3. Collect(CallsOf(s)) \/ Materialise(CallsOf(s)) => ~finalized
  BY DEF Collect, Materialise
<1> QED BY <1>1, <1>2, <1>3, ListsAfter

(* Both parts start true. *)
LEMMA RulesInit == Init => Registered /\ Accounted
<1> SUFFICES ASSUME Init PROVE Registered /\ Accounted
  OBVIOUS
<1>1. BagToSet(built) = {} /\ applied = {} /\ finalized = FALSE
  BY EmptyBagIsBag DEF Init, VcnInit
<1>2. BagToSet(lists) = Each(VcnSeedRules)
  BY DEF Init, VcnInit, BagOf, BagToSet, Each
<1> QED BY <1>1, <1>2 DEF Registered, Accounted, FixedRules

(* A spell that completes keeps both; one that raises ends the program. *)
LEMMA RulesStep ==
  ASSUME ProgramInv, CatchErrors = FALSE, Registered, Accounted, NEW s, Completes(s) \/ Raises(s)
  PROVE  Registered' /\ Accounted'
<1>1. BagToSet(lists) \subseteq BagToSet(lists') /\ (finalized => finalized')
  BY ListsGrow
<1>2. CASE Completes(s)
  <2> DEFINE B == BagToSet(built)
             made(S) == UNION {RulesMade(x) : x \in S}
  <2>1. BagToSet(built') = B \cup {s}
    <3>1. built' = built (+) SetToBag({s}) /\ IsABag(built)
      BY <1>2 DEF Completes, ProgramInv
    <3> QED BY <3>1, OneMore
  <2>2. /\ outcome = "ok"
        /\ BagToSet(lists') = BagToSet(lists) \cup RulesMade(s) \cup FixedRules'
        /\ \A fp \in applied' : RuleOf(fp) \in BagToSet(lists')
        /\ s.kind \notin Light => finalized'
    BY <1>2, CompletedLists
  <2>3. BagToSet(lists) = FixedRules \cup made(B) /\ FixedRules \subseteq FixedRules'
    BY <1>1, <2>2 DEF Accounted, FixedRules
  <2>4. made(B \cup {s}) = made(B) \cup RulesMade(s)
    OBVIOUS
  <2>5. \A x \in B : RulesMade(x) \subseteq BagToSet(lists) /\ (x.kind \notin Light => finalized)
    BY DEF Registered
  <2>6. Registered'
    BY <1>1, <2>1, <2>2, <2>5 DEF Registered
  <2> HIDE DEF made, B
  <2>7. BagToSet(lists') = FixedRules' \cup made(B \cup {s})
    BY <2>2, <2>3, <2>4
  <2> QED BY <2>1, <2>2, <2>6, <2>7 DEF Accounted, made, B
<1>3. CASE Raises(s)
  <2>1. outcome' # "ok" /\ built' = built
    BY <1>3 DEF Raises
  <2> QED BY <1>1, <2>1 DEF Registered, Accounted
<1> QED BY <1>2, <1>3

(* The inductive invariant of a program that ends with its first exception. *)
LEMMA SoundStep ==
  ASSUME CatchErrors = FALSE, ProgramInv, Registered, Accounted, [Next]_vars
  PROVE  Registered' /\ Accounted'
<1>1. CASE Next
  BY <1>1, StepIsSpell, ProgramTyped, RulesStep
<1>2. CASE UNCHANGED vars
  BY <1>2 DEF vars, Registered, Accounted, FixedRules
<1> QED BY <1>1, <1>2

(* While the program has met no exception, every rule of every completed spell is in
   the lists, and every rule in the lists is the Vcn's own or some completed
   spell's: the two halves of rule accumulation (network.py, add_security_list_rules). *)
THEOREM SoundInvariant ==
  ASSUME CatchErrors = FALSE
  PROVE  Spec => [](ProgramInv /\ Registered /\ Accounted)
<1>1. Init => ProgramInv /\ Registered /\ Accounted
  BY ProgramInit, RulesInit
<1>2. ProgramInv /\ Registered /\ Accounted /\ [Next]_vars
        => ProgramInv' /\ Registered' /\ Accounted'
  BY ProgramStep, SoundStep
<1> QED BY <1>1, <1>2, PTL DEF Spec

-----------------------------------------------------------------------------
(* Spells find their traffic admitted *)

(* More rules admit more. *)
LEMMA AdmitsGrows ==
  ASSUME NEW R, NEW S, R \subseteq S, NEW dir, NEW tier, NEW port, NEW peer,
         Admits(R, dir, tier, port, peer)
  PROVE  Admits(S, dir, tier, port, peer)
  BY DEF Admits

(* A rule admits what it names. *)
LEMMA RuleAdmits ==
  ASSUME NEW R, NEW tier, NEW port, NEW peer
  PROVE  /\ IngressTcp(tier, port, peer) \in R => Admits(R, "ingress", tier, port, peer)
         /\ EgressTcp(tier, port, peer) \in R => Admits(R, "egress", tier, port, peer)
         /\ EgressAll(tier, peer) \in R => Admits(R, "egress", tier, port, peer)
<1>1. peer \in CoveredBy(peer)
  BY DEF CoveredBy
<1>2. IngressTcp(tier, port, peer) \in R => Admits(R, "ingress", tier, port, peer)
  <2> DEFINE r == IngressTcp(tier, port, peer)
  <2>1. r.dir = "ingress" /\ r.tier = tier /\ r.proto = "tcp" /\ r.port = port /\ r.peer = peer
    BY DEF IngressTcp, SecurityRule
  <2> HIDE DEF r
  <2> QED BY <1>1, <2>1 DEF Admits, r
<1>3. EgressTcp(tier, port, peer) \in R => Admits(R, "egress", tier, port, peer)
  <2> DEFINE r == EgressTcp(tier, port, peer)
  <2>1. r.dir = "egress" /\ r.tier = tier /\ r.proto = "tcp" /\ r.port = port /\ r.peer = peer
    BY DEF EgressTcp, SecurityRule
  <2> HIDE DEF r
  <2> QED BY <1>1, <2>1 DEF Admits, r
<1>4. EgressAll(tier, peer) \in R => Admits(R, "egress", tier, port, peer)
  <2> DEFINE r == EgressAll(tier, peer)
  <2>1. r.dir = "egress" /\ r.tier = tier /\ r.proto = "all" /\ r.port = AnyPort /\ r.peer = peer
    BY DEF EgressAll, SecurityRule
  <2> HIDE DEF r
  <2> QED BY <1>1, <2>1 DEF Admits, r
<1> QED BY <1>2, <1>3, <1>4

(* The rules let the traffic of the spell through. *)
Served(s, rules) ==
  \A need \in SpellNeeds(s) : Admits(rules, need[1], need[2], need[3], need[4])

(* A path from the public tier to a backend. *)
LEMMA BackendAdmitted ==
  ASSUME NEW R, NEW port, WebRules \cup BackendRules(port) \subseteq R
  PROVE  \A need \in {<<"ingress", "public", HTTP, "internet">>, <<"ingress", "public", HTTPS, "internet">>,
                      <<"egress", "public", port, "private">>, <<"ingress", "private", port, "public">>} :
           Admits(R, need[1], need[2], need[3], need[4])
<1>1. /\ Admits(R, "ingress", "public", HTTP, "internet")
      /\ Admits(R, "ingress", "public", HTTPS, "internet")
      /\ Admits(R, "egress", "public", port, "private")
      /\ Admits(R, "ingress", "private", port, "public")
  BY RuleAdmits DEF WebRules, BackendRules
<1> QED BY <1>1

(* The rules a spell makes are those it needs; a spell that needs any has
   finalised the Vcn. *)
LEMMA OwnRulesServe ==
  ASSUME NEW s, Asked(s)
  PROVE  Served(s, RulesMade(s)) /\ (SpellNeeds(s) # {} => s.kind \notin Light)
<1> DEFINE R == RulesMade(s)
           OK == Served(s, R) /\ (SpellNeeds(s) # {} => s.kind \notin Light)
<1>1. ASSUME SpellNeeds(s) = {} PROVE OK
  BY <1>1 DEF Served
<1>2. CASE AskedNsg(s) \/ AskedServes(s) \/ s \in Silent
  <2>1. s.kind \in {"Nsg", "serves", "late ComputeInstance", "VcnFlowLogs", "export"}
    <3>1. ASSUME NEW r, NEW ports, s = Spell("Nsg", r, "", ports, FALSE) PROVE s.kind = "Nsg"
      BY <3>1 DEF Spell
    <3>2. ASSUME NEW src, NEW tgt, NEW port, NEW ssh, s = Spell("serves", src, tgt, <<port>>, ssh)
          PROVE  s.kind = "serves"
      BY <3>2 DEF Spell
    <3>3. ASSUME NEW tier, s = Spell("late ComputeInstance", tier, "", <<>>, FALSE)
          PROVE  s.kind = "late ComputeInstance"
      BY <3>3 DEF Spell
    <3>4. ASSUME s = Spell("VcnFlowLogs", "", "", <<>>, FALSE) PROVE s.kind = "VcnFlowLogs"
      BY <3>4 DEF Spell
    <3>5. ASSUME s = Spell("export", "", "", <<>>, FALSE) PROVE s.kind = "export"
      BY <3>5 DEF Spell
    <3> QED BY <1>2, <3>1, <3>2, <3>3, <3>4, <3>5 DEF AskedNsg, AskedServes, Silent
  <2>2. SpellNeeds(s) = {}
    <3>1. CASE s.kind = "Nsg"  BY <3>1 DEF SpellNeeds
    <3>2. CASE s.kind = "serves"  BY <3>2 DEF SpellNeeds
    <3>3. CASE s.kind = "late ComputeInstance"
      <4>1. s.kind \notin {"ComputeInstance", "Bastion", "LoadBalancer", "ScalableWorkload",
                          "InternalLoadBalancer", "OkeCluster"}
        BY <3>3
      <4> QED BY <4>1 DEF SpellNeeds
    <3>4. CASE s.kind = "VcnFlowLogs"  BY <3>4 DEF SpellNeeds
    <3>5. CASE s.kind = "export"  BY <3>5 DEF SpellNeeds
    <3> QED BY <2>1, <3>1, <3>2, <3>3, <3>4, <3>5
  <2> QED BY <1>1, <2>2
<1>3. ASSUME NEW tier \in Tiers, s = Spell("ComputeInstance", tier, "", <<>>, FALSE) PROVE OK
  <2>1. s.kind = "ComputeInstance" /\ s.at = tier
    BY <1>3 DEF Spell
  <2>2. R = {IngressTcp(tier, SSH, ComputeSshSource(tier))}
    BY <1>3, ComputeBrings DEF Brings
  <2>3. SpellNeeds(s) = {<<"ingress", tier, SSH, ComputeSshSource(tier)>>}
    BY <2>1 DEF SpellNeeds
  <2> HIDE DEF R
  <2>4. Admits(R, "ingress", tier, SSH, ComputeSshSource(tier))
    BY <2>2, RuleAdmits
  <2> QED BY <2>1, <2>3, <2>4 DEF Served, Light
<1>4. ASSUME s = Spell("Bastion", "private", "", <<>>, FALSE) PROVE OK
  <2>1. s.kind = "Bastion"
    BY <1>4 DEF Spell
  <2>2. R = {BastionRule}
    BY <1>4, BastionBrings DEF Brings
  <2>3. SpellNeeds(s) = {<<"ingress", "private", SSH, "internet">>}
    BY <2>1 DEF SpellNeeds
  <2> HIDE DEF R
  <2>4. Admits(R, "ingress", "private", SSH, "internet")
    BY <2>2, RuleAdmits DEF BastionRule
  <2> QED BY <2>1, <2>3, <2>4 DEF Served, Light
<1>5. ASSUME NEW port \in Ports, NEW public \in BOOLEAN,
             s = Spell("ScalableWorkload", "private", "", <<port>>, public)
      PROVE  OK
  <2>1. s.kind = "ScalableWorkload" /\ s.ports[1] = port /\ (s.opt <=> public)
    BY <1>5 DEF Spell
  <2>2. R = WorkloadRules(port, public)
    BY <1>5, WorkloadBrings DEF Brings
  <2> HIDE DEF R
  <2>3. CASE public
    <3>1. SpellNeeds(s) = {<<"ingress", "public", HTTP, "internet">>, <<"ingress", "public", HTTPS, "internet">>,
                      <<"egress", "public", port, "private">>, <<"ingress", "private", port, "public">>}
      BY <2>1, <2>3 DEF SpellNeeds
    <3>2. WebRules \cup BackendRules(port) \subseteq R
      BY <2>2, <2>3 DEF WorkloadRules
    <3>3. Served(s, R)
      BY <3>1, <3>2, BackendAdmitted DEF Served
    <3> QED BY <2>1, <3>3 DEF Light
  <2>4. CASE ~public
    <3>1. SpellNeeds(s) = {<<"ingress", "private", p, "vcn">> : p \in {HTTP, HTTPS, port}}
      BY <2>1, <2>4 DEF SpellNeeds
    <3>2. \A p \in {HTTP, HTTPS, port} : Admits(R, "ingress", "private", p, "vcn")
      BY <2>2, <2>4, RuleAdmits DEF WorkloadRules
    <3> QED BY <2>1, <3>1, <3>2 DEF Served, Light
  <2> QED BY <2>3, <2>4
<1>6. ASSUME NEW port \in Ports, s = Spell("LoadBalancer", "public", "private", <<port>>, FALSE) PROVE OK
  <2>1. s.kind = "LoadBalancer" /\ s.ports[1] = port
    BY <1>6 DEF Spell
  <2>2. R = WebRules \cup BackendRules(port)
    BY <1>6, LoadBalancerBrings DEF Brings
  <2>3. SpellNeeds(s) = {<<"ingress", "public", HTTP, "internet">>, <<"ingress", "public", HTTPS, "internet">>,
                      <<"egress", "public", port, "private">>, <<"ingress", "private", port, "public">>}
    BY <2>1 DEF SpellNeeds
  <2> HIDE DEF R
  <2>4. Served(s, R)
    BY <2>2, <2>3, BackendAdmitted DEF Served
  <2> QED BY <2>1, <2>4 DEF Light
<1>7. ASSUME NEW port \in Ports, s = Spell("InternalLoadBalancer", "private", "private", <<port>>, FALSE)
      PROVE  OK
  <2>1. s.kind = "InternalLoadBalancer" /\ s.ports[1] = port
    BY <1>7 DEF Spell
  <2>2. R = InternalLbRules(port)
    BY <1>7, InternalLbBrings DEF Brings
  <2>3. SpellNeeds(s) = {<<"ingress", "private", HTTP, "vcn">>, <<"egress", "private", port, "private">>}
    BY <2>1 DEF SpellNeeds
  <2> HIDE DEF R
  <2>4. Admits(R, "ingress", "private", HTTP, "vcn") /\ Admits(R, "egress", "private", port, "private")
    BY <2>2, RuleAdmits DEF InternalLbRules
  <2> QED BY <2>1, <2>3, <2>4 DEF Served, Light
<1>8. ASSUME NEW kubectl \in BOOLEAN, s = Spell("OkeCluster", "private", "public", <<>>, kubectl) PROVE OK
  <2>1. s.kind = "OkeCluster"
    BY <1>8 DEF Spell
  <2>2. R = OkeRules(kubectl)
    BY <1>8, OkeBrings DEF Brings
  <2>3. SpellNeeds(s) =
         {<<"egress", "private", 6443, "public">>, <<"ingress", "public", 6443, "private">>,
          <<"egress", "public", 10250, "private">>, <<"ingress", "private", 10250, "public">>}
    BY <2>1 DEF SpellNeeds
  <2>4. /\ EgressTcp("private", 6443, "public") \in OkeRules(kubectl)
        /\ IngressTcp("public", 6443, "private") \in OkeRules(kubectl)
        /\ EgressTcp("public", 10250, "private") \in OkeRules(kubectl)
        /\ IngressTcp("private", 10250, "public") \in OkeRules(kubectl)
    BY DEF OkeRules, OkePublicRules, OkePrivateRules
  <2> HIDE DEF R
  <2>5. /\ Admits(R, "egress", "private", 6443, "public") /\ Admits(R, "ingress", "public", 6443, "private")
        /\ Admits(R, "egress", "public", 10250, "private") /\ Admits(R, "ingress", "private", 10250, "public")
    BY <2>2, <2>4, RuleAdmits
  <2> QED BY <2>1, <2>3, <2>5 DEF Served, Light
<1> QED BY <1>2, <1>3, <1>4, <1>5, <1>6, <1>7, <1>8 DEF Asked, AskedResource

(* What serves a spell still serves it with more rules. *)
LEMMA ServedGrows ==
  ASSUME NEW s, NEW R, NEW S, R \subseteq S, Served(s, R)
  PROVE  Served(s, S)
  BY AdmitsGrows DEF Served

(* Every spell that was built is served by what OCI was given. *)
LEMMA BuiltServed ==
  ASSUME ProgramInv, Registered, NEW s \in BagToSet(built)
  PROVE  Served(s, BagToSet(securityLists))
<1>1. Asked(s)
  BY DEF ProgramInv, Permitted
<1>2. Served(s, RulesMade(s)) /\ (SpellNeeds(s) # {} => s.kind \notin Light)
  BY <1>1, OwnRulesServe
<1>3. CASE SpellNeeds(s) = {}
  BY <1>3 DEF Served
<1>4. CASE s.kind \notin Light
  <2>1. securityLists = lists
    BY <1>4 DEF Registered, ProgramInv, VcnInv, DeployedIsCollected
  <2>2. RulesMade(s) \subseteq BagToSet(securityLists)
    BY <2>1 DEF Registered
  <2> QED BY <1>2, <2>2, ServedGrows
<1> QED BY <1>2, <1>3, <1>4

(* Where every rule of a completed spell is registered, its traffic is admitted. *)
LEMMA SoundServes == ProgramInv /\ Registered /\ Accounted => SpellsServed
  BY BuiltServed DEF SpellsServed, Served

(* A spell whose constructor returned finds its traffic admitted by the security
   lists OCI was given, whatever was built before and after it. *)
THEOREM EverySpellServed ==
  ASSUME CatchErrors = FALSE
  PROVE  Spec => []SpellsServed
  BY SoundServes, SoundInvariant, PTL

-----------------------------------------------------------------------------
(* What the rules of a spell open *)

(* The parts of a rule. *)
LEMMA RuleParts ==
  ASSUME NEW tier, NEW port, NEW peer
  PROVE  /\ LET r == IngressTcp(tier, port, peer)
            IN  r.tier = tier /\ r.dir = "ingress" /\ r.proto = "tcp" /\ r.port = port /\ r.peer = peer
         /\ LET r == EgressTcp(tier, port, peer)
            IN  r.tier = tier /\ r.dir = "egress" /\ r.proto = "tcp" /\ r.port = port /\ r.peer = peer
         /\ LET r == EgressAll(tier, peer)
            IN  r.tier = tier /\ r.dir = "egress" /\ r.proto = "all" /\ r.port = AnyPort /\ r.peer = peer
  BY DEF IngressTcp, EgressTcp, EgressAll, SecurityRule

(* The rules of a group: its ports on the internet, and the ambient egress. *)
NsgShape(s, r) ==
  \/ /\ s.kind = "Nsg" /\ s.at = "INTERNET_EDGE"
     /\ \E p \in Each(s.ports) : p \in Ports /\ r = IngressTcp("public", p, "internet")
  \/ \E tier \in Tiers : r = EgressAll(tier, "services")
  \/ r = EgressAll("private", "internet")

(* The rules of an Nsg: its ports from the internet, or egress of its tier. *)
LEMMA NsgRulesShape ==
  ASSUME NEW s, AskedNsg(s), NEW r \in RulesMade(s)
  PROVE  NsgShape(s, r)
<1>1. PICK role0 \in RoleNames \cup {"none"}, ports \in Seq(Ports) : s = Spell("Nsg", role0, "", ports, FALSE)
  BY DEF AskedNsg
<1>2. s.kind = "Nsg" /\ s.at = role0 /\ s.ports = ports
  BY <1>1 DEF Spell
<1>3. role0 # "none"
  BY <1>1, SilentBrings DEF Brings
<1>4. r \in NsgRules(role0, ports) /\ role0 \in RoleNames
  BY <1>1, <1>3, NsgBrings DEF Brings
<1>5. CASE role0 = "INTERNET_EDGE" /\ \E p \in Each(ports) : r = IngressTcp("public", p, "internet")
  <2>1. PICK p \in Each(ports) : r = IngressTcp("public", p, "internet")
    BY <1>5
  <2>2. p \in Ports
    BY DEF Each
  <2> QED BY <1>2, <1>5, <2>1, <2>2 DEF NsgShape
<1>6. CASE r = EgressAll(RoleSpec[role0].subnet_tier, "services")
  BY <1>4, <1>6, RoleFacts DEF NsgShape
<1>7. CASE RoleSpec[role0].egress_internet /\ r = EgressAll(RoleSpec[role0].subnet_tier, "internet")
  BY <1>4, <1>7, RoleFacts DEF NsgShape
<1> QED BY <1>4, <1>5, <1>6, <1>7 DEF NsgRules

(* The rules of a relation: one channel, or a second one for SSH. *)
ServesShape(s, r) ==
  /\ s.kind = "serves" /\ s.at \in Tiers /\ s.to \in Tiers /\ s.at # s.to
  /\ \E p \in Ports \cup {SSH} :
       /\ p = s.ports[1] \/ (s.opt /\ p = SSH)
       /\ r \in ChannelRules(s.at, s.to, p)

(* The rules of a relation: the two ends of one of its channels. *)
LEMMA ServesRulesShape ==
  ASSUME NEW s, AskedServes(s), NEW r \in RulesMade(s)
  PROVE  ServesShape(s, r)
<1>1. ASSUME NEW port \in Ports, NEW ssh \in BOOLEAN, NEW src, NEW tgt,
             src = tgt \/ {src, tgt} \subseteq Tiers, s = Spell("serves", src, tgt, <<port>>, ssh)
      PROVE  ServesShape(s, r)
  <2>1. s.kind = "serves" /\ s.at = src /\ s.to = tgt /\ s.ports[1] = port /\ (s.opt <=> ssh)
    BY <1>1 DEF Spell
  <2>2. r \in ServesRules(src, tgt, port, ssh)
    BY <1>1, ServesBrings DEF Brings
  <2>3. src # tgt /\ src \in Tiers /\ tgt \in Tiers
    BY <1>1, <2>2 DEF ServesRules
  <2>4. CASE r \in ChannelRules(src, tgt, port)
    BY <2>1, <2>3, <2>4 DEF ServesShape
  <2>5. CASE ssh /\ r \in ChannelRules(src, tgt, SSH)
    BY <2>1, <2>3, <2>5 DEF ServesShape
  <2> QED BY <2>2, <2>3, <2>4, <2>5 DEF ServesRules
<1>2. PICK port \in Ports, ssh \in BOOLEAN :
        \/ s = Spell("serves", "none", "none", <<port>>, ssh)
        \/ \E src, tgt \in Tiers : s = Spell("serves", src, tgt, <<port>>, ssh)
  BY DEF AskedServes
<1>3. CASE s = Spell("serves", "none", "none", <<port>>, ssh)
  BY <1>1, <1>3
<1>4. ASSUME NEW src \in Tiers, NEW tgt \in Tiers, s = Spell("serves", src, tgt, <<port>>, ssh)
      PROVE  ServesShape(s, r)
  <2>1. {src, tgt} \subseteq Tiers
    OBVIOUS
  <2> QED BY <1>1, <1>4, <2>1
<1> QED BY <1>2, <1>3, <1>4

(* The rules of an instance, a bastion, and spells without rules. *)
AccessShape(s, r) ==
  \/ s.kind = "ComputeInstance" /\ s.at \in Tiers /\ r = IngressTcp(s.at, SSH, ComputeSshSource(s.at))
  \/ s.kind = "Bastion" /\ r = BastionRule

(* The rules of load balancers, workloads and clusters. *)
LoadKinds == {"ScalableWorkload", "LoadBalancer", "InternalLoadBalancer", "OkeCluster"}

LoadShape(s, r) ==
  /\ s.kind \in LoadKinds
  /\ \/ r.peer # "internet"
     \/ r.dir = "egress" /\ r.tier = "private"
     \/ /\ r \in WebRules
        /\ s.kind \in {"LoadBalancer", "OkeCluster"} \/ (s.kind = "ScalableWorkload" /\ s.opt)

(* A rule with a peer inside, or an OCI service, does not name the internet. *)
LEMMA InnerPeer ==
  ASSUME NEW r, NEW tier, NEW p, NEW peer \in {"public", "private", "vcn", "services", "kubectl"},
         r = IngressTcp(tier, p, peer) \/ r = EgressTcp(tier, p, peer) \/ r = EgressAll(tier, peer)
  PROVE  r.peer # "internet"
  BY RuleParts

(* The rules of the path to a backend are such rules. *)
LEMMA BackendInner ==
  ASSUME NEW port, NEW r \in BackendRules(port)
  PROVE  r.peer # "internet"
  BY InnerPeer DEF BackendRules

(* So are those of an internal load balancer ... *)
LEMMA InternalLbInner ==
  ASSUME NEW port, NEW r \in InternalLbRules(port)
  PROVE  r.peer # "internet"
  BY InnerPeer DEF InternalLbRules

(* ... of a private workload ... *)
LEMMA WorkloadInner ==
  ASSUME NEW port, NEW r \in WorkloadRules(port, FALSE)
  PROVE  r.peer # "internet"
  BY InnerPeer DEF WorkloadRules

(* ... and those of a cluster's endpoint. *)
LEMMA OkePublicInner ==
  ASSUME NEW r, r \in OkePublicRules \/ r = IngressTcp("public", 6443, "kubectl")
  PROVE  r.peer # "internet"
  BY InnerPeer DEF OkePublicRules

(* The nodes of a cluster reach out to the internet from the private tier. *)
LEMMA OkeInnerRules ==
  ASSUME NEW r \in OkePrivateRules
  PROVE  r.peer # "internet" \/ (r.dir = "egress" /\ r.tier = "private")
<1>1. CASE \E p, peer : /\ peer \in {"public", "services"}
                        /\ r = IngressTcp("private", p, peer) \/ r = EgressTcp("private", p, peer)
  BY <1>1, RuleParts
<1>2. CASE r = SecurityRule("private", "ingress", "all", AnyPort, "public")
  BY <1>2 DEF SecurityRule
<1>3. CASE \E p : r = EgressTcp("private", p, "internet")
  BY <1>3, RuleParts
<1> QED BY <1>1, <1>2, <1>3 DEF OkePrivateRules

(* The rules of the spells that create resources. *)
LEMMA ResourceRulesShape ==
  ASSUME NEW s, AskedResource(s), NEW r \in RulesMade(s)
  PROVE  AccessShape(s, r) \/ LoadShape(s, r)
<1>1. s \notin Silent
  BY SilentBrings DEF Brings, Silent
<1>2. ASSUME NEW tier \in Tiers, s = Spell("ComputeInstance", tier, "", <<>>, FALSE)
      PROVE  AccessShape(s, r)
  <2>1. s.kind = "ComputeInstance" /\ s.at = tier
    BY <1>2 DEF Spell
  <2>2. r = IngressTcp(tier, SSH, ComputeSshSource(tier))
    BY <1>2, ComputeBrings DEF Brings
  <2> QED BY <2>1, <2>2 DEF AccessShape
<1>3. CASE s = Spell("Bastion", "private", "", <<>>, FALSE)
  <2>1. s.kind = "Bastion"
    BY <1>3 DEF Spell
  <2>2. r = BastionRule
    BY <1>3, BastionBrings DEF Brings
  <2> QED BY <2>1, <2>2 DEF AccessShape
<1>4. ASSUME NEW port \in Ports, NEW public \in BOOLEAN,
             s = Spell("ScalableWorkload", "private", "", <<port>>, public)
      PROVE  LoadShape(s, r)
  <2>1. s.kind = "ScalableWorkload" /\ (s.opt <=> public)
    BY <1>4 DEF Spell
  <2>2. r \in WorkloadRules(port, public)
    BY <1>4, WorkloadBrings DEF Brings
  <2>3. CASE public /\ r \in WebRules
    BY <2>1, <2>3 DEF LoadShape, LoadKinds
  <2>4. CASE r.peer # "internet"
    BY <2>1, <2>4 DEF LoadShape, LoadKinds
  <2>5. CASE r \in BackendRules(port)
    BY <2>4, <2>5, BackendInner
  <2>6. CASE public = FALSE
    <3>1. r \in WorkloadRules(port, FALSE)
      BY <2>2, <2>6
    <3>2. r.peer # "internet"
      BY <3>1, WorkloadInner
    <3> QED BY <2>4, <3>2
  <2> QED BY <2>2, <2>3, <2>5, <2>6 DEF WorkloadRules
<1>5. ASSUME NEW port \in Ports, s = Spell("LoadBalancer", "public", "private", <<port>>, FALSE)
      PROVE  LoadShape(s, r)
  <2>1. s.kind = "LoadBalancer"
    BY <1>5 DEF Spell
  <2>2. r \in WebRules \/ r \in BackendRules(port)
    BY <1>5, LoadBalancerBrings DEF Brings
  <2>3. CASE r.peer # "internet"
    BY <2>1, <2>3 DEF LoadShape, LoadKinds
  <2>4. CASE r \in WebRules
    BY <2>1, <2>4 DEF LoadShape, LoadKinds
  <2> QED BY <2>2, <2>3, <2>4, BackendInner
<1>6. ASSUME NEW port \in Ports, s = Spell("InternalLoadBalancer", "private", "private", <<port>>, FALSE)
      PROVE  LoadShape(s, r)
  <2>1. s.kind = "InternalLoadBalancer"
    BY <1>6 DEF Spell
  <2>2. r \in InternalLbRules(port)
    BY <1>6, InternalLbBrings DEF Brings
  <2>3. r.peer # "internet"
    BY <2>2, InternalLbInner
  <2> QED BY <2>1, <2>3 DEF LoadShape, LoadKinds
<1>7. ASSUME NEW kubectl \in BOOLEAN, s = Spell("OkeCluster", "private", "public", <<>>, kubectl)
      PROVE  LoadShape(s, r)
  <2>1. s.kind = "OkeCluster"
    BY <1>7 DEF Spell
  <2>2. \/ r \in WebRules \/ r \in OkePrivateRules
        \/ r \in OkePublicRules \/ r = IngressTcp("public", 6443, "kubectl")
    BY <1>7, OkeBrings DEF Brings, OkeRules
  <2>3. CASE r \in WebRules
    BY <2>1, <2>3 DEF LoadShape, LoadKinds
  <2>4. CASE r \in OkePrivateRules
    BY <2>1, <2>4, OkeInnerRules DEF LoadShape, LoadKinds
  <2>5. CASE r \in OkePublicRules \/ r = IngressTcp("public", 6443, "kubectl")
    <3>1. r.peer # "internet"
      BY <2>5, OkePublicInner
    <3> QED BY <2>1, <3>1 DEF LoadShape, LoadKinds
  <2> QED BY <2>2, <2>3, <2>4, <2>5
<1> QED BY <1>1, <1>2, <1>3, <1>4, <1>5, <1>6, <1>7 DEF AskedResource

(* The ports a spell was asked to open. *)
LEMMA Requested ==
  ASSUME NEW s \in BagToSet(built)
  PROVE  /\ s.kind = "Nsg" /\ s.at = "INTERNET_EDGE" => Each(s.ports) \subseteq RequestedPorts
         /\ s.kind = "ComputeInstance" /\ s.at = "public" => SSH \in RequestedPorts
         /\ s.kind \in {"LoadBalancer", "OkeCluster"} \/ (s.kind = "ScalableWorkload" /\ s.opt)
              => {HTTP, HTTPS} \subseteq RequestedPorts
<1>1. s.kind = "Nsg" /\ s.at = "INTERNET_EDGE" => Each(s.ports) \subseteq RequestedPorts
  BY DEF RequestedPorts, Built, Each
<1>2. s.kind = "ComputeInstance" /\ s.at = "public" => SSH \in RequestedPorts
  BY DEF RequestedPorts, Built
<1>3. s.kind \in {"LoadBalancer", "OkeCluster"} \/ (s.kind = "ScalableWorkload" /\ s.opt)
        => {HTTP, HTTPS} \subseteq RequestedPorts
  <2>1. s.kind \in {"LoadBalancer", "OkeCluster"} => Built("LoadBalancer") \cup Built("OkeCluster") # {}
    BY DEF Built
  <2>2. s.kind = "ScalableWorkload" /\ s.opt => \E x \in Built("ScalableWorkload") : x.opt
    BY DEF Built
  <2> QED BY <2>1, <2>2 DEF RequestedPorts
<1> QED BY <1>1, <1>2, <1>3

(* What may be open to the internet, or to a spell that reaches it. *)
Exposed(r) ==
  \/ r.dir = "ingress" /\ r.tier = "public" /\ r.port \in RequestedPorts
  \/ r = BastionRule /\ Built("Bastion") # {}
  \/ r.dir = "egress" /\ r.tier = "private"

(* The rules of the Vcn itself: ICMP, and the way out of a tier. *)
LEMMA FixedShape ==
  ASSUME NEW r \in FixedRules
  PROVE  \/ r.proto = "icmp"
         \/ r.dir = "egress" /\ r.peer = "services"
         \/ r.dir = "egress" /\ r.tier = "private"
<1>1. CASE r \in Each(VcnSeedRules)
  <2> DEFINE a == SecurityRule("public", "ingress", "icmp", AnyPort, "internet")
             b == SecurityRule("public", "ingress", "icmp", AnyPort, "vcn")
  <2>1. a.proto = "icmp" /\ b.proto = "icmp" /\ VcnSeedRules = <<a, b>>
    BY DEF SecurityRule, VcnSeedRules
  <2> HIDE DEF a, b
  <2>2. r \in {a, b}
    BY <1>1, <2>1, EachShort
  <2> QED BY <2>1, <2>2
<1>2. CASE r \in Each(VcnBaselineRules)
  <2> DEFINE a == EgressAll("private", "internet")
             b == EgressAll("private", "services")
             c == EgressAll("secure", "services")
             d == EgressAll("management", "services")
  <2>1. VcnBaselineRules = <<a, b, c, d>>
    BY DEF VcnBaselineRules
  <2>2. /\ a.dir = "egress" /\ a.tier = "private" /\ b.dir = "egress" /\ b.peer = "services"
        /\ c.dir = "egress" /\ c.peer = "services" /\ d.dir = "egress" /\ d.peer = "services"
    BY RuleParts
  <2> HIDE DEF a, b, c, d
  <2>3. r \in {a, b, c, d}
    BY <1>2, <2>1, EachShort
  <2> QED BY <2>2, <2>3
<1> QED BY <1>1, <1>2 DEF FixedRules

(* The rules of a spell open no more than it was asked to. *)
LEMMA SpellClosed ==
  ASSUME NEW s \in BagToSet(built), Asked(s), NEW r \in RulesMade(s), r.peer = "internet"
  PROVE  Exposed(r)
<1>1. CASE NsgShape(s, r)
  <2>1. ASSUME s.kind = "Nsg", s.at = "INTERNET_EDGE",
               NEW p \in Each(s.ports), r = IngressTcp("public", p, "internet")
        PROVE  Exposed(r)
    BY <2>1, Requested, RuleParts DEF Exposed
  <2>2. ASSUME NEW tier \in Tiers, r = EgressAll(tier, "services") PROVE FALSE
    BY <2>2, RuleParts
  <2>3. CASE r = EgressAll("private", "internet")
    BY <2>3, RuleParts DEF Exposed
  <2> QED BY <1>1, <2>1, <2>2, <2>3 DEF NsgShape
<1>2. CASE ServesShape(s, r)
  <2>1. PICK p : r \in ChannelRules(s.at, s.to, p)
    BY <1>2 DEF ServesShape
  <2>2. s.at # "internet" /\ s.to # "internet"
    BY <1>2 DEF ServesShape, Tiers
  <2> QED BY <2>1, <2>2, RuleParts DEF ChannelRules
<1>3. CASE AccessShape(s, r)
  <2>1. CASE s.kind = "ComputeInstance" /\ s.at \in Tiers /\ r = IngressTcp(s.at, SSH, ComputeSshSource(s.at))
    <3>1. ComputeSshSource(s.at) = "internet"
      BY <2>1, RuleParts
    <3>2. s.at = "public"
      BY <2>1, <3>1 DEF ComputeSshSource, Tiers
    <3> QED BY <2>1, <3>2, Requested, RuleParts DEF Exposed
  <2>2. CASE s.kind = "Bastion" /\ r = BastionRule
    BY <2>2 DEF Exposed, Built
  <2> QED BY <1>3, <2>1, <2>2 DEF AccessShape
<1>4. CASE LoadShape(s, r)
  <2>1. ASSUME r \in WebRules,
               s.kind \in {"LoadBalancer", "OkeCluster"} \/ (s.kind = "ScalableWorkload" /\ s.opt)
        PROVE  Exposed(r)
    BY <2>1, Requested, RuleParts DEF Exposed, WebRules
  <2> QED BY <1>4, <2>1 DEF LoadShape, Exposed
<1> QED BY <1>1, <1>2, <1>3, <1>4, NsgRulesShape, ServesRulesShape, ResourceRulesShape DEF Asked

(* Every rule that names the internet has an owner that was asked for it. *)
LEMMA SoundExposes == ProgramInv /\ Registered /\ Accounted => ExposureExplained
<1> SUFFICES ASSUME ProgramInv, Accounted, outcome = "ok",
                    NEW r \in BagToSet(lists), r.peer = "internet", r.proto # "icmp"
             PROVE  Exposed(r)
  BY DEF ExposureExplained, Exposed
<1>1. CASE r \in FixedRules
  BY <1>1, FixedShape DEF Exposed
<1>2. ASSUME NEW s \in BagToSet(built), r \in RulesMade(s) PROVE Exposed(r)
  BY <1>2, SpellClosed DEF ProgramInv, Permitted
<1> QED BY <1>1, <1>2 DEF Accounted

(* Only what was asked for is open to the internet, in every program that ends
   with its first exception: the ports that some spell requested on the public
   tier, SSH to the private tier once a Bastion is there, and the way out of the
   private tier. *)
THEOREM OnlyRequestedExposed ==
  ASSUME CatchErrors = FALSE
  PROVE  Spec => []ExposureExplained
  BY SoundExposes, SoundInvariant, PTL

-----------------------------------------------------------------------------
(* Paths between tiers *)

(* A rule that lets TCP on a port out of src towards tgt, or into tgt from src. *)
LetsOut(r, src, tgt, port) ==
  /\ r.dir = "egress" /\ r.tier = src /\ r.proto # "icmp"
  /\ r.port \in {port, AnyPort} /\ r.peer \in CoveredBy(tgt)

LetsIn(r, src, tgt, port) ==
  /\ r.dir = "ingress" /\ r.tier = tgt /\ r.proto # "icmp"
  /\ r.port \in {port, AnyPort} /\ r.peer \in CoveredBy(src)

(* A peer that is a tier covers that tier only. *)
LEMMA TierCovers ==
  ASSUME NEW t \in Tiers, NEW u \in Tiers
  PROVE  /\ t \in CoveredBy(u) => t = u
         /\ "services" \notin CoveredBy(u)
  BY DEF Tiers, CoveredBy

(* Both rules of a channel serve the declared path and no other. *)
LEMMA ChannelDeclares ==
  ASSUME NEW s \in BagToSet(built), NEW r, ServesShape(s, r),
         NEW src \in Tiers, NEW tgt \in Tiers, NEW port,
         LetsOut(r, src, tgt, port) \/ LetsIn(r, src, tgt, port)
  PROVE  Declared(src, tgt, port)
<1>1. PICK p \in Ports \cup {SSH} :
        /\ p = s.ports[1] \/ (s.opt /\ p = SSH)
        /\ r \in {EgressTcp(s.at, p, s.to), IngressTcp(s.to, p, s.at)}
  BY DEF ServesShape, ChannelRules
<1>2. s \in Built("serves") /\ s.at \in Tiers /\ s.to \in Tiers
  BY DEF ServesShape, Built
<1>3. p # AnyPort
  BY PortFacts
<1>4. r.port = p
  BY <1>1, RuleParts
<1>5. p = port
  BY <1>3, <1>4 DEF LetsOut, LetsIn
<1>6. s.at = src /\ s.to = tgt
  <2>1. CASE r = EgressTcp(s.at, p, s.to)
    <3>1. r.dir = "egress" /\ r.tier = s.at /\ r.peer = s.to
      BY <2>1, RuleParts
    <3> QED BY <1>2, <3>1, TierCovers DEF LetsOut, LetsIn
  <2>2. CASE r = IngressTcp(s.to, p, s.at)
    <3>1. r.dir = "ingress" /\ r.tier = s.to /\ r.peer = s.at
      BY <2>2, RuleParts
    <3> QED BY <1>2, <3>1, TierCovers DEF LetsOut, LetsIn
  <2> QED BY <1>1, <2>1, <2>2
<1> QED BY <1>1, <1>2, <1>5, <1>6 DEF Declared

(* Only a relation lets traffic out of a tier other than the private one. *)
LEMMA OutDeclared ==
  ASSUME NEW s \in BagToSet(built), Asked(s), s.kind \notin LoadKinds, NEW r \in RulesMade(s),
         NEW src \in Tiers, NEW tgt \in Tiers, NEW port, LetsOut(r, src, tgt, port), src # "private"
  PROVE  Declared(src, tgt, port)
<1>1. CASE NsgShape(s, r)
  <2>1. ASSUME NEW p, r = IngressTcp("public", p, "internet") PROVE FALSE
    BY <2>1, RuleParts DEF LetsOut
  <2>2. ASSUME NEW tier, r = EgressAll(tier, "services") PROVE FALSE
    BY <2>2, RuleParts, TierCovers DEF LetsOut
  <2>3. ASSUME r = EgressAll("private", "internet") PROVE FALSE
    BY <2>3, RuleParts DEF LetsOut
  <2> QED BY <1>1, <2>1, <2>2, <2>3 DEF NsgShape
<1>2. CASE ServesShape(s, r)
  BY <1>2, ChannelDeclares
<1>3. CASE AccessShape(s, r)
  <2>1. ASSUME NEW tier, NEW peer, r = IngressTcp(tier, SSH, peer) PROVE FALSE
    BY <2>1, RuleParts DEF LetsOut
  <2> QED BY <1>3, <2>1 DEF AccessShape, BastionRule
<1>4. ~LoadShape(s, r)
  BY DEF LoadShape
<1> QED BY <1>1, <1>2, <1>3, <1>4, NsgRulesShape, ServesRulesShape, ResourceRulesShape DEF Asked

(* What lets traffic in serves a declared path, except the Bastion's rule. *)
LEMMA InDeclared ==
  ASSUME NEW s \in BagToSet(built), Asked(s), s.kind \notin LoadKinds, NEW r \in RulesMade(s),
         NEW src \in Tiers, NEW tgt \in Tiers, NEW port, LetsIn(r, src, tgt, port), r # BastionRule
  PROVE  Declared(src, tgt, port)
<1>1. CASE NsgShape(s, r)
  <2>1. ASSUME s.kind = "Nsg", s.at = "INTERNET_EDGE",
               NEW p \in Each(s.ports), p \in Ports, r = IngressTcp("public", p, "internet")
        PROVE  Declared(src, tgt, port)
    <3>1. r.port = p /\ r.tier = "public" /\ p # AnyPort
      BY <2>1, PortFacts, RuleParts
    <3>2. tgt = "public" /\ port = p
      BY <3>1 DEF LetsIn
    <3> QED BY <2>1, <3>2, Requested DEF Declared
  <2>2. ASSUME NEW tier, NEW peer, r = EgressAll(tier, peer) PROVE FALSE
    BY <2>2, RuleParts DEF LetsIn
  <2> QED BY <1>1, <2>1, <2>2 DEF NsgShape
<1>2. CASE ServesShape(s, r)
  BY <1>2, ChannelDeclares
<1>3. CASE AccessShape(s, r)
  <2>1. s.kind = "ComputeInstance" /\ s.at \in Tiers /\ r = IngressTcp(s.at, SSH, ComputeSshSource(s.at))
    BY <1>3 DEF AccessShape
  <2>2. r.tier = s.at /\ r.port = SSH /\ r.peer = ComputeSshSource(s.at) /\ SSH # AnyPort
    BY <2>1, PortFacts, RuleParts
  <2>3. s.at = tgt /\ port = SSH /\ s \in Built("ComputeInstance")
    BY <2>1, <2>2 DEF LetsIn, Built
  <2>4. CASE tgt = "public"
    BY <2>1, <2>3, <2>4, Requested DEF Declared
  <2>5. CASE tgt # "public"
    <3>1. ComputeSshSource(tgt) \in Tiers
      BY <2>5 DEF ComputeSshSource, Tiers
    <3>2. src = ComputeSshSource(tgt)
      BY <2>2, <2>3, <3>1, TierCovers DEF LetsIn
    <3> QED BY <2>3, <3>2 DEF Declared
  <2> QED BY <2>4, <2>5
<1>4. ~LoadShape(s, r)
  BY DEF LoadShape
<1> QED BY <1>1, <1>2, <1>3, <1>4, NsgRulesShape, ServesRulesShape, ResourceRulesShape DEF Asked

(* The security lists open no path between two tiers that was not declared,
   however many relations, roles, instances and bastions are combined, as long
   as none of the spells that route traffic themselves (load balancers,
   workloads, clusters) is part of the program. *)
THEOREM OnlyDeclaredPaths ==
  ASSUME CatchErrors = FALSE, Spells \cap LoadKinds = {}
  PROVE  Spec => []PathsDeclared
<1>1. ProgramInv /\ Registered /\ Accounted => PathsDeclared
  <2> SUFFICES ASSUME ProgramInv, Accounted, outcome = "ok",
                      NEW src \in Tiers, NEW tgt \in Tiers, NEW port, src # tgt,
                      PathOpen(BagToSet(lists), src, tgt, port)
               PROVE  Declared(src, tgt, port)
    BY DEF PathsDeclared
  <2>1. PICK out \in BagToSet(lists) : LetsOut(out, src, tgt, port)
    BY DEF PathOpen, Admits, LetsOut
  <2>2. PICK in \in BagToSet(lists) : LetsIn(in, src, tgt, port)
    BY DEF PathOpen, Admits, LetsIn
  <2>3. \A s \in BagToSet(built) : Asked(s) /\ s.kind \notin LoadKinds
    <3>1. "late ComputeInstance" \notin LoadKinds
      BY DEF LoadKinds
    <3> QED BY <3>1 DEF ProgramInv, Permitted
  <2>4. \A r \in BagToSet(lists) : r \in FixedRules \/ \E s \in BagToSet(built) : r \in RulesMade(s)
    BY DEF Accounted
  <2>5. in \notin FixedRules
    BY <2>2, FixedShape DEF LetsIn
  <2>6. PICK s \in BagToSet(built) : in \in RulesMade(s)
    BY <2>4, <2>5
  <2>7. CASE in # BastionRule
    BY <2>2, <2>3, <2>6, <2>7, InDeclared
  <2>8. CASE in = BastionRule
    <3>1. src # "private"
      BY <2>2, <2>8, RuleParts DEF LetsIn, BastionRule
    <3>2. out \notin FixedRules
      BY <2>1, <3>1, FixedShape, TierCovers DEF LetsOut
    <3>3. PICK t \in BagToSet(built) : out \in RulesMade(t)
      BY <2>4, <3>2
    <3> QED BY <2>1, <2>3, <3>1, <3>3, OutDeclared
  <2> QED BY <2>7, <2>8
<1> QED BY <1>1, SoundInvariant, PTL

-----------------------------------------------------------------------------
(* Two layers of rules *)

RelationKinds == {"out", "in", "out-ssh", "in-ssh"}

(* What label l of group n rests on: the other end of a relation is a group
   that was built, and the security lists let through what the label does. *)
Backed(n, l) ==
  /\ l.kind \in RelationKinds => l.peer \in Nsgs /\ role[l.peer] # "absent"
  /\ \A need \in SubnetNeeds(n, l) : Admits(BagToSet(lists), need[1], need[2], need[3], need[4])

(* DualLayer is inductive with one more fact: nothing is attached to a group
   that was not built yet, and no relation names one, so a group that is built
   later gives no old label a new meaning. *)
LabelsBacked ==
  outcome = "ok" =>
    \A n \in Nsgs : /\ role[n] = "absent" => labels[n] = {}
                    /\ \A l \in labels[n] : Backed(n, l)

(* The meaning of a label depends on the roles of its two ends only. *)
LEMMA SameNeeds ==
  ASSUME NEW n, NEW l, LabelOK(l), role'[n] = role[n],
         l.kind \in RelationKinds => role'[l.peer] = role[l.peer]
  PROVE  SubnetNeeds(n, l)' = SubnetNeeds(n, l)
<1>1. TierOf(n)' = TierOf(n) /\ HasRole(n)' = HasRole(n)
  BY DEF TierOf, HasRole
<1>2. CASE l.kind = "internet-in"
  BY <1>1, <1>2 DEF SubnetNeeds
<1>3. CASE l.kind \in {"svc-out", "inet-out"}
  BY <1>1, <1>3 DEF SubnetNeeds
<1>4. CASE l.kind \in RelationKinds
  <2>1. TierOf(l.peer)' = TierOf(l.peer) /\ HasRole(l.peer)' = HasRole(l.peer)
    BY <1>4 DEF TierOf, HasRole
  <2> QED BY <1>1, <1>4, <2>1 DEF SubnetNeeds, RelationKinds
<1> QED BY <1>2, <1>3, <1>4 DEF LabelOK, RelationKinds

(* What an old label rests on stays. *)
LEMMA StaysBacked ==
  ASSUME ProgramInv, NEW n \in Nsgs, NEW l \in labels[n], Backed(n, l),
         BagToSet(lists) \subseteq BagToSet(lists'), role'[n] = role[n],
         l.kind \in RelationKinds => role'[l.peer] = role[l.peer]
  PROVE  Backed(n, l)'
<1>1. SubnetNeeds(n, l)' = SubnetNeeds(n, l)
  BY SameNeeds DEF ProgramInv
<1>2. \A need \in SubnetNeeds(n, l) : Admits(BagToSet(lists'), need[1], need[2], need[3], need[4])
  BY AdmitsGrows DEF Backed
<1> QED BY <1>1, <1>2 DEF Backed

(* A spell that completes finds its rules on the lists. *)
LEMMA CompletedRules ==
  ASSUME ProgramInv, CatchErrors = FALSE, Accounted, NEW s, Completes(s) \/ Raises(s), outcome' = "ok"
  PROVE  outcome = "ok" /\ RulesMade(s) \subseteq BagToSet(lists')
<1>1. Completes(s)
  BY DEF Raises
<1> QED BY <1>1, CompletedLists

(* add_rule adds only labels that it was given for that group. *)
LEMMA AttachedFrom ==
  ASSUME NEW adds, Attach(adds), NEW n \in Nsgs, NEW l \in labels'[n]
  PROVE  l \in labels[n] \/ \E i \in DOMAIN adds : adds[i][1] = n /\ adds[i][2] = l
  BY DEF Attach

(* The labels of a new group, one by one. *)
LEMMA NewLabelsAre ==
  ASSUME NEW r \in RoleNames \cup {"none"}, NEW ports \in Seq(Ports), NEW i \in DOMAIN NewLabels(r, ports)
  PROVE  LET l == NewLabels(r, ports)[i]
         IN  /\ r # "none"
             /\ \/ r = "INTERNET_EDGE" /\ \E p \in Each(ports) : l = Label("internet-in", "internet", p)
                \/ RoleSpec[r].egress_services /\ l = Label("svc-out", "services", AnyPort)
                \/ RoleSpec[r].egress_internet /\ l = Label("inet-out", "internet", AnyPort)
<1> DEFINE P == IF RoleSpec[r].subnet_tier = "public"
                THEN [k \in DOMAIN ports |-> Label("internet-in", "internet", ports[k])] ELSE <<>>
           Q == IF RoleSpec[r].egress_services THEN <<Label("svc-out", "services", AnyPort)>> ELSE <<>>
           R == IF RoleSpec[r].egress_internet THEN <<Label("inet-out", "internet", AnyPort)>> ELSE <<>>
           G == {x \in {Label("internet-in", "internet", p) : p \in Each(ports)} : r = "INTERNET_EDGE"}
           H == {x \in {Label("svc-out", "services", AnyPort)} : RoleSpec[r].egress_services}
           I == {x \in {Label("inet-out", "internet", AnyPort)} : RoleSpec[r].egress_internet}
           all == G \cup H \cup I
<1>1. r # "none"
  BY DEF NewLabels
<1>2. NewLabels(r, ports) = (P \o Q) \o R
  BY <1>1 DEF NewLabels, AmbientLabels
<1>3. P \in Seq(all)
  <2>1. CASE r = "INTERNET_EDGE"
    <3>1. \A k \in DOMAIN ports : Label("internet-in", "internet", ports[k]) \in G
      BY <2>1 DEF Each
    <3> HIDE DEF G, H, I
    <3>2. [k \in DOMAIN ports |-> Label("internet-in", "internet", ports[k])] \in Seq(all)
      BY <3>1, SeqDef
    <3> QED BY <3>2
  <2>2. CASE r # "INTERNET_EDGE"
    BY <1>1, <2>2, RoleFacts
  <2> QED BY <2>1, <2>2
<1>4. Q \in Seq(all) /\ R \in Seq(all)
  <2>1. RoleSpec[r].egress_services => Label("svc-out", "services", AnyPort) \in H
    OBVIOUS
  <2>2. RoleSpec[r].egress_internet => Label("inet-out", "internet", AnyPort) \in I
    OBVIOUS
  <2>3. H \subseteq all /\ I \subseteq all
    OBVIOUS
  <2> DEFINE a == Label("svc-out", "services", AnyPort)
             b == Label("inet-out", "internet", AnyPort)
  <2> HIDE DEF G, H, I, all, a, b
  <2>4. Q \in Seq(all)
    BY <2>1, <2>3 DEF a
  <2>5. R \in Seq(all)
    BY <2>2, <2>3 DEF b
  <2> QED BY <2>4, <2>5
<1> HIDE DEF P, Q, R, all
<1>5. NewLabels(r, ports) \in Seq(all)
  BY <1>2, <1>3, <1>4
<1>6. NewLabels(r, ports)[i] \in all
  BY <1>5
<1> QED BY <1>1, <1>6 DEF all

(* The rules of a role let through what its labels do. *)
LEMMA NewLabelBacked ==
  ASSUME ProgramInv, NEW n \in Nsgs, NEW r \in Roles \cup {"none"}, NEW ports \in PortLists(r),
         NEW i \in DOMAIN NewLabels(r, ports), role'[n] = r,
         RulesMade(GroupSpell(r, ports)) \subseteq BagToSet(lists')
  PROVE  Backed(n, NewLabels(r, ports)[i])'
<1> DEFINE l == NewLabels(r, ports)[i]
           L == BagToSet(lists')
           t == RoleSpec[r].subnet_tier
           OK == Backed(n, l)'
<1> SUFFICES OK
  OBVIOUS
<1>1. ports \in Seq(Ports) /\ r \in RoleNames \cup {"none"}
  BY PortListsTyped, RolesAssumption
<1>2. /\ r # "none"
      /\ \/ r = "INTERNET_EDGE" /\ \E p \in Each(ports) : l = Label("internet-in", "internet", p)
         \/ RoleSpec[r].egress_services /\ l = Label("svc-out", "services", AnyPort)
         \/ RoleSpec[r].egress_internet /\ l = Label("inet-out", "internet", AnyPort)
  BY <1>1, NewLabelsAre
<1>3. NsgRules(r, ports) \subseteq L
  BY <1>1, <1>2, NsgBrings DEF Brings, GroupSpell
<1>4. TierOf(n)' = t
  BY DEF TierOf
<1> HIDE DEF l
<1>5. ASSUME NEW need, SubnetNeeds(n, l)' = {need}, l.kind \notin RelationKinds,
             Admits(L, need[1], need[2], need[3], need[4])
      PROVE  OK
  BY <1>5 DEF Backed
<1> HIDE DEF OK, L
<1>6. ASSUME r = "INTERNET_EDGE", NEW p \in Each(ports), l = Label("internet-in", "internet", p)
      PROVE  OK
  <2>1. l.kind = "internet-in" /\ l.port = p /\ l.kind \notin RelationKinds
    BY <1>6 DEF Label, RelationKinds
  <2>2. t = "public"
    BY <1>1, <1>2, <1>6, RoleFacts
  <2>3. SubnetNeeds(n, l)' = {<<"ingress", "public", p, "internet">>}
    BY <1>4, <2>1, <2>2 DEF SubnetNeeds
  <2>4. IngressTcp("public", p, "internet") \in L
    BY <1>3, <1>6 DEF NsgRules
  <2>5. Admits(L, "ingress", "public", p, "internet")
    BY <2>4, RuleAdmits
  <2> QED BY <1>5, <2>1, <2>3, <2>5
<1>7. ASSUME NEW peer \in {"services", "internet"}, NEW kind \in {"svc-out", "inet-out"},
             l = Label(kind, peer, AnyPort), EgressAll(t, peer) \in L
      PROVE  OK
  <2>1. l.kind = kind /\ l.peer = peer /\ l.kind \notin RelationKinds
    BY <1>7 DEF Label, RelationKinds
  <2>2. SubnetNeeds(n, l)' = {<<"egress", t, AnyPort, peer>>}
    BY <1>4, <1>7, <2>1 DEF SubnetNeeds
  <2>3. Admits(L, "egress", t, AnyPort, peer)
    <3>1. peer \in CoveredBy(peer)
      BY DEF CoveredBy
    <3>2. LET a == EgressAll(t, peer)
          IN  a.dir = "egress" /\ a.tier = t /\ a.proto = "all" /\ a.port = AnyPort /\ a.peer = peer
      BY RuleParts
    <3> QED BY <1>7, <3>1, <3>2 DEF Admits
  <2> QED BY <1>5, <2>1, <2>2, <2>3
<1>8. RoleSpec[r].egress_services => EgressAll(t, "services") \in L
  BY <1>3 DEF NsgRules
<1>9. RoleSpec[r].egress_internet => EgressAll(t, "internet") \in L
  BY <1>3 DEF NsgRules
<1> QED BY <1>2, <1>6, <1>7, <1>8, <1>9

(* A new group: its own labels are backed by its role's rules, and no other
   group has a label that names it. *)
LEMMA NewNsgBacked ==
  ASSUME ProgramInv, CatchErrors = FALSE, Accounted, LabelsBacked,
         NEW n \in Nsgs, NEW r \in Roles \cup {"none"}, NEW ports \in PortLists(r), NewNsg(n, r, ports)
  PROVE  LabelsBacked'
<1> DEFINE s == GroupSpell(r, ports)
           new == NewLabels(r, ports)
           adds == [i \in DOMAIN new |-> <<n, new[i]>>]
<1>1. Completes(s) \/ Raises(s)
  BY PortListsTyped, RolesAssumption, NewNsgStep
<1>2. BagToSet(lists) \subseteq BagToSet(lists')
  BY <1>1, ListsGrow
<1>3. Attach(adds) /\ role[n] = "absent" /\ (outcome' = "ok" => role' = [role EXCEPT ![n] = r])
  BY DEF NewNsg
<1> HIDE DEF s
<1> SUFFICES ASSUME outcome' = "ok", NEW x \in Nsgs
             PROVE  (role'[x] = "absent" => labels'[x] = {}) /\ \A l \in labels'[x] : Backed(x, l)'
  BY DEF LabelsBacked
<1>4. outcome = "ok" /\ RulesMade(s) \subseteq BagToSet(lists')
  BY <1>1, CompletedRules
<1>5. /\ role'[n] = r /\ r # "absent"
      /\ \A y \in Nsgs : y # n => role'[y] = role[y]
  <2>1. "absent" \notin RoleNames \cup {"none"}
    BY DEF RoleNames, RoleSpec
  <2> QED BY <1>3, <2>1, RolesAssumption DEF ProgramInv
<1>6. CASE x = n
  <2>1. labels[n] = {}
    BY <1>3, <1>4 DEF LabelsBacked
  <2>2. ASSUME NEW l \in labels'[n] PROVE Backed(n, l)'
    <3>1. PICK i \in DOMAIN adds : adds[i][1] = n /\ adds[i][2] = l
      BY <1>3, <2>1, AttachedFrom
    <3>2. i \in DOMAIN NewLabels(r, ports) /\ l = NewLabels(r, ports)[i]
      BY <3>1
    <3>3. Backed(n, NewLabels(r, ports)[i])'
      BY <1>4, <1>5, <3>2, NewLabelBacked DEF s
    <3> QED BY <3>2, <3>3
  <2> QED BY <1>5, <1>6, <2>2
<1>7. CASE x # n
  <2>1. labels'[x] \subseteq labels[x]
    <3>1. ASSUME NEW l \in labels'[x] PROVE l \in labels[x]
      <4>1. l \in labels[x] \/ \E i \in DOMAIN adds : adds[i][1] = x /\ adds[i][2] = l
        BY <1>3, AttachedFrom
      <4>2. \A i \in DOMAIN adds : adds[i][1] = n
        OBVIOUS
      <4> QED BY <1>7, <4>1, <4>2
    <3> QED BY <3>1
  <2>2. ASSUME NEW l \in labels[x] PROVE Backed(x, l)'
    <3>1. Backed(x, l)
      BY <1>4 DEF LabelsBacked
    <3>2. l.kind \in RelationKinds => role'[l.peer] = role[l.peer]
      BY <1>3, <1>5, <3>1 DEF Backed
    <3> QED BY <1>2, <1>5, <1>7, <3>1, <3>2, StaysBacked
  <2>3. role'[x] = "absent" => labels[x] = {}
    BY <1>4, <1>5, <1>7 DEF LabelsBacked
  <2> QED BY <2>1, <2>2, <2>3
<1> QED BY <1>6, <1>7

(* The rules of a channel let through what its two labels do. *)
LEMMA ChannelBacked ==
  ASSUME NEW n \in Nsgs, NEW m \in Nsgs, NEW p, role' = role, role[n] # "absent", role[m] # "absent",
         HasRole(n) /\ HasRole(m) /\ TierOf(n) # TierOf(m)
           => ChannelRules(TierOf(n), TierOf(m), p) \subseteq BagToSet(lists')
  PROVE  /\ \A kind \in {"out", "out-ssh"} : Backed(n, Label(kind, m, p))'
         /\ \A kind \in {"in", "in-ssh"} : Backed(m, Label(kind, n, p))'
<1> DEFINE L == BagToSet(lists')
           across == HasRole(n) /\ HasRole(m) /\ TierOf(n) # TierOf(m)
<1>1. /\ HasRole(n)' = HasRole(n) /\ HasRole(m)' = HasRole(m)
      /\ TierOf(n)' = TierOf(n) /\ TierOf(m)' = TierOf(m)
  BY DEF HasRole, TierOf
<1>2. across => /\ Admits(L, "egress", TierOf(n), p, TierOf(m))
                /\ Admits(L, "ingress", TierOf(m), p, TierOf(n))
  <2>1. across => /\ EgressTcp(TierOf(n), p, TierOf(m)) \in L
                  /\ IngressTcp(TierOf(m), p, TierOf(n)) \in L
    BY DEF ChannelRules
  <2> HIDE DEF L, across
  <2> QED BY <2>1, RuleAdmits
<1>3. ASSUME NEW kind \in {"out", "out-ssh"} PROVE Backed(n, Label(kind, m, p))'
  <2> DEFINE l == Label(kind, m, p)
  <2>1. l.kind = kind /\ l.peer = m /\ l.port = p
    BY DEF Label
  <2> HIDE DEF l
  <2>2. l.kind \in RelationKinds => l.peer \in Nsgs /\ role'[l.peer] # "absent"
    BY <2>1
  <2>3. SubnetNeeds(n, l)' = IF across THEN {<<"egress", TierOf(n), p, TierOf(m)>>} ELSE {}
    BY <1>1, <2>1 DEF SubnetNeeds
  <2> HIDE DEF across, L
  <2>4. \A need \in SubnetNeeds(n, l)' : Admits(L, need[1], need[2], need[3], need[4])
    BY <1>2, <2>3
  <2> QED BY <2>2, <2>4 DEF Backed, l, L
<1>4. ASSUME NEW kind \in {"in", "in-ssh"} PROVE Backed(m, Label(kind, n, p))'
  <2> DEFINE l == Label(kind, n, p)
  <2>1. l.kind = kind /\ l.peer = n /\ l.port = p
    BY DEF Label
  <2> HIDE DEF l
  <2>2. l.kind \in RelationKinds => l.peer \in Nsgs /\ role'[l.peer] # "absent"
    BY <2>1
  <2>3. SubnetNeeds(m, l)' = IF across THEN {<<"ingress", TierOf(m), p, TierOf(n)>>} ELSE {}
    BY <1>1, <2>1 DEF SubnetNeeds
  <2> HIDE DEF across, L
  <2>4. \A need \in SubnetNeeds(m, l)' : Admits(L, need[1], need[2], need[3], need[4])
    BY <1>2, <2>3
  <2> QED BY <2>2, <2>4 DEF Backed, l, L
<1> QED BY <1>3, <1>4

(* A relation: the labels on both ends are backed by the rules of its channels. *)
LEMMA ServesBacked ==
  ASSUME ProgramInv, CatchErrors = FALSE, Accounted, LabelsBacked,
         NEW n \in Nsgs, NEW m \in Nsgs, NEW port \in Ports, NEW withSsh \in BOOLEAN,
         Serves(n, m, port, withSsh)
  PROVE  LabelsBacked'
<1> DEFINE s == RelationSpell(n, m, port, withSsh)
           ssh == withSsh /\ AcceptsSsh(m)
           adds == ServesLabels(n, m, port, ssh)
<1>1. Completes(s) \/ Raises(s)
  BY ServesStep, ProgramTyped
<1>2. BagToSet(lists) \subseteq BagToSet(lists')
  BY <1>1, ListsGrow
<1>3. Attach(adds) /\ role' = role /\ role[n] # "absent" /\ role[m] # "absent"
  BY DEF Serves, Live
<1> HIDE DEF s
<1> SUFFICES ASSUME outcome' = "ok", NEW x \in Nsgs
             PROVE  (role'[x] = "absent" => labels'[x] = {}) /\ \A l \in labels'[x] : Backed(x, l)'
  BY DEF LabelsBacked
<1>4. outcome = "ok" /\ RulesMade(s) \subseteq BagToSet(lists')
  BY <1>1, CompletedRules
<1>5. HasRole(n) /\ HasRole(m) /\ TierOf(n) # TierOf(m)
        => \A p \in {port} \cup (IF ssh THEN {SSH} ELSE {}) :
             ChannelRules(TierOf(n), TierOf(m), p) \subseteq BagToSet(lists')
  <2> SUFFICES ASSUME HasRole(n), HasRole(m), TierOf(n) # TierOf(m)
               PROVE  ServesRules(TierOf(n), TierOf(m), port, ssh) \subseteq BagToSet(lists')
    BY DEF ServesRules
  <2>1. {TierOf(n), TierOf(m)} \subseteq Tiers
    BY RoleFacts DEF HasRole, TierOf
  <2>2. ssh \in BOOLEAN
    <3>1. RoleSpec[role[m]].accept_management_ssh \in BOOLEAN
      BY RoleFacts DEF HasRole
    <3>2. role[m] # "none"
      BY DEF HasRole, RoleNames, RoleSpec
    <3> QED BY <3>1, <3>2 DEF AcceptsSsh
  <2>3. s = Spell("serves", TierOf(n), TierOf(m), <<port>>, ssh)
    BY DEF s, RelationSpell
  <2> HIDE DEF ssh
  <2>4. RulesMade(s) = ServesRules(TierOf(n), TierOf(m), port, ssh)
    BY <2>1, <2>2, <2>3, ServesBrings DEF Brings
  <2> QED BY <1>4, <2>4
<1>6. \A p \in {port} \cup (IF ssh THEN {SSH} ELSE {}) :
        /\ \A kind \in {"out", "out-ssh"} : Backed(n, Label(kind, m, p))'
        /\ \A kind \in {"in", "in-ssh"} : Backed(m, Label(kind, n, p))'
  <2> HIDE DEF ssh
  <2> QED BY <1>3, <1>5, ChannelBacked
<1>7. ASSUME NEW i \in DOMAIN adds, NEW y, NEW l, adds[i][1] = y, adds[i][2] = l
      PROVE  Backed(y, l)' /\ y \in {n, m}
  <2> DEFINE a == <<n, Label("out", m, port)>>
             b == <<m, Label("in", n, port)>>
             c == <<n, Label("out-ssh", m, SSH)>>
             d == <<m, Label("in-ssh", n, SSH)>>
             good == {a, b} \cup (IF ssh THEN {c, d} ELSE {})
  <2>1. \A g \in good : Backed(g[1], g[2])' /\ g[1] \in {n, m}
    <3>1. Backed(n, Label("out", m, port))' /\ Backed(m, Label("in", n, port))'
      BY <1>6
    <3>2. ssh => Backed(n, Label("out-ssh", m, SSH))' /\ Backed(m, Label("in-ssh", n, SSH))'
      BY <1>6
    <3> HIDE DEF ssh
    <3> QED BY <3>1, <3>2
  <2>2. adds = <<a, b>> \o (IF ssh THEN <<c, d>> ELSE <<>>)
    BY DEF ServesLabels
  <2>3. {a, b} \subseteq good /\ (ssh => {c, d} \subseteq good)
    OBVIOUS
  <2> HIDE DEF ssh, a, b, c, d, good
  <2>4. <<a, b>> \in Seq(good) /\ (IF ssh THEN <<c, d>> ELSE <<>>) \in Seq(good)
    BY <2>3
  <2>5. adds \in Seq(good)
    BY <2>2, <2>4
  <2> HIDE DEF adds
  <2>6. PICK g \in good : g = adds[i]
    BY <2>5
  <2>7. g[1] = y /\ g[2] = l
    BY <1>7, <2>6
  <2> QED BY <2>1, <2>7
<1> HIDE DEF adds
<1>8. ASSUME NEW l \in labels'[x] PROVE Backed(x, l)'
  <2>1. CASE l \in labels[x]
    <3>1. Backed(x, l)
      BY <1>4, <2>1 DEF LabelsBacked
    <3> QED BY <1>2, <1>3, <2>1, <3>1, StaysBacked
  <2>2. ASSUME NEW i \in DOMAIN adds, adds[i][1] = x, adds[i][2] = l PROVE Backed(x, l)'
    BY <1>7, <2>2
  <2> QED BY <1>3, <2>1, <2>2, AttachedFrom
<1>9. role'[x] = "absent" => labels'[x] = {}
  <2>1. ASSUME role[x] = "absent", NEW l \in labels'[x] PROVE FALSE
    <3>1. labels[x] = {} /\ x # n /\ x # m
      BY <1>3, <1>4, <2>1 DEF LabelsBacked
    <3>2. PICK i \in DOMAIN adds : adds[i][1] = x /\ adds[i][2] = l
      BY <1>3, <3>1, AttachedFrom
    <3> QED BY <1>7, <3>1, <3>2
  <2> QED BY <1>3, <2>1
<1> QED BY <1>8, <1>9

(* Every step keeps the labels backed. *)
LEMMA LabelsStep ==
  ASSUME ProgramInv, CatchErrors = FALSE, Accounted, LabelsBacked, [Next]_vars
  PROVE  LabelsBacked'
<1>1. ASSUME UNCHANGED <<role, labels>>, BagToSet(lists) \subseteq BagToSet(lists'),
             outcome' = "ok" => outcome = "ok"
      PROVE  LabelsBacked'
  <2> SUFFICES ASSUME outcome' = "ok", NEW n \in Nsgs
               PROVE  (role'[n] = "absent" => labels'[n] = {}) /\ \A l \in labels'[n] : Backed(n, l)'
    BY DEF LabelsBacked
  <2>1. \A l \in labels[n] : Backed(n, l)'
    BY <1>1, StaysBacked DEF LabelsBacked
  <2> QED BY <1>1, <2>1 DEF LabelsBacked
<1>2. CASE Next
  <2>1. PICK s : Completes(s) \/ Raises(s)
    BY <1>2, StepIsSpell, ProgramTyped
  <2>2. BagToSet(lists) \subseteq BagToSet(lists') /\ (outcome' = "ok" => outcome = "ok")
    BY <2>1, ListsGrow, CompletedRules
  <2>3. KeepsNsgs => LabelsBacked'
    BY <1>1, <2>2 DEF KeepsNsgs
  <2> QED BY <1>2, <2>3, NextSplits, NewNsgBacked, ServesBacked
<1>3. CASE UNCHANGED vars
  BY <1>1, <1>3 DEF vars
<1> QED BY <1>2, <1>3

(* The two layers agree in every program that ends with its first exception:
   whatever a group's rules let through between roles, to the internet or to the
   OCI services, the security lists of the subnets let through as well. *)
THEOREM LayersAgree ==
  ASSUME CatchErrors = FALSE
  PROVE  Spec => []DualLayer
<1>1. Init => LabelsBacked
  BY DEF Init, LabelsBacked
<1>2. ProgramInv /\ Accounted /\ LabelsBacked /\ [Next]_vars => LabelsBacked'
  BY LabelsStep
<1>3. LabelsBacked => DualLayer
  BY DEF LabelsBacked, Backed, DualLayer
<1> QED BY <1>1, <1>2, <1>3, SoundInvariant, PTL DEF Spec

-----------------------------------------------------------------------------
(* Counting: the security lists are a function of the spells that completed *)

KeyedIn(calls, r) == {c \in calls : c.fp # NoFingerprint /\ c.rules[1] = r}

PlainPlaces(calls, r) ==
  {t \in UNION {{i} \X (DOMAIN calls[i].rules) : i \in DOMAIN calls} :
     calls[t[1]].fp = NoFingerprint /\ RuleAt(calls, t) = r}

(* A call with a fingerprint is determined by it, and has one rule. *)
LEMMA KeyedIsOne ==
  ASSUME NEW c \in WellMade, c.fp # NoFingerprint
  PROVE  c = Keyed(c.fp, RuleOf(c.fp)) /\ c.rules = <<RuleOf(c.fp)>>
<1>1. IsKeyed(c)
  BY DEF WellMade, IsPlain, Plain
<1> QED BY <1>1 DEF IsKeyed, Keyed

(* The rules that an open Vcn takes from keyed calls are those of the keyed calls
   that nobody made before: what a fingerprint stands for is taken once. *)
LEMMA KeyedPlaces ==
  ASSUME NEW calls \in Seq(WellMade), NEW M, M \subseteq WellMade, NEW r,
         applied = {c.fp : c \in {x \in M : x.fp # NoFingerprint}}
  PROVE  LET K == {t \in FreshSites(calls) :
                     calls[t[1]].fp # NoFingerprint /\ RuleAt(calls, t) = r}
         IN  /\ IsFiniteSet(KeyedIn(Each(calls) \ M, r))
             /\ Cardinality(K) = Cardinality(KeyedIn(Each(calls) \ M, r))
<1> DEFINE K == {t \in FreshSites(calls) : calls[t[1]].fp # NoFingerprint /\ RuleAt(calls, t) = r}
           N == KeyedIn(Each(calls) \ M, r)
           f == [t \in K |-> calls[t[1]]]
<1>1. calls \in Seq(Call)
  <2>1. WellMade \subseteq Call
    BY DEF WellMade
  <2> QED BY <2>1, SeqDef
<1>2. IsFiniteSet(K)
  BY <1>1, FreshSitesFinite, FS_Subset
<1>3. ASSUME NEW t \in K
      PROVE  /\ t[1] \in FreshCalls(calls) /\ t[1] \in DOMAIN calls
             /\ t = <<t[1], 1>> /\ calls[t[1]] \in N
  <2>1. PICK i \in FreshCalls(calls) : t \in {i} \X (DOMAIN calls[i].rules)
    BY DEF FreshSites
  <2>2. t[1] = i /\ t[2] \in DOMAIN calls[i].rules /\ t = <<t[1], t[2]>> /\ i \in DOMAIN calls
    BY <2>1 DEF FreshCalls
  <2> DEFINE c == calls[i]
  <2>3. c \in WellMade /\ c.fp # NoFingerprint /\ c \in Each(calls)
    BY <2>2 DEF Each
  <2>4. c.rules = <<RuleOf(c.fp)>>
    BY <2>3, KeyedIsOne
  <2>5. t[2] = 1 /\ c.rules[1] = r
    BY <2>2, <2>4 DEF RuleAt
  <2>6. c.fp \notin applied
    BY <2>2, <2>3 DEF FreshCalls, Fresh
  <2>7. c \notin M
    BY <2>3, <2>6
  <2> QED BY <2>2, <2>3, <2>5, <2>7 DEF KeyedIn
<1>4. f \in [K -> N]
  BY <1>3
<1>5. ASSUME NEW t \in K, NEW u \in K, f[t] = f[u] PROVE t = u
  <2>1. /\ t[1] \in FreshCalls(calls) /\ u[1] \in FreshCalls(calls)
        /\ t[1] \in DOMAIN calls /\ u[1] \in DOMAIN calls
        /\ t = <<t[1], 1>> /\ u = <<u[1], 1>>
    BY <1>3
  <2>2. calls[t[1]].fp = calls[u[1]].fp /\ calls[t[1]].fp # NoFingerprint
    BY <1>5
  <2>3. /\ \A j \in 1..(t[1] - 1) : calls[j].fp # calls[t[1]].fp
        /\ \A j \in 1..(u[1] - 1) : calls[j].fp # calls[u[1]].fp
    BY <2>1, <2>2 DEF FreshCalls, Fresh
  <2>4. t[1] \in Nat /\ u[1] \in Nat /\ t[1] >= 1 /\ u[1] >= 1
    BY <2>1
  <2>5. ~(t[1] < u[1]) /\ ~(u[1] < t[1])
    BY <2>2, <2>3, <2>4
  <2> QED BY <2>1, <2>4, <2>5
<1>6. ASSUME NEW c \in N PROVE \E t \in K : f[t] = c
  <2>1. c \in Each(calls) /\ c \notin M /\ c.fp # NoFingerprint /\ c.rules[1] = r
    BY DEF KeyedIn
  <2>2. PICK i \in DOMAIN calls : c = calls[i]
    BY <2>1 DEF Each
  <2>3. c \in WellMade /\ c = Keyed(c.fp, RuleOf(c.fp)) /\ c.rules = <<RuleOf(c.fp)>>
    BY <2>1, <2>2, KeyedIsOne
  <2>4. c.fp \notin applied
    <3>1. ASSUME NEW d \in M, d.fp = c.fp PROVE FALSE
      <4>1. d = Keyed(d.fp, RuleOf(d.fp))
        BY <2>1, <3>1, KeyedIsOne
      <4> QED BY <2>1, <2>3, <3>1, <4>1
    <3> QED BY <3>1
  <2>5. PICK j \in FreshCalls(calls) : calls[j].fp = c.fp
    BY <2>2, <2>4, FirstFresh
  <2>6. j \in DOMAIN calls
    BY DEF FreshCalls
  <2>7. calls[j] = Keyed(calls[j].fp, RuleOf(calls[j].fp))
    BY <2>1, <2>5, <2>6, KeyedIsOne
  <2>8. calls[j] = c
    BY <2>3, <2>5, <2>7
  <2>9. <<j, 1>> \in FreshSites(calls)
    <3>1. 1 \in DOMAIN calls[j].rules
      BY <2>3, <2>8
    <3> QED BY <3>1 DEF FreshSites
  <2>10. RuleAt(calls, <<j, 1>>) = r
    BY <2>1, <2>8 DEF RuleAt
  <2>11. <<j, 1>> \in K
    BY <2>1, <2>8, <2>9, <2>10
  <2> QED BY <2>8, <2>11
<1> HIDE DEF K, N, f
<1>7. IsFiniteSet(N) /\ Cardinality(N) = Cardinality(K)
  BY <1>2, <1>4, <1>5, <1>6, SameSize
<1> QED BY <1>7 DEF K, N

(* What an open Vcn takes of a rule: once for each keyed call nobody made before,
   and once for each place in a plain call. *)
LEMMA AddedCopies ==
  ASSUME NEW calls \in Seq(WellMade), NEW M, M \subseteq WellMade, NEW r,
         applied = {c.fp : c \in {x \in M : x.fp # NoFingerprint}}
  PROVE  /\ IsFiniteSet(KeyedIn(Each(calls) \ M, r))
         /\ IsFiniteSet(PlainPlaces(calls, r))
         /\ CopiesOf(r, Added(calls)) =
              Cardinality(KeyedIn(Each(calls) \ M, r)) + Cardinality(PlainPlaces(calls, r))
<1> DEFINE K == {t \in FreshSites(calls) : calls[t[1]].fp # NoFingerprint /\ RuleAt(calls, t) = r}
           P == PlainPlaces(calls, r)
           A == {t \in FreshSites(calls) : RuleAt(calls, t) = r}
<1>1. calls \in Seq(Call)
  <2>1. WellMade \subseteq Call
    BY DEF WellMade
  <2> QED BY <2>1, SeqDef
<1>2. P \subseteq FreshSites(calls)
  <2> SUFFICES ASSUME NEW t \in P PROVE t \in FreshSites(calls)
    OBVIOUS
  <2>1. PICK i \in DOMAIN calls : t \in {i} \X (DOMAIN calls[i].rules)
    BY DEF PlainPlaces
  <2>2. t[1] = i /\ calls[i].fp = NoFingerprint
    BY <2>1 DEF PlainPlaces
  <2>3. i \in FreshCalls(calls)
    BY <2>2 DEF FreshCalls, Fresh
  <2> QED BY <2>1, <2>3 DEF FreshSites
<1>3. A = K \cup P /\ K \cap P = {}
  <2>1. ASSUME NEW t \in FreshSites(calls), calls[t[1]].fp = NoFingerprint, RuleAt(calls, t) = r
        PROVE  t \in P
    <3>1. PICK i \in FreshCalls(calls) : t \in {i} \X (DOMAIN calls[i].rules)
      BY DEF FreshSites
    <3>2. i \in DOMAIN calls
      BY DEF FreshCalls
    <3> QED BY <2>1, <3>1, <3>2 DEF PlainPlaces
  <2>2. \A t \in P : calls[t[1]].fp = NoFingerprint /\ RuleAt(calls, t) = r
    BY DEF PlainPlaces
  <2> HIDE DEF P
  <2> QED BY <1>2, <2>1, <2>2
<1>4. IsFiniteSet(K) /\ IsFiniteSet(P)
  BY <1>1, <1>2, FreshSitesFinite, FS_Subset
<1>5. CopiesOf(r, Added(calls)) = Cardinality(A)
  BY <1>1, AddedIsBag
<1>6. /\ IsFiniteSet(KeyedIn(Each(calls) \ M, r))
      /\ Cardinality(K) = Cardinality(KeyedIn(Each(calls) \ M, r))
  BY KeyedPlaces
<1> HIDE DEF A, K, P
<1>7. Cardinality(A) = Cardinality(K) + Cardinality(P)
  BY <1>3, <1>4, DisjointSum
<1> QED BY <1>4, <1>5, <1>6, <1>7 DEF P

(* The places of plain rules, one set for each time a spell was built. *)
PlainSet(r) == UNION {(1..built[s]) \X {s} \X PlainSites(s, r) : s \in BagToSet(built)}

(* Building a spell once more adds its plain rules once more. *)
LEMMA PlainOneMore ==
  ASSUME IsABag(built), NEW s, NEW r, built' = built (+) SetToBag({s}),
         IsFiniteSet(PlainSet(r)), IsFiniteSet(PlainSites(s, r))
  PROVE  /\ IsFiniteSet(PlainSet(r)')
         /\ PlainCopies(r)' = PlainCopies(r) + Cardinality(PlainSites(s, r))
<1> DEFINE b == Copies(s, built) + 1
           S == PlainSites(s, r)
           N == {b} \X {s} \X S
           f == [t \in S |-> <<b, s, t>>]
           row(x, n) == (1..n) \X {x} \X PlainSites(x, r)
<1>1. Copies(s, built) \in Nat /\ b \in Nat
  BY CopiesType
<1>2. /\ BagToSet(built') = BagToSet(built) \cup {s}
      /\ \A x \in BagToSet(built) : x # s => built'[x] = built[x]
      /\ built'[s] = b
      /\ s \in BagToSet(built) => built[s] = b - 1
      /\ s \notin BagToSet(built) => b = 1
      /\ \A x \in BagToSet(built) : built[x] \in Nat
  BY DEF IsABag, BagToSet, SetToBag, (+), Copies
<1>3. row(s, b) = row(s, b - 1) \cup N
  <2>1. 1..b = 1..(b - 1) \cup {b}
    BY <1>1
  <2> HIDE DEF b
  <2> QED BY <2>1
<1>4. PlainSet(r)' = UNION {row(x, built'[x]) : x \in BagToSet(built')}
  BY DEF PlainSet, PlainSites
<1>5. PlainSet(r) = UNION {row(x, built[x]) : x \in BagToSet(built)}
  BY DEF PlainSet
<1>6. b - 1 = 0 => row(s, b - 1) = {}
  <2>1. 1..0 = {}
    OBVIOUS
  <2> HIDE DEF b
  <2> QED BY <2>1
<1>7. PlainSet(r)' = PlainSet(r) \cup N
  <2> DEFINE Old(x) == row(x, built[x])
             New(x) == row(x, built'[x])
             B == BagToSet(built)
  <2>1. \A x \in B : x # s => New(x) = Old(x)
    BY <1>2
  <2>2. New(s) = row(s, b - 1) \cup N
    BY <1>2, <1>3
  <2>3. s \in B => Old(s) = row(s, b - 1)
    BY <1>2
  <2>4. s \notin B => row(s, b - 1) = {}
    <3>1. s \notin B => b - 1 = 0
      BY <1>2
    <3> QED BY <1>6, <3>1
  <2>5. PlainSet(r)' = UNION {New(x) : x \in B \cup {s}} /\ PlainSet(r) = UNION {Old(x) : x \in B}
    BY <1>2, <1>4, <1>5
  <2> HIDE DEF row, N, b, B, New, Old
  <2>6. s \in B => New(s) = Old(s) \cup N
    BY <2>2, <2>3
  <2>7. s \notin B => New(s) = N
    BY <2>2, <2>4
  <2>8. \A t : (\E x \in B \cup {s} : t \in New(x)) <=> (\E x \in B : t \in Old(x)) \/ t \in N
    BY <2>1, <2>6, <2>7
  <2> QED BY <2>5, <2>8
<1>8. PlainSet(r) \cap N = {}
  <2> SUFFICES ASSUME NEW x \in BagToSet(built), NEW t \in row(x, built[x]), t \in N PROVE FALSE
    BY <1>5
  <2>1. t[1] \in 1..built[x] /\ t[2] = x
    OBVIOUS
  <2>2. t[1] = b /\ t[2] = s
    OBVIOUS
  <2>3. x = s /\ built[x] = b - 1
    BY <1>2, <2>1, <2>2
  <2> QED BY <1>1, <2>1, <2>2, <2>3
<1>9. IsFiniteSet(N) /\ Cardinality(N) = Cardinality(S)
  <2>1. f \in [S -> N]
    OBVIOUS
  <2>2. \A x, y \in S : f[x] = f[y] => x = y
    OBVIOUS
  <2>3. \A t \in N : \E x \in S : f[x] = t
    <3> SUFFICES ASSUME NEW t \in N PROVE \E x \in S : f[x] = t
      OBVIOUS
    <3>1. t = <<b, s, t[3]>> /\ t[3] \in S
      OBVIOUS
    <3>2. f[t[3]] = t
      BY <3>1
    <3> QED BY <3>1, <3>2
  <2> HIDE DEF f, N, S
  <2> QED BY <2>1, <2>2, <2>3, SameSize DEF S
<1> HIDE DEF N, S
<1>10. /\ IsFiniteSet(PlainSet(r) \cup N)
       /\ Cardinality(PlainSet(r) \cup N) = Cardinality(PlainSet(r)) + Cardinality(S)
  BY <1>8, <1>9, DisjointSum
<1>11. PlainCopies(r) = Cardinality(PlainSet(r))
  BY DEF PlainCopies, PlainSet
<1>12. PlainCopies(r)' = Cardinality(PlainSet(r)')
  BY DEF PlainCopies, PlainSet
<1> QED BY <1>7, <1>10, <1>11, <1>12 DEF S

(* What the lists hold once the program has built its spells: of each rule, the
   Vcn's own copies, one for each different keyed call and one for each plain
   call.  The fingerprints recorded are those of the calls made: without it a
   spell could find its rule skipped although no completed spell brought it. *)
Counted ==
  outcome = "ok" =>
    /\ applied = {c.fp : c \in {x \in CallsMade : x.fp # NoFingerprint}}
    /\ \A r :
         /\ IsFiniteSet(KeyedIn(CallsMade, r)) /\ IsFiniteSet(PlainSet(r))
         /\ CopiesOf(r, lists) =
              CopiesOf(r, BagOf(VcnSeedRules)) + KeyedCopies(r) + PlainCopies(r)
                + (IF finalized THEN CopiesOf(r, BagOf(VcnBaselineRules)) ELSE 0)

(* The calls made are well made, and one more spell makes its own. *)
LEMMA MadeWell ==
  ASSUME ProgramInv
  PROVE  /\ CallsMade \subseteq WellMade
         /\ \A s : built' = built (+) SetToBag({s}) =>
              CallsMade' = CallsMade \cup Each(CallsOf(s))
<1>1. CallsMade = UNION {Each(CallsOf(s)) : s \in BagToSet(built)}
  BY DEF CallsMade, Each
<1>2. CallsMade' = UNION {Each(CallsOf(s)) : s \in BagToSet(built')}
  BY DEF CallsMade, Each, CallsOf
<1>3. ASSUME NEW s \in BagToSet(built) PROVE Each(CallsOf(s)) \subseteq WellMade
  <2>1. CallsOf(s) \in Seq(WellMade)
    BY AskedCalls DEF ProgramInv, Permitted
  <2> QED BY <2>1 DEF Each
<1>4. ASSUME NEW s, built' = built (+) SetToBag({s})
      PROVE  CallsMade' = CallsMade \cup Each(CallsOf(s))
  <2>1. BagToSet(built') = BagToSet(built) \cup {s}
    BY <1>4, OneMore DEF ProgramInv
  <2> QED BY <1>1, <1>2, <2>1
<1>5. CallsMade \subseteq WellMade
  BY <1>1, <1>3
<1> QED BY <1>4, <1>5

(* A spell that completes changes the lists by what its calls bring, and by the
   baseline if it closes the Vcn. *)
LEMMA CopiesAfter ==
  ASSUME ProgramInv, NEW s, Completes(s), NEW r
  PROVE  /\ CopiesOf(r, lists) \in Nat /\ CopiesOf(r, BagOf(VcnBaselineRules)) \in Nat
         /\ CopiesOf(r, BagOf(VcnSeedRules)) \in Nat
         /\ finalized => finalized'
         /\ CopiesOf(r, lists') =
              CopiesOf(r, lists) + CopiesOf(r, Added(CallsOf(s)))
                + (IF finalized' /\ ~finalized THEN CopiesOf(r, BagOf(VcnBaselineRules)) ELSE 0)
<1> DEFINE A == Added(CallsOf(s))
           D == BagOf(VcnBaselineRules)
           seeds == BagOf(VcnSeedRules)
<1>1. \A B : CopiesOf(r, B) = Copies(r, B)
  BY DEF CopiesOf, Copies
<1>2. CallsOf(s) \in Seq(Call)
  BY AskedCalls DEF Completes
<1>3. IsABag(lists) /\ IsABag(A) /\ IsABag(D) /\ IsABag(seeds)
  BY <1>2, AddedIsBag, FixedBags DEF ProgramInv, VcnInv, VcnTypeOK
<1>4. Collect(CallsOf(s)) \/ Materialise(CallsOf(s)) \/ Reuse(CallsOf(s))
  BY DEF Completes
<1>5. CASE Collect(CallsOf(s))
  <2>1. lists' = lists (+) A /\ finalized' = finalized
    BY <1>5 DEF Collect
  <2> HIDE DEF A, D, seeds
  <2> QED BY <1>1, <1>3, <2>1, SumCopies, CopiesType DEF A, D, seeds
<1>6. CASE Materialise(CallsOf(s))
  <2>1. lists' = (lists (+) A) (+) D /\ finalized' /\ ~finalized
    BY <1>6 DEF Materialise
  <2> HIDE DEF A, D, seeds
  <2>2. IsABag(lists (+) A)
    BY <1>3, BagSum
  <2>3. Copies(r, lists') = (Copies(r, lists) + Copies(r, A)) + Copies(r, D)
    BY <1>3, <2>1, <2>2, SumCopies
  <2> QED BY <1>1, <1>3, <2>1, <2>3, CopiesType DEF A, D, seeds
<1>7. CASE Reuse(CallsOf(s))
  <2>1. lists' = lists /\ finalized' = finalized /\ FreshCalls(CallsOf(s)) = {}
    BY <1>7 DEF Reuse
  <2>2. BagToSet(A) = {}
    BY <2>1, AddedFrom
  <2>3. Copies(r, A) = 0
    BY <2>2 DEF Copies, BagToSet
  <2> HIDE DEF A, D, seeds
  <2> QED BY <1>1, <1>3, <2>1, <2>3, CopiesType DEF A, D, seeds
<1> QED BY <1>4, <1>5, <1>6, <1>7

(* It records the fingerprints of its calls, on a closed Vcn because they were
   there already. *)
LEMMA RecordedAfter ==
  ASSUME ProgramInv, NEW s, Completes(s)
  PROVE  applied' = applied \cup FingerprintsOf(CallsOf(s))
<1> DEFINE calls == CallsOf(s)
<1>1. CASE Collect(calls) \/ Materialise(calls)
  BY <1>1 DEF Collect, Materialise
<1>2. CASE Reuse(calls)
  <2>1. FreshCalls(calls) = {} /\ applied' = applied
    BY <1>2 DEF Reuse
  <2>2. calls \in Seq(Call)
    BY AskedCalls DEF Completes
  <2>3. \A i \in DOMAIN calls : calls[i].fp \in applied
    BY <2>1, <2>2, FirstFresh
  <2> QED BY <2>1, <2>3 DEF FingerprintsOf
<1> QED BY <1>1, <1>2 DEF Completes

(* A spell that completes keeps the count. *)
LEMMA CountedCompletes ==
  ASSUME ProgramInv, CatchErrors = FALSE, Counted, NEW s, Completes(s)
  PROVE  Counted'
<1> DEFINE calls == CallsOf(s)
           Keys(M) == {c.fp : c \in {x \in M : x.fp # NoFingerprint}}
           E == Each(calls)
<1>1. outcome = "ok" /\ calls \in Seq(WellMade)
  BY AskedCalls DEF Completes, CanCall
<1>2. built' = built (+) SetToBag({s}) /\ IsABag(built)
  BY DEF Completes, ProgramInv
<1>3. CallsMade \subseteq WellMade /\ CallsMade' = CallsMade \cup E
  BY <1>2, MadeWell
<1>4. applied = Keys(CallsMade)
  BY <1>1 DEF Counted
<1>5. applied' = Keys(CallsMade')
  <2>1. applied' = applied \cup FingerprintsOf(calls)
    BY RecordedAfter
  <2>2. FingerprintsOf(calls) = Keys(E)
    BY DEF FingerprintsOf, Each
  <2>3. \A M, N : Keys(M \cup N) = Keys(M) \cup Keys(N)
    OBVIOUS
  <2> HIDE DEF Keys, E, calls
  <2> QED BY <1>3, <1>4, <2>1, <2>2, <2>3
<1>6. ASSUME NEW r
      PROVE  /\ IsFiniteSet(KeyedIn(CallsMade', r)) /\ IsFiniteSet(PlainSet(r)')
             /\ CopiesOf(r, lists') =
                  CopiesOf(r, BagOf(VcnSeedRules)) + KeyedCopies(r)' + PlainCopies(r)'
                    + (IF finalized' THEN CopiesOf(r, BagOf(VcnBaselineRules)) ELSE 0)
  <2> DEFINE N == KeyedIn(E \ CallsMade, r)
             P == PlainSites(s, r)
             K == KeyedIn(CallsMade, r)
             base == CopiesOf(r, BagOf(VcnBaselineRules))
             seed == CopiesOf(r, BagOf(VcnSeedRules))
  <2>1. /\ IsFiniteSet(K) /\ IsFiniteSet(PlainSet(r))
        /\ CopiesOf(r, lists) = seed + KeyedCopies(r) + PlainCopies(r) + (IF finalized THEN base ELSE 0)
    BY <1>1 DEF Counted
  <2>2. P = PlainPlaces(calls, r)
    BY DEF PlainSites, PlainPlaces
  <2>3. /\ IsFiniteSet(N) /\ IsFiniteSet(P)
        /\ CopiesOf(r, Added(calls)) = Cardinality(N) + Cardinality(P)
    BY <1>1, <1>3, <1>4, <2>2, AddedCopies
  <2>4. /\ IsFiniteSet(PlainSet(r)')
        /\ PlainCopies(r)' = PlainCopies(r) + Cardinality(P)
    BY <1>2, <2>1, <2>3, PlainOneMore
  <2>5. KeyedIn(CallsMade', r) = K \cup N /\ K \cap N = {}
    BY <1>3 DEF KeyedIn
  <2>6. KeyedCopies(r) = Cardinality(K) /\ KeyedCopies(r)' = Cardinality(KeyedIn(CallsMade', r))
    BY DEF KeyedCopies, KeyedIn
  <2>7. PlainCopies(r) = Cardinality(PlainSet(r))
    BY DEF PlainCopies, PlainSet
  <2>8. /\ CopiesOf(r, lists) \in Nat /\ base \in Nat /\ seed \in Nat
        /\ finalized => finalized'
        /\ CopiesOf(r, lists') = CopiesOf(r, lists) + CopiesOf(r, Added(calls))
                                   + (IF finalized' /\ ~finalized THEN base ELSE 0)
    BY CopiesAfter
  <2> HIDE DEF N, P, K, base, seed, calls, E
  <2>9. IsFiniteSet(K \cup N) /\ Cardinality(K \cup N) = Cardinality(K) + Cardinality(N)
    BY <2>1, <2>3, <2>5, DisjointSum
  <2>10. /\ Cardinality(K) \in Nat /\ Cardinality(N) \in Nat /\ Cardinality(P) \in Nat
         /\ Cardinality(PlainSet(r)) \in Nat
    BY <2>1, <2>3, FS_CardinalityType
  <2>11. /\ KeyedCopies(r) \in Nat /\ PlainCopies(r) \in Nat
         /\ KeyedCopies(r)' = KeyedCopies(r) + Cardinality(N)
    BY <2>5, <2>6, <2>7, <2>9, <2>10
  <2>12. CopiesOf(r, lists') = seed + KeyedCopies(r)' + PlainCopies(r)' + (IF finalized' THEN base ELSE 0)
    BY <2>1, <2>3, <2>4, <2>8, <2>10, <2>11
  <2> QED BY <2>4, <2>5, <2>9, <2>12 DEF base, seed
<1> QED BY <1>5, <1>6 DEF Counted, KeyedIn

(* A program starts with the Vcn's own rules only. *)
LEMMA CountedInit == Init => Counted
<1> SUFFICES ASSUME Init PROVE Counted
  OBVIOUS
<1>1. /\ BagToSet(built) = {} /\ applied = {} /\ finalized = FALSE
      /\ lists = BagOf(VcnSeedRules)
  BY EmptyBagIsBag DEF Init, VcnInit
<1>2. CallsMade = {}
  BY <1>1 DEF CallsMade
<1>3. ASSUME NEW r
      PROVE  /\ KeyedIn(CallsMade, r) = {} /\ PlainSet(r) = {}
             /\ KeyedCopies(r) = 0 /\ PlainCopies(r) = 0
  <2>1. KeyedIn(CallsMade, r) = {} /\ PlainSet(r) = {}
    BY <1>1, <1>2 DEF KeyedIn, PlainSet
  <2>2. KeyedCopies(r) = Cardinality(KeyedIn(CallsMade, r)) /\ PlainCopies(r) = Cardinality(PlainSet(r))
    BY DEF KeyedCopies, KeyedIn, PlainCopies, PlainSet
  <2> QED BY <2>1, <2>2, FS_EmptySet
<1>4. \A r : CopiesOf(r, lists) = CopiesOf(r, BagOf(VcnSeedRules)) /\ CopiesOf(r, lists) \in Nat
  <2>1. IsABag(lists)
    BY <1>1, FixedBags
  <2> QED BY <1>1, <2>1, CopiesType DEF CopiesOf, Copies
<1>5. applied = {c.fp : c \in {x \in CallsMade : x.fp # NoFingerprint}}
  BY <1>1, <1>2
<1>6. ASSUME NEW r
      PROVE  /\ IsFiniteSet(KeyedIn(CallsMade, r)) /\ IsFiniteSet(PlainSet(r))
             /\ CopiesOf(r, lists) =
                  CopiesOf(r, BagOf(VcnSeedRules)) + KeyedCopies(r) + PlainCopies(r)
                    + (IF finalized THEN CopiesOf(r, BagOf(VcnBaselineRules)) ELSE 0)
  <2>1. IsFiniteSet(KeyedIn(CallsMade, r)) /\ IsFiniteSet(PlainSet(r))
    BY <1>3, FS_EmptySet
  <2> QED BY <1>1, <1>3, <1>4, <2>1
<1> QED BY <1>5, <1>6 DEF Counted

(* Every step keeps the count. *)
LEMMA CountedStep ==
  ASSUME ProgramInv, CatchErrors = FALSE, Counted, [Next]_vars
  PROVE  Counted'
<1>1. CASE Next
  <2>1. PICK s : Completes(s) \/ Raises(s)
    BY <1>1, StepIsSpell, ProgramTyped
  <2>2. CASE Completes(s)
    BY <2>2, CountedCompletes
  <2>3. CASE Raises(s)
    BY <2>3 DEF Raises, Counted
  <2> QED BY <2>1, <2>2, <2>3
<1>2. CASE UNCHANGED vars
  BY <1>2 DEF vars, Counted, CallsMade, KeyedIn, PlainSet, KeyedCopies, PlainCopies
<1> QED BY <1>1, <1>2

(* The order in which spells are built has no influence on the security lists:
   how often they hold a rule is a function of the bag of completed spells
   ("rule accumulation is order-independent within a stack",
   docs/concepts/design.md). *)
THEOREM ListsIgnoreOrder ==
  ASSUME CatchErrors = FALSE
  PROVE  Spec => []OrderIndependent
<1>1. Init => ProgramInv /\ Counted
  BY ProgramInit, CountedInit
<1>2. ProgramInv /\ Counted /\ [Next]_vars => ProgramInv' /\ Counted'
  BY ProgramStep, CountedStep
<1>3. Counted => OrderIndependent
  BY DEF Counted, OrderIndependent
<1> QED BY <1>1, <1>2, <1>3, PTL DEF Spec
=============================================================================
