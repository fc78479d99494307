------------------------- MODULE VcnTopologyProofs --------------------------
(***************************************************************************)
(* Theorems about the address plan and routing of VcnTopology, for every   *)
(* VCN CIDR and every set of on-premise networks.                          *)
(***************************************************************************)
EXTENDS VcnTopology, WellFoundedInduction, TLAPS

(* The tiers of a block that can be halved three times, in plain numbers. *)
LEMMA TierBlocks ==
  ASSUME NEW c \in Blocks, NEW k \in Nat \ {0}, c.size = 8 * k
  PROVE  /\ SplitTiers(c)["private"]    = [base |-> c.base,         size |-> 4 * k]
         /\ SplitTiers(c)["secure"]     = [base |-> c.base + 4 * k, size |-> 2 * k]
         /\ SplitTiers(c)["public"]     = [base |-> c.base + 6 * k, size |-> k]
         /\ SplitTiers(c)["management"] = [base |-> c.base + 7 * k, size |-> k]
<1>1. c.base \in Nat
  BY DEF Blocks
<1>2. (8 * k) \div 2 = 4 * k /\ (4 * k) \div 2 = 2 * k /\ (2 * k) \div 2 = k
  OBVIOUS
<1>3. UpperHalf(c) = [base |-> c.base + 4 * k, size |-> 4 * k]
  BY <1>2 DEF UpperHalf
<1>4. UpperHalf(UpperHalf(c)) = [base |-> c.base + 6 * k, size |-> 2 * k]
  BY <1>1, <1>2, <1>3 DEF UpperHalf
<1>5. LowerHalf(c) = [base |-> c.base, size |-> 4 * k]
  BY <1>2 DEF LowerHalf
<1>6. LowerHalf(UpperHalf(c)) = [base |-> c.base + 4 * k, size |-> 2 * k]
  BY <1>2, <1>3 DEF LowerHalf
<1>7. LowerHalf(UpperHalf(UpperHalf(c))) = [base |-> c.base + 6 * k, size |-> k]
  BY <1>2, <1>4 DEF LowerHalf
<1>8. UpperHalf(UpperHalf(UpperHalf(c))) = [base |-> c.base + 7 * k, size |-> k]
  BY <1>1, <1>2, <1>4 DEF UpperHalf
<1> QED BY <1>5, <1>6, <1>7, <1>8 DEF SplitTiers

(* A CIDR of eight addresses or more has a size that is a multiple of eight. *)
LEMMA EightfoldSize ==
  ASSUME NEW c \in Requests, c.size >= 8
  PROVE  c \in Blocks /\ \E k \in Nat \ {0} : c.size = 8 * k
<1>1. c \in Blocks /\ c.size % 8 = 0
  BY RequestsAssumption DEF PrefixSize, Blocks
<1>2. c.size \in Nat /\ c.size \div 8 \in Nat \ {0} /\ c.size = 8 * (c.size \div 8)
  BY <1>1 DEF Blocks
<1> QED BY <1>1, <1>2

(* A canonical block starts at a multiple of its size, and conversely. *)
LEMMA CanonicalMultiple ==
  ASSUME NEW b \in Nat, NEW s \in Nat \ {0}
  PROVE  b % s = 0 <=> \E q \in Nat : b = q * s
<1>1. b % s \in 0..(s - 1) /\ b = (b \div s) * s + (b % s) /\ b \div s \in Nat
  OBVIOUS
<1>2. ASSUME NEW q \in Nat, b = q * s PROVE b % s = 0
  BY <1>2
<1> QED BY <1>1, <1>2

(* The tiers exactly reconstruct the block. *)
LEMMA SplitPartitions ==
  ASSUME NEW c \in Requests, c.size >= 8
  PROVE  LET t == SplitTiers(c) IN
         /\ \A a \in Addresses(c) : \E n \in TierNames : a \in Addresses(t[n])
         /\ \A n, m \in TierNames : n # m => Addresses(t[n]) \cap Addresses(t[m]) = {}
         /\ \A n \in TierNames : Addresses(t[n]) \subseteq Addresses(c)
<1>1. PICK k \in Nat \ {0} : c.size = 8 * k
  BY EightfoldSize
<1>2. c \in Blocks /\ c.base \in Nat
  BY EightfoldSize DEF Blocks
<1> DEFINE b == c.base
           t == SplitTiers(c)
<1>3. /\ Addresses(c) = b .. (b + 8 * k - 1)
      /\ Addresses(t["private"])    = b .. (b + 4 * k - 1)
      /\ Addresses(t["secure"])     = (b + 4 * k) .. (b + 6 * k - 1)
      /\ Addresses(t["public"])     = (b + 6 * k) .. (b + 7 * k - 1)
      /\ Addresses(t["management"]) = (b + 7 * k) .. (b + 8 * k - 1)
  <2>1. Addresses(c) = b .. (b + 8 * k - 1)
    BY <1>1 DEF Addresses
  <2>2. /\ t["private"]    = [base |-> b,         size |-> 4 * k]
        /\ t["secure"]     = [base |-> b + 4 * k, size |-> 2 * k]
        /\ t["public"]     = [base |-> b + 6 * k, size |-> k]
        /\ t["management"] = [base |-> b + 7 * k, size |-> k]
    BY <1>1, <1>2, TierBlocks
  <2> HIDE DEF t
  <2>3. Addresses(t["private"]) = b .. (b + 4 * k - 1)
    BY <2>2 DEF Addresses
  <2>4. Addresses(t["secure"]) = (b + 4 * k) .. (b + 6 * k - 1)
    <3>1. b + 4 * k + 2 * k - 1 = b + 6 * k - 1
      BY <1>2
    <3> QED BY <2>2, <3>1 DEF Addresses
  <2>5. Addresses(t["public"]) = (b + 6 * k) .. (b + 7 * k - 1)
    <3>1. b + 6 * k + k - 1 = b + 7 * k - 1
      BY <1>2
    <3> QED BY <2>2, <3>1 DEF Addresses
  <2>6. Addresses(t["management"]) = (b + 7 * k) .. (b + 8 * k - 1)
    <3>1. b + 7 * k + k - 1 = b + 8 * k - 1
      BY <1>2
    <3> QED BY <2>2, <3>1 DEF Addresses
  <2> QED BY <2>1, <2>3, <2>4, <2>5, <2>6
<1>4. b \in Nat /\ 4 * k \in Nat /\ k > 0
  BY <1>2
<1> HIDE DEF t, b
<1>5. ASSUME NEW a \in Addresses(c)
      PROVE  \E n \in TierNames : a \in Addresses(t[n])
  <2>1. \/ a \in b .. (b + 4 * k - 1)
        \/ a \in (b + 4 * k) .. (b + 6 * k - 1)
        \/ a \in (b + 6 * k) .. (b + 7 * k - 1)
        \/ a \in (b + 7 * k) .. (b + 8 * k - 1)
    BY <1>3, <1>4, <1>5, SMTT(60)
  <2>2. \/ a \in Addresses(t["private"])
        \/ a \in Addresses(t["secure"])
        \/ a \in Addresses(t["public"])
        \/ a \in Addresses(t["management"])
    BY <1>3, <2>1
  <2> QED BY <2>2 DEF TierNames
<1>6. /\ Addresses(t["private"]) \cap Addresses(t["secure"]) = {}
      /\ Addresses(t["private"]) \cap Addresses(t["public"]) = {}
      /\ Addresses(t["private"]) \cap Addresses(t["management"]) = {}
      /\ Addresses(t["secure"]) \cap Addresses(t["public"]) = {}
      /\ Addresses(t["secure"]) \cap Addresses(t["management"]) = {}
      /\ Addresses(t["public"]) \cap Addresses(t["management"]) = {}
  <2> DEFINE p == b + 4 * k
             q == b + 6 * k
             r == b + 7 * k
             e == b + 8 * k
  <2>1. /\ Addresses(t["private"]) = b .. (p - 1) /\ Addresses(t["secure"])     = p .. (q - 1)
        /\ Addresses(t["public"])  = q .. (r - 1) /\ Addresses(t["management"]) = r .. (e - 1)
    <3>1. /\ p - 1 = b + 4 * k - 1 /\ q - 1 = b + 6 * k - 1
          /\ r - 1 = b + 7 * k - 1 /\ e - 1 = b + 8 * k - 1
      BY <1>4
    <3> QED BY <1>3, <3>1, Zenon DEF p, q, r, e
  <2>2. {b, p, q, r, e} \subseteq Int /\ b <= p /\ p <= q /\ q <= r /\ r <= e
    BY <1>4
  <2>3. ASSUME NEW i \in Int, NEW j \in Int, NEW m \in Int, NEW n \in Int, j <= m
        PROVE  (i .. (j - 1)) \cap (m .. n) = {}
    BY <2>3
  <2> HIDE DEF p, q, r, e
  <2>4. /\ (b .. (p - 1)) \cap (p .. (q - 1)) = {} /\ (b .. (p - 1)) \cap (q .. (r - 1)) = {}
        /\ (b .. (p - 1)) \cap (r .. (e - 1)) = {}
    BY <2>2, <2>3
  <2>5. /\ (p .. (q - 1)) \cap (q .. (r - 1)) = {} /\ (p .. (q - 1)) \cap (r .. (e - 1)) = {}
        /\ (q .. (r - 1)) \cap (r .. (e - 1)) = {}
    BY <2>2, <2>3
  <2> QED BY <2>1, <2>4, <2>5
<1>7. ASSUME NEW n \in TierNames, NEW m \in TierNames, n # m
      PROVE  Addresses(t[n]) \cap Addresses(t[m]) = {}
  BY <1>6, <1>7 DEF TierNames
<1>8. ASSUME NEW n \in TierNames
      PROVE  Addresses(t[n]) \subseteq Addresses(c)
  <2>1. Addresses(t["private"]) \subseteq Addresses(c)
    BY <1>3, <1>4
  <2>2. Addresses(t["secure"]) \subseteq Addresses(c)
    BY <1>3, <1>4
  <2>3. Addresses(t["public"]) \subseteq Addresses(c)
    BY <1>3, <1>4
  <2>4. Addresses(t["management"]) \subseteq Addresses(c)
    BY <1>3, <1>4
  <2> QED BY <1>8, <2>1, <2>2, <2>3, <2>4 DEF TierNames
<1> QED BY <1>5, <1>7, <1>8 DEF t, b

(* Halving a canonical block keeps its parts canonical. *)
LEMMA SplitCanonical ==
  ASSUME NEW c \in Requests, c.size >= 8, Canonical(c)
  PROVE  \A n \in TierNames : Canonical(SplitTiers(c)[n])
<1>1. PICK k \in Nat \ {0} : c.size = 8 * k
  BY EightfoldSize
<1>2. c \in Blocks /\ c.base \in Nat
  BY EightfoldSize DEF Blocks
<1>3. PICK q \in Nat : c.base = q * (8 * k)
  <2>1. 8 * k \in Nat \ {0} /\ c.base % (8 * k) = 0
    BY <1>1 DEF Canonical
  <2> QED BY <1>2, <2>1, CanonicalMultiple
<1>4. /\ c.base = (2 * q) * (4 * k)
      /\ c.base + 4 * k = (4 * q + 2) * (2 * k)
      /\ c.base + 6 * k = (8 * q + 6) * k
      /\ c.base + 7 * k = (8 * q + 7) * k
  BY <1>3
<1>5. /\ c.base % (4 * k) = 0
      /\ (c.base + 4 * k) % (2 * k) = 0
      /\ (c.base + 6 * k) % k = 0
      /\ (c.base + 7 * k) % k = 0
  <2>1. /\ 2 * q \in Nat /\ 4 * q + 2 \in Nat /\ 8 * q + 6 \in Nat /\ 8 * q + 7 \in Nat
        /\ 4 * k \in Nat \ {0} /\ 2 * k \in Nat \ {0}
        /\ c.base + 4 * k \in Nat /\ c.base + 6 * k \in Nat /\ c.base + 7 * k \in Nat
    BY <1>2
  <2> QED BY <1>2, <1>4, <2>1, CanonicalMultiple
<1> DEFINE t == SplitTiers(c)
<1>6. /\ t["private"]    = [base |-> c.base,         size |-> 4 * k]
      /\ t["secure"]     = [base |-> c.base + 4 * k, size |-> 2 * k]
      /\ t["public"]     = [base |-> c.base + 6 * k, size |-> k]
      /\ t["management"] = [base |-> c.base + 7 * k, size |-> k]
  BY <1>1, <1>2, TierBlocks
<1> HIDE DEF t
<1>7. /\ Canonical(t["private"]) /\ Canonical(t["secure"])
      /\ Canonical(t["public"]) /\ Canonical(t["management"])
  BY <1>5, <1>6 DEF Canonical
<1>8. \A n \in TierNames : Canonical(t[n])
  BY <1>7 DEF TierNames
<1> QED BY <1>8 DEF t

-----------------------------------------------------------------------------

(* What construction established, and nothing changes later. *)
PlanInv ==
  /\ cidr \in Requests
  /\ Built => cidr.size >= 8 /\ Canonical(cidr) /\ tiers = SplitTiers(cidr)

(* The tiers of a constructed Vcn are those of its CIDR. *)
LEMMA PlanInvariant == Spec => []PlanInv
<1>1. Init => PlanInv
  BY DEF Init, PlanInv, Built
<1>2. PlanInv /\ [Next]_vars => PlanInv'
  <2> SUFFICES ASSUME PlanInv, [Next]_vars
               PROVE  PlanInv'
    OBVIOUS
  <2>1. cidr.size \in Nat
    BY RequestsAssumption DEF PlanInv, Blocks
  <2>2. CASE Construct
    BY <2>1, <2>2 DEF Construct, PlanInv, Built, SplitOutcome
  <2>3. CASE CreateSubnets
    BY <2>3 DEF CreateSubnets, PlanInv, Built
  <2>4. CASE UNCHANGED vars
    BY <2>4 DEF vars, PlanInv, Built
  <2> QED BY <2>2, <2>3, <2>4 DEF Next
<1> QED BY <1>1, <1>2, PTL DEF Spec

(* No gaps and no overlaps, whatever the size and place of the VCN. *)
THEOREM TiersAlwaysPartition == Spec => []TiersPartition
<1>1. PlanInv => TiersPartition
  BY SplitPartitions DEF PlanInv, TiersPartition
<1> QED BY <1>1, PlanInvariant, PTL

(* Every tier is a CIDR without host bits. *)
THEOREM TiersAlwaysCanonical == Spec => []TiersCanonical
<1>1. PlanInv => TiersCanonical
  BY SplitCanonical DEF PlanInv, TiersCanonical
<1> QED BY <1>1, PlanInvariant, PTL
-----------------------------------------------------------------------------

(* Values of the variables in the states of the plan. *)
ValuesInv ==
  /\ PlanInv
  /\ phase \in {"new", "constructed", "finalized", "ValueError", "IndexError"}
  /\ drg \in BOOLEAN /\ onPrem \in OnPremise /\ ipv6 \in BOOLEAN
  /\ ~Built => tiers = NoTiers
  /\ Built => routes = RouteTables(drg, onPrem)
  /\ subnets = {} \/ /\ phase = "finalized"
                     /\ subnets = {[tier |-> t, block |-> tiers[t],
                                    slot |-> IF ipv6 THEN Ipv6Slot[t] ELSE -1] : t \in TierNames}

(* A constructed Vcn holds what its constructor computed, and nothing changes it. *)
LEMMA ValuesInvariant == Spec => []ValuesInv
<1>1. Init => ValuesInv
  BY DEF Init, ValuesInv, PlanInv, Built
<1>2. ValuesInv /\ PlanInv' /\ [Next]_vars => ValuesInv'
  <2> SUFFICES ASSUME ValuesInv, PlanInv', [Next]_vars
               PROVE  ValuesInv'
    OBVIOUS
  <2>1. CASE Construct
    <3>1. /\ UNCHANGED <<drg, onPrem, ipv6, subnets>>
          /\ phase = "new" /\ phase' \in {"constructed", "ValueError", "IndexError"}
      BY <2>1 DEF Construct, SplitOutcome
    <3>2. /\ ~Built' => tiers' = NoTiers
          /\ Built' => routes' = RouteTables(drg, onPrem)
      BY <2>1 DEF Construct, SplitOutcome, Built, ValuesInv
    <3> QED BY <3>1, <3>2 DEF ValuesInv
  <2>2. CASE CreateSubnets
    BY <2>2 DEF CreateSubnets, ValuesInv, Built
  <2>3. CASE UNCHANGED vars
    BY <2>3 DEF vars, ValuesInv, PlanInv, Built
  <2> QED BY <2>1, <2>2, <2>3 DEF Next
<1> QED BY <1>1, <1>2, PlanInvariant, PTL DEF Spec

(* The tiers of an accepted CIDR are blocks: none is empty. *)
LEMMA SplitBlocks ==
  ASSUME NEW c \in Requests, c.size >= 8
  PROVE  SplitTiers(c) \in [TierNames -> Blocks]
<1>1. PICK k \in Nat \ {0} : c.size = 8 * k
  BY EightfoldSize
<1>2. c \in Blocks /\ c.base \in Nat
  BY EightfoldSize DEF Blocks
<1> DEFINE t == SplitTiers(c)
<1>3. /\ t["private"]    = [base |-> c.base,         size |-> 4 * k]
      /\ t["secure"]     = [base |-> c.base + 4 * k, size |-> 2 * k]
      /\ t["public"]     = [base |-> c.base + 6 * k, size |-> k]
      /\ t["management"] = [base |-> c.base + 7 * k, size |-> k]
  BY <1>1, <1>2, TierBlocks
<1>4. t = [n \in TierNames |-> t[n]]
  BY DEF SplitTiers, TierNames
<1> HIDE DEF t
<1>5. /\ t["private"] \in Blocks /\ t["secure"] \in Blocks
      /\ t["public"] \in Blocks /\ t["management"] \in Blocks
  BY <1>2, <1>3 DEF Blocks
<1>6. \A n \in TierNames : t[n] \in Blocks
  BY <1>5 DEF TierNames
<1>7. t \in [TierNames -> Blocks]
  BY <1>4, <1>6
<1> QED BY <1>7 DEF t

(* The variables have their types; no tier is empty. *)
THEOREM TypeCorrect == Spec => []TypeOK
<1>1. ValuesInv => TypeOK
  <2> SUFFICES ASSUME ValuesInv
               PROVE  TypeOK
    OBVIOUS
  <2>1. NoTiers \in [TierNames -> Blocks]
    BY DEF NoTiers, Blocks
  <2>2. tiers \in [TierNames -> Blocks]
    BY <2>1, SplitBlocks DEF ValuesInv, PlanInv
  <2> QED BY <2>2 DEF ValuesInv, PlanInv, TypeOK
<1> QED BY <1>1, ValuesInvariant, PTL

(* No two subnets share addresses, IPv4 or IPv6, for any CIDR. *)
THEOREM SubnetsAlwaysDisjoint == Spec => []SubnetsDisjoint
<1>1. ValuesInv => SubnetsDisjoint
  <2> SUFFICES ASSUME ValuesInv, NEW s \in subnets, NEW u \in subnets, s # u
               PROVE  /\ Addresses(s.block) \cap Addresses(u.block) = {}
                      /\ ipv6 => s.slot # u.slot
    BY DEF SubnetsDisjoint
  <2>1. Built /\ tiers = SplitTiers(cidr) /\ cidr \in Requests /\ cidr.size >= 8
    BY DEF ValuesInv, PlanInv, Built
  <2>2. PICK t \in TierNames :
          s = [tier |-> t, block |-> tiers[t], slot |-> IF ipv6 THEN Ipv6Slot[t] ELSE -1]
    BY DEF ValuesInv
  <2>3. PICK v \in TierNames :
          u = [tier |-> v, block |-> tiers[v], slot |-> IF ipv6 THEN Ipv6Slot[v] ELSE -1]
    BY DEF ValuesInv
  <2>4. t # v
    BY <2>2, <2>3
  <2>5. Ipv6Slot[t] # Ipv6Slot[v]
    BY <2>4 DEF Ipv6Slot, TierNames
  <2>6. Addresses(tiers[t]) \cap Addresses(tiers[v]) = {}
    BY <2>1, <2>4, SplitPartitions
  <2>7. Addresses(s.block) \cap Addresses(u.block) = {}
    BY <2>2, <2>3, <2>6
  <2>8. ipv6 => s.slot # u.slot
    BY <2>2, <2>3, <2>5
  <2> QED BY <2>7, <2>8
<1> QED BY <1>1, ValuesInvariant, PTL
-----------------------------------------------------------------------------

(* Among routes of a positive size some are the most specific. *)
LEMMA MostSpecific ==
  ASSUME NEW usable, usable # {}, \A r \in usable : r[1].size \in Nat
  PROVE  \E r \in usable : \A s \in usable : r[1].size <= s[1].size
<1> DEFINE sizes == {r[1].size : r \in usable}
<1>1. sizes \subseteq Nat /\ sizes # {}
  OBVIOUS
<1>2. PICK m \in sizes : \A n \in sizes : <<n, m>> \notin OpToRel(<, Nat)
  BY <1>1, WFMin, NatLessThanWellFounded, Zenon
<1>3. \A n \in sizes : ~(n < m)
  <2> SUFFICES ASSUME NEW n \in sizes, n < m PROVE FALSE
    OBVIOUS
  <2>1. n \in Nat /\ m \in Nat
    BY <1>1
  <2> QED BY <1>2, <2>1, Zenon DEF OpToRel
<1>4. \A n \in sizes : m <= n
  <2> SUFFICES ASSUME NEW n \in sizes PROVE m <= n
    OBVIOUS
  <2>1. n \in Nat /\ m \in Nat /\ ~(n < m)
    BY <1>1, <1>3
  <2> QED BY <2>1
<1> QED BY <1>4

(* The routes that a tier has to an address outside the VCN. *)
UsableRoutes(t, a) == {r \in routes[t] : a \in Addresses(r[1])}

(* Routes to one gateway lead there, if it has the only most specific ones. *)
LEMMA HopsToGateway ==
  ASSUME NEW t \in TierNames, NEW a, a \notin Addresses(cidr), NEW g,
         \A r \in routes[t] : r[1].size \in Nat,
         \E r \in UsableRoutes(t, a) : r[2] = g,
         \A r \in UsableRoutes(t, a) : r[2] # g =>
           \E s \in UsableRoutes(t, a) : s[1].size < r[1].size
  PROVE  NextHops(t, a) = {g}
<1> DEFINE usable == UsableRoutes(t, a)
           best   == {x \in usable : \A y \in usable : x[1].size <= y[1].size}
<1>1. \A r \in usable : r[1].size \in Nat
  BY DEF UsableRoutes
<1>2. \E r \in best : TRUE
  <2>1. usable # {}
    OBVIOUS
  <2> HIDE DEF usable
  <2> QED BY <1>1, <2>1, MostSpecific
<1>3. \A r \in best : r[2] = g
  <2> SUFFICES ASSUME NEW r \in best, r[2] # g PROVE FALSE
    OBVIOUS
  <2>1. PICK s \in usable : s[1].size < r[1].size
    OBVIOUS
  <2>2. r[1].size <= s[1].size /\ r[1].size \in Nat /\ s[1].size \in Nat
    BY <1>1
  <2> QED BY <2>1, <2>2
<1>4. {r[2] : r \in best} = {g}
  BY <1>2, <1>3
<1>5. NextHops(t, a) = {r[2] : r \in best}
  BY DEF NextHops, UsableRoutes
<1> QED BY <1>4, <1>5

(* No route, no way out. *)
LEMMA HopsNowhere ==
  ASSUME NEW t, NEW a, a \notin Addresses(cidr), UsableRoutes(t, a) = {}
  PROVE  NextHops(t, a) = {}
  BY DEF NextHops, UsableRoutes

(* The routes of a tier are the default ones and, for three of them, one to
   each on-premise network. *)
DrgRoutes == IF drg THEN {Route(onPrem[i], "drg") : i \in DOMAIN onPrem} ELSE {}

(* The route tables of a constructed Vcn, tier by tier. *)
LEMMA RoutesOf ==
  ASSUME ValuesInv, Built
  PROVE  /\ routes["public"]     = {Route(Space, "internet")}
         /\ routes["private"]    = {Route(Space, "nat"), Route(ServiceCidr, "service")} \cup DrgRoutes
         /\ routes["secure"]     = {Route(ServiceCidr, "service")} \cup DrgRoutes
         /\ routes["management"] = {Route(ServiceCidr, "service")} \cup DrgRoutes
<1>1. routes = RouteTables(drg, onPrem)
  BY DEF ValuesInv
<1>2. \A t \in TierNames : routes[t] =
        DefaultRoutes[t] \cup (IF drg /\ t \in DrgTiers THEN {Route(onPrem[i], "drg") : i \in DOMAIN onPrem} ELSE {})
  BY <1>1 DEF RouteTables
<1>3. DrgTiers = {"private", "secure", "management"}
  BY DEF DrgTiers
<1> QED BY <1>2, <1>3 DEF TierNames, DefaultRoutes, DrgRoutes

(* Routes have sizes; those to on-premise networks are not the default route
   and do not lead to the services. *)
LEMMA RouteSizes ==
  ASSUME ValuesInv
  PROVE  /\ Space.size \in Nat /\ ServiceCidr.size \in Nat /\ ServiceCidr.size < Space.size
         /\ \A r \in DrgRoutes : /\ r[2] = "drg" /\ r[1].size \in Nat /\ r[1].size < Space.size
                                 /\ Addresses(r[1]) \cap Addresses(ServiceCidr) = {}
<1>1. Space.size \in Nat /\ ServiceCidr.size \in Nat /\ ServiceCidr.size < Space.size
  BY SpaceAssumption, ServiceCidrAssumption, RoutesAssumption DEF Blocks
<1>2. onPrem \in OnPremise /\ onPrem \in Seq(Blocks)
  BY OnPremiseAssumption DEF ValuesInv
<1>3. ASSUME NEW i \in DOMAIN onPrem
      PROVE  /\ onPrem[i].size \in Nat /\ onPrem[i].size < Space.size
             /\ Addresses(onPrem[i]) \cap Addresses(ServiceCidr) = {}
  <2>1. onPrem[i] \in Blocks
    BY <1>2
  <2> QED BY <1>2, <2>1, RoutesAssumption DEF Blocks
<1>4. ASSUME NEW r \in DrgRoutes
      PROVE  \E i \in DOMAIN onPrem : r = Route(onPrem[i], "drg")
  BY DEF DrgRoutes
<1>5. \A r \in DrgRoutes : /\ r[2] = "drg" /\ r[1].size \in Nat /\ r[1].size < Space.size
                           /\ Addresses(r[1]) \cap Addresses(ServiceCidr) = {}
  <2> SUFFICES ASSUME NEW r \in DrgRoutes
               PROVE  /\ r[2] = "drg" /\ r[1].size \in Nat /\ r[1].size < Space.size
                      /\ Addresses(r[1]) \cap Addresses(ServiceCidr) = {}
    OBVIOUS
  <2>1. PICK i \in DOMAIN onPrem : r = Route(onPrem[i], "drg")
    BY <1>4
  <2>2. r[1] = onPrem[i] /\ r[2] = "drg"
    BY <2>1 DEF Route
  <2> QED BY <1>3, <2>2
<1> QED BY <1>1, <1>5

(* Every tier routes as documented, whatever the on-premise networks. *)
THEOREM EgressAlwaysByTier == Spec => []EgressByTier
<1>1. ValuesInv => EgressByTier
  <2> SUFFICES ASSUME ValuesInv, Built, NEW a \in Addresses(Space) \ Addresses(cidr)
               PROVE  LET premises == drg /\ \E i \in DOMAIN onPrem : a \in Addresses(onPrem[i])
                          outside  == IF premises THEN {"drg"}
                                      ELSE IF a \in Addresses(ServiceCidr) THEN {"service"} ELSE {}
                      IN /\ NextHops("public", a) = {"internet"}
                         /\ NextHops("private", a) = IF outside = {} THEN {"nat"} ELSE outside
                         /\ NextHops("secure", a) = outside
                         /\ NextHops("management", a) = outside
    BY DEF EgressByTier
  <2> DEFINE premises == drg /\ \E i \in DOMAIN onPrem : a \in Addresses(onPrem[i])
  <2> DEFINE reached == {r \in DrgRoutes : a \in Addresses(r[1])}
  <2>1. premises <=> reached # {}
    <3>1. \A r \in DrgRoutes : drg /\ \E i \in DOMAIN onPrem : r[1] = onPrem[i]
      BY DEF DrgRoutes, Route
    <3>2. drg => \A i \in DOMAIN onPrem : \E r \in DrgRoutes : r[1] = onPrem[i]
      <4>1. \A i \in DOMAIN onPrem : Route(onPrem[i], "drg")[1] = onPrem[i]
        BY DEF Route
      <4> QED BY <4>1 DEF DrgRoutes
    <3> QED BY <3>1, <3>2
  <2>2. reached # {} => a \notin Addresses(ServiceCidr)
    BY RouteSizes
  <2>3. /\ \A r \in reached : r[2] = "drg" /\ r[1].size < Space.size
        /\ \A t \in TierNames : \A r \in routes[t] : r[1].size \in Nat
    <3>1. \A t \in TierNames : routes[t] \subseteq
            {Route(Space, "internet"), Route(Space, "nat"), Route(ServiceCidr, "service")} \cup DrgRoutes
      BY RoutesOf DEF TierNames
    <3> QED BY <3>1, RouteSizes DEF Route
  <2>4. /\ UsableRoutes("public", a)     = {Route(Space, "internet")}
        /\ UsableRoutes("secure", a)     =
             (IF a \in Addresses(ServiceCidr) THEN {Route(ServiceCidr, "service")} ELSE {}) \cup reached
        /\ UsableRoutes("management", a) =
             (IF a \in Addresses(ServiceCidr) THEN {Route(ServiceCidr, "service")} ELSE {}) \cup reached
        /\ UsableRoutes("private", a)    = {Route(Space, "nat")} \cup
             (IF a \in Addresses(ServiceCidr) THEN {Route(ServiceCidr, "service")} ELSE {}) \cup reached
    BY RoutesOf DEF UsableRoutes, Route
  <2>5. /\ ServiceCidr.size < Space.size
        /\ \A dest, gateway : Route(dest, gateway)[1] = dest /\ Route(dest, gateway)[2] = gateway
    BY RouteSizes DEF Route
  <2>6. TierNames = {"public", "private", "secure", "management"} /\ a \notin Addresses(cidr)
    BY DEF TierNames
  <2> HIDE DEF premises, reached
  <2>7. NextHops("public", a) = {"internet"}
    <3>1. \A r \in UsableRoutes("public", a) : r[2] = "internet"
      BY <2>4, <2>5
    <3>2. \E r \in UsableRoutes("public", a) : r[2] = "internet"
      BY <2>4, <3>1
    <3> QED BY <2>3, <2>6, <3>1, <3>2, HopsToGateway
  <2>8. ASSUME NEW t \in {"secure", "management"}
        PROVE  NextHops(t, a) = IF premises THEN {"drg"}
                                ELSE IF a \in Addresses(ServiceCidr) THEN {"service"} ELSE {}
    <3>1. UsableRoutes(t, a) =
            (IF a \in Addresses(ServiceCidr) THEN {Route(ServiceCidr, "service")} ELSE {}) \cup reached
      BY <2>4
    <3>2. t \in TierNames
      BY <2>6
    <3>3. CASE premises
      <4>1. UsableRoutes(t, a) = reached /\ reached # {}
        BY <2>1, <2>2, <3>1, <3>3
      <4>2. /\ \E r \in UsableRoutes(t, a) : r[2] = "drg"
            /\ \A r \in UsableRoutes(t, a) : r[2] = "drg"
        BY <2>3, <4>1
      <4> QED BY <2>3, <2>6, <3>2, <3>3, <4>2, HopsToGateway
    <3>4. CASE ~premises /\ a \in Addresses(ServiceCidr)
      <4>1. UsableRoutes(t, a) = {Route(ServiceCidr, "service")}
        BY <2>1, <3>1, <3>4
      <4>2. \A r \in UsableRoutes(t, a) : r[2] = "service"
        BY <2>5, <4>1
      <4>3. \E r \in UsableRoutes(t, a) : r[2] = "service"
        BY <4>1, <4>2
      <4>4. NextHops(t, a) = {"service"}
        BY <2>3, <2>6, <3>2, <4>2, <4>3, HopsToGateway
      <4> QED BY <3>4, <4>4
    <3>5. CASE ~premises /\ a \notin Addresses(ServiceCidr)
      <4>1. UsableRoutes(t, a) = {}
        BY <2>1, <3>1, <3>5
      <4>2. NextHops(t, a) = {}
        BY <2>6, <4>1, HopsNowhere
      <4> QED BY <3>5, <4>2
    <3> QED BY <3>3, <3>4, <3>5
  <2>9. NextHops("private", a) = IF premises THEN {"drg"}
                                 ELSE IF a \in Addresses(ServiceCidr) THEN {"service"} ELSE {"nat"}
    <3>1. CASE premises
      <4>1. UsableRoutes("private", a) = {Route(Space, "nat")} \cup reached /\ reached # {}
        BY <2>1, <2>2, <2>4, <3>1
      <4>2. \A r \in UsableRoutes("private", a) : r[2] # "drg" =>
              \E s \in UsableRoutes("private", a) : s[1].size < r[1].size
        <5>1. PICK s \in reached : s[1].size < Space.size
          BY <2>3, <4>1
        <5>2. \A r \in UsableRoutes("private", a) : r[2] # "drg" => r = Route(Space, "nat")
          BY <2>3, <4>1
        <5>3. Route(Space, "nat")[1] = Space /\ s \in UsableRoutes("private", a)
          BY <2>5, <4>1
        <5> QED BY <5>1, <5>2, <5>3
      <4>3. \E r \in UsableRoutes("private", a) : r[2] = "drg"
        BY <2>3, <4>1
      <4> QED BY <2>3, <2>6, <3>1, <4>2, <4>3, HopsToGateway
    <3>2. CASE ~premises /\ a \in Addresses(ServiceCidr)
      <4>1. UsableRoutes("private", a) = {Route(Space, "nat"), Route(ServiceCidr, "service")}
        BY <2>1, <2>4, <3>2
      <4>2. \A r \in UsableRoutes("private", a) : r[2] # "service" =>
              \E s \in UsableRoutes("private", a) : s[1].size < r[1].size
        <5>1. Route(Space, "nat")[1].size > Route(ServiceCidr, "service")[1].size
          BY <2>5, RouteSizes
        <5>2. Route(ServiceCidr, "service")[2] = "service"
          BY <2>5
        <5> QED BY <4>1, <5>1, <5>2
      <4>3. \E r \in UsableRoutes("private", a) : r[2] = "service"
        <5>1. Route(ServiceCidr, "service")[2] = "service"
          BY <2>5
        <5> QED BY <4>1, <5>1
      <4> QED BY <2>3, <2>6, <3>2, <4>2, <4>3, HopsToGateway
    <3>3. CASE ~premises /\ a \notin Addresses(ServiceCidr)
      <4>1. UsableRoutes("private", a) = {Route(Space, "nat")}
        BY <2>1, <2>4, <3>3
      <4>2. \A r \in UsableRoutes("private", a) : r[2] = "nat"
        BY <2>5, <4>1
      <4>3. \E r \in UsableRoutes("private", a) : r[2] = "nat"
        BY <4>1, <4>2
      <4> QED BY <2>3, <2>6, <3>3, <4>2, <4>3, HopsToGateway
    <3> QED BY <3>1, <3>2, <3>3
  <2> QED BY <2>7, <2>8, <2>9 DEF premises
<1> QED BY <1>1, ValuesInvariant, PTL
=============================================================================
