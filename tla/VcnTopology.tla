---------------------------- MODULE VcnTopology -----------------------------
(***************************************************************************)
(* Address plan and routing of a Vcn (providers/oci/network.py): the four  *)
(* tiers cut out of the VCN's CIDR, the route table of each tier, and the  *)
(* subnets finalize_network creates from them.                             *)
(*                                                                         *)
(* An address is a number and a CIDR is a block of addresses: its first    *)
(* address and its size.  ipaddress.ip_network and the routing decision of *)
(* OCI (longest prefix, local addresses first) are external.               *)
(***************************************************************************)
EXTENDS Integers, FiniteSets, Sequences

CONSTANTS
  Requests,    \* blocks a caller may pass as cidr_block, canonical or not
  OnPremise,   \* sequences of on_premise_cidrs
  ServiceCidr, \* block of the OCI services
  Space        \* the block 0.0.0.0/0

Blocks == [base : Nat, size : Nat \ {0}]

(* The size of a CIDR is a power of two; only this much of it matters. *)
PrefixSize(size) == size \in {1, 2, 4} \/ size % 8 = 0

ASSUME RequestsAssumption ==
  Requests \subseteq Blocks /\ \A c \in Requests : PrefixSize(c.size)
ASSUME OnPremiseAssumption   == OnPremise \subseteq Seq(Blocks)
ASSUME ServiceCidrAssumption == ServiceCidr \in Blocks
ASSUME SpaceAssumption       == Space \in Blocks

VARIABLES
  phase,   \* "new", "constructed", "finalized", or the exception __init__ raised
  cidr,    \* cidr_block
  drg,     \* drg
  onPrem,  \* on_premise_cidrs
  ipv6,    \* ipv6_enabled
  tiers,   \* _subnet_cidrs
  routes,  \* rules of the four route tables: <<destination, gateway>>
  subnets  \* the subnets: their CIDR, and their slot of the IPv6 /56

vars == <<phase, cidr, drg, onPrem, ipv6, tiers, routes, subnets>>

TierNames == {"public", "private", "secure", "management"}

Addresses(b) == b.base .. (b.base + b.size - 1)

(* The constructor checks neither: OCI refuses a second rule for 0.0.0.0/0, and
   its services do not have on-premise addresses. *)
ASSUME RoutesAssumption ==
  /\ ServiceCidr.size < Space.size
  /\ \A cidrs \in OnPremise : \A i \in DOMAIN cidrs :
       cidrs[i].size < Space.size /\ Addresses(cidrs[i]) \cap Addresses(ServiceCidr) = {}

(***************************************************************************)
(* Address plan                                                            *)
(***************************************************************************)

Canonical(b) == b.base % b.size = 0

(* list(net.subnets(prefixlen_diff=1)) of a block of two addresses or more. *)
LowerHalf(b) == [base |-> b.base, size |-> b.size \div 2]
UpperHalf(b) == [base |-> b.base + b.size \div 2, size |-> b.size \div 2]

(* Fault: the secure tier is cut out of the lower half. *)
SplitTiersOverlapping(c) ==
  LET quarters == UpperHalf(c)
      eighths  == UpperHalf(quarters)
  IN  [private    |-> LowerHalf(c),
       secure     |-> UpperHalf(LowerHalf(c)),
       public     |-> LowerHalf(eighths),
       management |-> UpperHalf(eighths)]

(* Fault: public and management take a quarter each. *)
SplitTiersUneven(c) ==
  LET half == UpperHalf(c)
  IN  [private    |-> LowerHalf(c),
       secure     |-> LowerHalf(half),
       public     |-> UpperHalf(half),
       management |-> [base |-> c.base + c.size - 1, size |-> 2]]

(* Vcn._split_tiers: each tier takes half of what is left. *)
SplitTiers(c) ==
  LET quarters == UpperHalf(c)
      eighths  == UpperHalf(quarters)
  IN  [private    |-> LowerHalf(c),
       secure     |-> LowerHalf(quarters),
       public     |-> LowerHalf(eighths),
       management |-> UpperHalf(eighths)]

(* Fault: the size of the CIDR is not looked at. *)
SplitOutcomeUnchecked(c) == IF ~Canonical(c) THEN "ValueError" ELSE "constructed"

(* A CIDR with host bits is refused.  One of less than eight addresses cannot
   be halved three times: subnets() of a single address yields that address
   alone, and taking its second half raises IndexError. *)
SplitOutcome(c) ==
  IF ~Canonical(c) THEN "ValueError" ELSE IF c.size < 8 THEN "IndexError" ELSE "constructed"

(* Slots of the four /64 blocks. *)
Ipv6Slot == [private |-> 0, secure |-> 1, public |-> 2, management |-> 3]

(***************************************************************************)
(* Routing                                                                 *)
(***************************************************************************)

Route(dest, gateway) == <<dest, gateway>>

DefaultRoutes ==
  [public     |-> {Route(Space, "internet")},
   private    |-> {Route(Space, "nat"), Route(ServiceCidr, "service")},
   secure     |-> {Route(ServiceCidr, "service")},
   management |-> {Route(ServiceCidr, "service")}]

DrgTiers == {"private", "secure", "management"}

(* Fault: the DRG routes go into every route table. *)
RouteTablesAllDrg(useDrg, cidrs) ==
  [t \in TierNames |->
     DefaultRoutes[t] \cup
       (IF useDrg THEN {Route(cidrs[i], "drg") : i \in DOMAIN cidrs} ELSE {})]

(* Vcn._create_route_tables *)
RouteTables(useDrg, cidrs) ==
  [t \in TierNames |->
     DefaultRoutes[t] \cup
       (IF useDrg /\ t \in DrgTiers THEN {Route(cidrs[i], "drg") : i \in DOMAIN cidrs} ELSE {})]

(* Where traffic of a tier to an address goes: inside the VCN directly, else
   along the most specific route. *)
NextHops(t, a) ==
  IF a \in Addresses(cidr) THEN {"local"}
  ELSE LET usable == {r \in routes[t] : a \in Addresses(r[1])}
       IN  {r[2] : r \in {x \in usable : \A y \in usable : x[1].size <= y[1].size}}

-----------------------------------------------------------------------------

NoTiers == [t \in TierNames |-> [base |-> 0, size |-> 1]]

Init ==
  /\ phase = "new"
  /\ cidr \in Requests
  /\ drg \in BOOLEAN
  /\ onPrem \in OnPremise
  /\ ipv6 \in BOOLEAN
  /\ tiers   = NoTiers
  /\ routes  = [t \in TierNames |-> {}]
  /\ subnets = {}

(* Vcn.__init__: nothing is created for a CIDR that cannot be split. *)
Construct ==
  /\ phase = "new"
  /\ phase' = SplitOutcome(cidr)
  /\ IF SplitOutcome(cidr) = "constructed"
     THEN tiers' = SplitTiers(cidr) /\ routes' = RouteTables(drg, onPrem)
     ELSE UNCHANGED <<tiers, routes>>
  /\ UNCHANGED <<cidr, drg, onPrem, ipv6, subnets>>

(* Fault: two tiers share an IPv6 block. *)
CreateSubnetsSharedSlot ==
  /\ phase = "constructed"
  /\ phase' = "finalized"
  /\ subnets' = {[tier |-> t, block |-> tiers[t],
                  slot |-> IF ipv6 THEN Ipv6Slot[t] % 3 ELSE -1] : t \in TierNames}
  /\ UNCHANGED <<cidr, drg, onPrem, ipv6, tiers, routes>>

(* Vcn._create_subnets, called by finalize_network. *)
CreateSubnets ==
  /\ phase = "constructed"
  /\ phase' = "finalized"
  /\ subnets' = {[tier |-> t, block |-> tiers[t],
                  slot |-> IF ipv6 THEN Ipv6Slot[t] ELSE -1] : t \in TierNames}
  /\ UNCHANGED <<cidr, drg, onPrem, ipv6, tiers, routes>>

Next == Construct \/ CreateSubnets

Spec == Init /\ [][Next]_vars

-----------------------------------------------------------------------------

Built == phase \in {"constructed", "finalized"}

(* Values of the variables; in particular no tier is ever empty. *)
TypeOK ==
  /\ phase \in {"new", "constructed", "finalized", "ValueError", "IndexError"}
  /\ cidr \in Requests
  /\ drg \in BOOLEAN /\ onPrem \in OnPremise /\ ipv6 \in BOOLEAN
  /\ tiers \in [TierNames -> Blocks]

(* "All four tiers together exactly reconstruct the original VCN CIDR - no
   gaps, no overlaps" (_split_tiers): every address of the VCN is in exactly
   one tier, and no tier has an address of its own. *)
TiersPartition ==
  Built =>
    /\ \A a \in Addresses(cidr) : \E t \in TierNames : a \in Addresses(tiers[t])
    /\ \A t, u \in TierNames : t # u => Addresses(tiers[t]) \cap Addresses(tiers[u]) = {}
    /\ \A t \in TierNames : Addresses(tiers[t]) \subseteq Addresses(cidr)

(* Every tier is a CIDR OCI accepts: its base is a multiple of its size.  (The
   lower half always is; the others are only because the VCN's own CIDR was
   checked for host bits.) *)
TiersCanonical == Built => \A t \in TierNames : Canonical(tiers[t])

(* Where each tier can send traffic outside the VCN: the public tier to the
   internet only, the private tier through NAT but to OCI services and
   on-premise networks through their gateways, and the secure and management
   tiers to services and on-premise networks only, nowhere without a DRG
   (docs/concepts/network-topology.md). *)
EgressByTier ==
  Built =>
    \A a \in Addresses(Space) \ Addresses(cidr) :
      LET premises == drg /\ \E i \in DOMAIN onPrem : a \in Addresses(onPrem[i])
          outside  == IF premises THEN {"drg"}
                      ELSE IF a \in Addresses(ServiceCidr) THEN {"service"} ELSE {}
      IN /\ NextHops("public", a) = {"internet"}
         /\ NextHops("private", a) = IF outside = {} THEN {"nat"} ELSE outside
         /\ NextHops("secure", a) = outside
         /\ NextHops("management", a) = outside

(* Subnets never share addresses, IPv4 or IPv6. *)
SubnetsDisjoint ==
  \A s, u \in subnets :
    s # u => /\ Addresses(s.block) \cap Addresses(u.block) = {}
             /\ ipv6 => s.slot # u.slot
=============================================================================
