------------------------------- MODULE VcnApi -------------------------------
(***************************************************************************)
(* A program that drives one Vcn through its public methods, in any order: *)
(* add_security_list_rules, add_unique_security_list_rules and             *)
(* finalize_network (providers/oci/network.py).  SpellProgram is the same  *)
(* Vcn driven by the real spells.                                          *)
(***************************************************************************)
EXTENDS VcnBuilder

CONSTANTS
  RulesOf,    \* the rules callers register under each fingerprint
  RuleLists,  \* rule lists callers pass to add_security_list_rules
  MaxRules    \* bound: how many rules the lists may hold before finalisation

ASSUME RulesOfAssumption   == RulesOf \in [Fingerprint -> Seq(Rule)]
ASSUME RuleListsAssumption == RuleLists \subseteq Seq(Rule)
ASSUME MaxRulesAssumption  == MaxRules \in Nat

VARIABLE
  plain  \* history: bag of the rules accepted without a fingerprint

apiVars == <<lists, applied, finalized, securityLists, created, flowLogs, outcome, plain>>

Init == VcnInit /\ plain = EmptyBag

AddRules(rules) ==
  /\ BagCardinality(lists) + Len(rules) <= MaxRules
  /\ AddSecurityListRules(rules)
  /\ plain' = IF finalized THEN plain ELSE plain (+) BagOf(rules)

AddUniqueRules(fp) ==
  /\ AddUniqueSecurityListRules(fp, RulesOf[fp])
  /\ UNCHANGED plain

Finalize ==
  /\ FinalizeNetwork
  /\ UNCHANGED plain

Next ==
  \/ \E rules \in RuleLists : AddRules(rules)
  \/ \E fp \in Fingerprint : AddUniqueRules(fp)
  \/ Finalize

Spec == Init /\ [][Next]_apiVars

-----------------------------------------------------------------------------

(* Values of the variables of a Vcn. *)
TypeOK == VcnTypeOK /\ IsABag(plain)

(* has_ambient_rule tells spells that a fingerprint's rules are in the lists:
   as long as no exception went uncaught, a recorded fingerprint means its
   rules were collected.  Bastion relies on it before it skips its rule. *)
RegisteredRulesCollected ==
  outcome = "ok" => \A fp \in applied : \A i \in DOMAIN RulesOf[fp] : BagIn(RulesOf[fp][i], lists)

(* Copies of r owed to the fingerprints registered so far. *)
KeyedCopies(r) ==
  LET sites == UNION {{fp} \X (DOMAIN RulesOf[fp]) : fp \in applied}
  IN  Cardinality({s \in sites : RulesOf[s[1]][s[2]] = r})

(* The lists are a function of WHAT was contributed, never of the order: seed
   rules, plain contributions, one copy per registered fingerprint however many
   spells registered it, and the baseline once.  A fingerprint registered twice,
   a rule lost or a baseline injected again breaks the equation. *)
LedgerExact ==
  outcome = "ok" =>
    \A r \in Rule :
      CopiesOf(r, lists) =
        CopiesOf(r, BagOf(SeedRules)) + CopiesOf(r, plain) + KeyedCopies(r)
          + (IF finalized THEN CopiesOf(r, BagOf(BaselineRules)) ELSE 0)

(* The builder keeps the promise of the abstract ledger. *)
KeepsLedger == Ledger!Spec
=============================================================================
