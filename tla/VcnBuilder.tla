----------------------------- MODULE VcnBuilder -----------------------------
(***************************************************************************)
(* The rule accumulator inside Vcn (providers/oci/network.py).             *)
(*                                                                         *)
(* Spells that share a Vcn contribute security-list rules to eight Python  *)
(* lists (one per tier and direction).  The first spell that needs a       *)
(* subnet calls finalize_network, which turns the lists into the four OCI  *)
(* security lists and creates the subnets; the lists are closed from then  *)
(* on.  A rule several spells may want carries a fingerprint, and only the *)
(* first registration of a fingerprint adds rules.                         *)
(*                                                                         *)
(* A rule is an opaque value here (SecurityRules gives it its tier,        *)
(* direction, port and peer), so the eight lists are one bag of rules: the *)
(* order inside a security list has no meaning to OCI, the multiplicity    *)
(* has, because a list holds a bounded number of rules.                    *)
(*                                                                         *)
(* A spell constructor is a sequence of registration calls, possibly       *)
(* followed by finalize_network.  It runs to its end or to the first       *)
(* exception; no other Python code runs in between, so it is one action.   *)
(***************************************************************************)
EXTENDS Integers, Sequences, FiniteSets, Bags

CONSTANTS
  Rule,          \* security-list rules
  Fingerprint,   \* strings spells use as fingerprints
  Unkeyed,       \* marks a call of add_security_list_rules (no fingerprint)
  SeedRules,     \* sequence of rules Vcn.__init__ puts in the lists
  BaselineRules, \* sequence of rules finalize_network injects
  FlowLogs,      \* "off", "on", or "bad" (on, with a retention OCI rejects)
  CatchErrors    \* does the program go on after an exception?

ASSUME UnkeyedAssumption   == Unkeyed \notin Fingerprint
ASSUME FixedRulesAssumption ==
  /\ SeedRules \in Seq(Rule)
  /\ BaselineRules \in Seq(Rule)
ASSUME FlowLogsAssumption  == FlowLogs \in {"off", "on", "bad"}
ASSUME CatchAssumption     == CatchErrors \in BOOLEAN

VARIABLES
  lists,         \* bag of rules in the eight Python lists
  applied,       \* _applied_ambient_rule_fingerprints
  finalized,     \* _security_lists_finalized
  securityLists, \* bag of rules in the OCI security lists (empty until created)
  created,       \* how many times the security lists and subnets were created
  flowLogs,      \* is Vcn.flow_logs set?
  outcome        \* how the last call ended: "ok" or the exception raised

vcnVars == <<lists, applied, finalized, securityLists, created, flowLogs, outcome>>

Outcome == {"ok", "RuntimeError", "ValueError"}

(***************************************************************************)
(* Registration calls                                                      *)
(***************************************************************************)

(* A registration call: its fingerprint (or Unkeyed) and its rule lists.   *)
Call == [fp : Fingerprint \cup {Unkeyed}, rules : Seq(Rule)]

(* How often each rule occurs in a list of rules. *)
BagOf(rules) ==
  [r \in {rules[i] : i \in DOMAIN rules} |->
     Cardinality({i \in DOMAIN rules : rules[i] = r})]

CopiesOf(r, bag) == IF r \in DOMAIN bag THEN bag[r] ELSE 0

(* Fault: the set of applied fingerprints is not consulted. *)
FreshAlways(calls, i) == i \in DOMAIN calls

(* The i-th call does something: it has no fingerprint, or one that neither
   an earlier spell nor an earlier call of the same spell registered. *)
Fresh(calls, i) ==
  \/ calls[i].fp = Unkeyed
  \/ /\ calls[i].fp \notin applied
     /\ \A j \in 1..(i - 1) : calls[j].fp # calls[i].fp

FreshCalls(calls) == {i \in DOMAIN calls : Fresh(calls, i)}

(* Places of the rules that the fresh calls bring: <<call, position>>. *)
FreshSites(calls) ==
  UNION {{i} \X (DOMAIN calls[i].rules) : i \in FreshCalls(calls)}

RuleAt(calls, s) == calls[s[1]].rules[s[2]]

(* The rules an open Vcn takes from the calls, with their multiplicity. *)
Added(calls) ==
  [r \in {RuleAt(calls, s) : s \in FreshSites(calls)} |->
     Cardinality({s \in FreshSites(calls) : RuleAt(calls, s) = r})]

(* Fault: "no fingerprint" is recorded like one. *)
FingerprintsWithUnkeyed(calls) == {calls[i].fp : i \in DOMAIN calls}

FingerprintsOf(calls) == {calls[i].fp : i \in DOMAIN calls} \ {Unkeyed}

(* On a closed Vcn the first fresh call raises, after it has recorded its
   fingerprint. *)
RecordedBeforeRaise(calls) ==
  {calls[i].fp : i \in {k \in FreshCalls(calls) : \A j \in FreshCalls(calls) : k <= j}}
    \ {Unkeyed}

(* After an exception the Pulumi program ends, unless it catches it. *)
CanCall == CatchErrors \/ outcome = "ok"

(***************************************************************************)
(* The ways a spell can go                                                 *)
(***************************************************************************)

(* Fault: add_security_list_rules without its guard. *)
CollectUnguarded(calls) ==
  /\ CanCall
  /\ lists'   = lists (+) Added(calls)
  /\ applied' = applied \cup FingerprintsOf(calls)
  /\ outcome' = "ok"
  /\ UNCHANGED <<finalized, securityLists, created, flowLogs>>

(* Rules join the open lists; the spell does not need the subnets yet. *)
Collect(calls) ==
  /\ CanCall
  /\ ~finalized
  /\ lists'   = lists (+) Added(calls)
  /\ applied' = applied \cup FingerprintsOf(calls)
  /\ outcome' = "ok"
  /\ UNCHANGED <<finalized, securityLists, created, flowLogs>>

(* Fault: no baseline rules. *)
MaterialiseWithoutBaseline(calls) ==
  /\ CanCall
  /\ ~finalized
  /\ lists'         = lists (+) Added(calls)
  /\ applied'       = applied \cup FingerprintsOf(calls)
  /\ securityLists' = lists'
  /\ created'       = created + 1
  /\ finalized'     = TRUE
  /\ flowLogs'      = (FlowLogs = "on")
  /\ outcome'       = IF FlowLogs = "bad" THEN "ValueError" ELSE "ok"

(* Fault: the security lists are created before the baseline is injected. *)
MaterialiseBeforeBaseline(calls) ==
  /\ CanCall
  /\ ~finalized
  /\ lists'         = (lists (+) Added(calls)) (+) BagOf(BaselineRules)
  /\ applied'       = applied \cup FingerprintsOf(calls)
  /\ securityLists' = lists (+) Added(calls)
  /\ created'       = created + 1
  /\ finalized'     = TRUE
  /\ flowLogs'      = (FlowLogs = "on")
  /\ outcome'       = IF FlowLogs = "bad" THEN "ValueError" ELSE "ok"

(* finalize_network on an open Vcn, after the spell's own calls: baseline
   rules, security lists, subnets, the flag, and only then the flow logs,
   whose retention is validated by the VcnFlowLogs constructor. *)
Materialise(calls) ==
  /\ CanCall
  /\ ~finalized
  /\ lists'         = (lists (+) Added(calls)) (+) BagOf(BaselineRules)
  /\ applied'       = applied \cup FingerprintsOf(calls)
  /\ securityLists' = lists'
  /\ created'       = created + 1
  /\ finalized'     = TRUE
  /\ flowLogs'      = (FlowLogs = "on")
  /\ outcome'       = IF FlowLogs = "bad" THEN "ValueError" ELSE "ok"

(* Fault: a fresh call on a closed Vcn is skipped without a word. *)
RefuseSilently(calls) ==
  /\ CanCall
  /\ finalized
  /\ FreshCalls(calls) # {}
  /\ applied' = applied \cup RecordedBeforeRaise(calls)
  /\ outcome' = "ok"
  /\ UNCHANGED <<lists, finalized, securityLists, created, flowLogs>>

(* A fresh call on a closed Vcn raises RuntimeError.  Its fingerprint, if it
   has one, is already in the set by then. *)
Refuse(calls) ==
  /\ CanCall
  /\ finalized
  /\ FreshCalls(calls) # {}
  /\ applied' = applied \cup RecordedBeforeRaise(calls)
  /\ outcome' = "RuntimeError"
  /\ UNCHANGED <<lists, finalized, securityLists, created, flowLogs>>

(* Nothing fresh on a closed Vcn: every call and finalize_network return
   without effect. *)
Reuse(calls) ==
  /\ CanCall
  /\ finalized
  /\ FreshCalls(calls) = {}
  /\ outcome' = "ok"
  /\ UNCHANGED <<lists, applied, finalized, securityLists, created, flowLogs>>

(* Registration alone, and registration followed by finalize_network. *)
Register(calls)            == Collect(calls) \/ Refuse(calls) \/ Reuse(calls)
RegisterAndFinalize(calls) == Materialise(calls) \/ Refuse(calls) \/ Reuse(calls)

(* A spell that rejects its own arguments before it touches the Vcn. *)
RejectArguments ==
  /\ CanCall
  /\ outcome' = "ValueError"
  /\ UNCHANGED <<lists, applied, finalized, securityLists, created, flowLogs>>

(***************************************************************************)
(* The public methods of Vcn, called by any program                        *)
(***************************************************************************)

AddSecurityListRules(rules) == Register(<<[fp |-> Unkeyed, rules |-> rules]>>)

AddUniqueSecurityListRules(fp, rules) == Register(<<[fp |-> fp, rules |-> rules]>>)

FinalizeNetwork == RegisterAndFinalize(<<>>)

HasAmbientRule(fp) == fp \in applied

VcnInit ==
  /\ lists         = BagOf(SeedRules)
  /\ applied       = {}
  /\ finalized     = FALSE
  /\ securityLists = EmptyBag
  /\ created       = 0
  /\ flowLogs      = FALSE
  /\ outcome       = "ok"

-----------------------------------------------------------------------------

VcnTypeOK ==
  /\ IsABag(lists) /\ BagToSet(lists) \subseteq Rule
  /\ applied \subseteq Fingerprint
  /\ finalized \in BOOLEAN
  /\ IsABag(securityLists) /\ BagToSet(securityLists) \subseteq Rule
  /\ created \in Nat
  /\ flowLogs \in BOOLEAN
  /\ outcome \in Outcome

(* What OCI was given is what the lists hold: nothing reaches the lists after
   they were turned into security lists (the guard in add_security_list_rules),
   and that happened exactly once, however many spells called
   finalize_network. *)
DeployedIsCollected ==
  IF finalized THEN securityLists = lists /\ created = 1
               ELSE securityLists = EmptyBag /\ created = 0

(* Every closed Vcn has at least the rules injected by finalize_network, each
   as often as finalize_network lists it, whoever triggered the finalisation. *)
BaselineDeployed ==
  finalized => BagOf(BaselineRules) \sqsubseteq securityLists

Ledger == INSTANCE RuleLedger
            WITH content <- lists, sealed <- finalized, deployed <- securityLists
=============================================================================
