---------------------------- MODULE VcnApiProofs ----------------------------
(***************************************************************************)
(* Theorems about every program that drives a Vcn through its public       *)
(* methods (VcnApi), for every set of rules, fingerprints and rule lists.  *)
(* VcnInv is the inductive invariant of the Vcn itself: every sequence of  *)
(* registration calls keeps it and is a step of the abstract RuleLedger.   *)
(* RegisteredRulesCollected and LedgerExact need more, and that the        *)
(* program ends with its first exception.                                  *)
(***************************************************************************)
EXTENDS VcnApi, BagLemmas

-----------------------------------------------------------------------------
(* Registration calls *)

(* The rules of a finite list form a bag over the same rules. *)
LEMMA BagOfIsBag ==
  ASSUME NEW S, NEW rules \in Seq(S)
  PROVE  /\ IsABag(BagOf(rules)) /\ BagToSet(BagOf(rules)) \subseteq S
         /\ \A r : CopiesOf(r, BagOf(rules)) = Cardinality(Places(rules, r))
<1>1. BagOf(rules) = Tally(rules)
  BY DEF BagOf, Tally
<1>2. IsFiniteSet(DOMAIN rules)
  BY ListPlaces
<1>3. \A r : CopiesOf(r, BagOf(rules)) = Copies(r, BagOf(rules))
  BY DEF CopiesOf, Copies
<1>4. {rules[i] : i \in DOMAIN rules} \subseteq S
  OBVIOUS
<1> QED BY <1>1, <1>2, <1>3, <1>4, TallyIsBag

(* Each call of a sequence has a fingerprint, or none, and a list of rules. *)
LEMMA CallTyped ==
  ASSUME NEW calls \in Seq(Call), NEW i \in DOMAIN calls
  PROVE  /\ calls[i].fp \in Fingerprint \cup {Unkeyed}
         /\ calls[i].rules \in Seq(Rule)
<1>1. calls[i] \in Call
  OBVIOUS
<1> QED BY <1>1 DEF Call

(* The sites of the rules that fresh calls bring are finitely many. *)
LEMMA FreshSitesFinite ==
  ASSUME NEW calls \in Seq(Call)
  PROVE  IsFiniteSet(FreshSites(calls))
<1> DEFINE J == [i \in FreshCalls(calls) |-> DOMAIN calls[i].rules]
<1>1. IsFiniteSet(FreshCalls(calls))
  BY ListPlaces, FS_Subset DEF FreshCalls
<1>2. \A i \in FreshCalls(calls) : IsFiniteSet(J[i])
  BY CallTyped, ListPlaces DEF FreshCalls
<1>3. \A i \in FreshCalls(calls) : {i} \X J[i] = {i} \X (DOMAIN calls[i].rules)
  OBVIOUS
<1> HIDE DEF J
<1>4. IsFiniteSet(UNION {{i} \X J[i] : i \in FreshCalls(calls)})
  BY <1>1, <1>2, PairsFinite
<1>5. FreshSites(calls) = UNION {{i} \X J[i] : i \in FreshCalls(calls)}
  BY <1>3 DEF FreshSites
<1> QED BY <1>4, <1>5

(* What an open Vcn takes from any sequence of calls is a bag of rules. *)
LEMMA AddedIsBag ==
  ASSUME NEW calls \in Seq(Call)
  PROVE  /\ IsABag(Added(calls)) /\ BagToSet(Added(calls)) \subseteq Rule
         /\ \A r : CopiesOf(r, Added(calls)) =
                    Cardinality({s \in FreshSites(calls) : RuleAt(calls, s) = r})
<1> DEFINE f == [s \in FreshSites(calls) |-> RuleAt(calls, s)]
<1>1. Added(calls) = Tally(f)
  BY DEF Added, Tally
<1>2. IsFiniteSet(DOMAIN f)
  BY FreshSitesFinite
<1>3. ASSUME NEW s \in FreshSites(calls) PROVE RuleAt(calls, s) \in Rule
  <2>1. PICK i \in FreshCalls(calls) : s \in {i} \X (DOMAIN calls[i].rules)
    BY DEF FreshSites
  <2>2. s[1] = i /\ s[2] \in DOMAIN calls[i].rules
    BY <2>1
  <2>3. calls[i].rules \in Seq(Rule)
    BY CallTyped DEF FreshCalls
  <2> QED BY <2>2, <2>3 DEF RuleAt
<1>4. \A r : Places(f, r) = {s \in FreshSites(calls) : RuleAt(calls, s) = r}
  BY DEF Places
<1>5. \A r : CopiesOf(r, Added(calls)) = Copies(r, Tally(f))
  BY <1>1 DEF CopiesOf, Copies
<1>6. {f[s] : s \in DOMAIN f} \subseteq Rule
  BY <1>3
<1> HIDE DEF f
<1> QED BY <1>1, <1>2, <1>4, <1>5, <1>6, TallyIsBag

(* The seed and baseline rules are bags of rules. *)
LEMMA FixedBags ==
  /\ IsABag(BagOf(SeedRules)) /\ BagToSet(BagOf(SeedRules)) \subseteq Rule
  /\ IsABag(BagOf(BaselineRules)) /\ BagToSet(BagOf(BaselineRules)) \subseteq Rule
  BY FixedRulesAssumption, BagOfIsBag

(* Recorded fingerprints are fingerprints. *)
LEMMA FingerprintsTyped ==
  ASSUME NEW calls \in Seq(Call)
  PROVE  /\ FingerprintsOf(calls) \subseteq Fingerprint
         /\ RecordedBeforeRaise(calls) \subseteq Fingerprint
<1>1. \A i \in DOMAIN calls : calls[i].fp \in Fingerprint \cup {Unkeyed}
  BY CallTyped
<1> QED BY <1>1 DEF FingerprintsOf, RecordedBeforeRaise, FreshCalls

-----------------------------------------------------------------------------
(* The invariant of the Vcn.  BaselineDeployed is inductive only together with
   DeployedIsCollected: what was deployed does not change because finalized is
   never reset. *)
VcnInv == VcnTypeOK /\ DeployedIsCollected /\ BaselineDeployed

(* RuleLedger's bags are the bags of this module. *)
LEMMA LedgerBags ==
  /\ \A B : Ledger!IsABag(B) <=> IsABag(B)
  /\ \A A, B : Ledger!\sqsubseteq(A, B) <=> A \sqsubseteq B
  /\ Ledger!EmptyBag = EmptyBag
  BY DEF IsABag, Ledger!IsABag, \sqsubseteq, Ledger!\sqsubseteq,
         EmptyBag, Ledger!EmptyBag, SetToBag, Ledger!SetToBag

(* A new Vcn satisfies the invariant, and the ledger it implements is new. *)
LEMMA VcnInitInv == VcnInit => VcnInv /\ Ledger!Init
<1> SUFFICES ASSUME VcnInit PROVE VcnInv /\ Ledger!Init
  OBVIOUS
<1>1. VcnTypeOK
  BY FixedBags, EmptyBagIsBag DEF VcnInit, VcnTypeOK, Outcome
<1>2. DeployedIsCollected /\ BaselineDeployed
  BY DEF VcnInit, DeployedIsCollected, BaselineDeployed
<1>3. Ledger!Init
  BY FixedBags, LedgerBags DEF VcnInit, Ledger!Init
<1> QED BY <1>1, <1>2, <1>3 DEF VcnInv

(* What a step of the Vcn has to establish. *)
GoodStep == VcnInv' /\ [Ledger!Next]_(Ledger!ledgerVars)

(* A registration on an open Vcn only adds rules. *)
LEMMA CollectGood ==
  ASSUME NEW calls \in Seq(Call), VcnInv, Collect(calls)
  PROVE  GoodStep
<1> USE DEF VcnInv
<1>1. /\ IsABag(lists') /\ BagToSet(lists') \subseteq Rule
      /\ lists \sqsubseteq lists'
  BY AddedIsBag, BagSum DEF Collect, VcnTypeOK
<1>2. VcnTypeOK'
  BY <1>1, FingerprintsTyped DEF Collect, VcnTypeOK, Outcome
<1>3. DeployedIsCollected' /\ BaselineDeployed'
  BY DEF Collect, DeployedIsCollected, BaselineDeployed
<1>4. Ledger!Contribute
  BY <1>1, LedgerBags DEF Collect, Ledger!Contribute
<1> QED BY <1>2, <1>3, <1>4 DEF GoodStep, Ledger!Next

(* finalize_network on an open Vcn seals the ledger with everything collected
   and the baseline in it. *)
LEMMA MaterialiseGood ==
  ASSUME NEW calls \in Seq(Call), VcnInv, Materialise(calls)
  PROVE  GoodStep
<1> USE DEF VcnInv
<1> DEFINE M == lists (+) Added(calls)
<1>1. /\ IsABag(M) /\ BagToSet(M) \subseteq Rule
      /\ lists \sqsubseteq M
  BY AddedIsBag, BagSum DEF VcnTypeOK
<1>2. lists' = M (+) BagOf(BaselineRules)
  BY DEF Materialise
<1> HIDE DEF M
<1>3. /\ IsABag(lists') /\ BagToSet(lists') \subseteq Rule
      /\ M \sqsubseteq lists'
      /\ BagOf(BaselineRules) \sqsubseteq lists'
  BY <1>1, <1>2, FixedBags, BagSum
<1>4. lists \sqsubseteq lists'
  BY <1>1, <1>3, BagContainmentTransitive DEF VcnTypeOK
<1>5. VcnTypeOK'
  BY <1>3, FingerprintsTyped DEF Materialise, VcnTypeOK, Outcome
<1>6. DeployedIsCollected'
  BY DEF Materialise, DeployedIsCollected
<1>7. BaselineDeployed'
  BY <1>3 DEF Materialise, BaselineDeployed
<1>8. Ledger!Seal
  BY <1>3, <1>4, LedgerBags DEF Materialise, Ledger!Seal
<1> QED BY <1>5, <1>6, <1>7, <1>8 DEF GoodStep, Ledger!Next

(* Calls on a closed Vcn, and rejected arguments, leave the rules alone. *)
LEMMA ClosedGood ==
  ASSUME NEW calls \in Seq(Call), VcnInv,
         Refuse(calls) \/ Reuse(calls) \/ RejectArguments
  PROVE  GoodStep
<1>1. /\ UNCHANGED <<lists, finalized, securityLists, created, flowLogs>>
      /\ applied' \subseteq Fingerprint
      /\ outcome' \in Outcome
  BY FingerprintsTyped DEF Refuse, Reuse, RejectArguments, Outcome, VcnInv, VcnTypeOK
<1>2. VcnTypeOK'
  BY <1>1 DEF VcnInv, VcnTypeOK
<1>3. DeployedIsCollected' /\ BaselineDeployed'
  BY <1>1 DEF VcnInv, DeployedIsCollected, BaselineDeployed
<1>4. UNCHANGED Ledger!ledgerVars
  BY <1>1 DEF Ledger!ledgerVars
<1> QED BY <1>2, <1>3, <1>4 DEF GoodStep, VcnInv

(* Whatever calls a spell makes, and whether or not it finalises, it keeps the
   invariant and the ledger's promise. *)
LEMMA SpellGood ==
  ASSUME NEW calls \in Seq(Call), VcnInv,
         Register(calls) \/ RegisterAndFinalize(calls) \/ RejectArguments
  PROVE  GoodStep
  BY CollectGood, MaterialiseGood, ClosedGood DEF Register, RegisterAndFinalize

-----------------------------------------------------------------------------
(* The public methods *)

(* The registration calls of the three methods are sequences of calls. *)
LEMMA MethodCalls ==
  /\ \A rules \in RuleLists : <<[fp |-> Unkeyed, rules |-> rules]>> \in Seq(Call)
  /\ \A fp \in Fingerprint : <<[fp |-> fp, rules |-> RulesOf[fp]]>> \in Seq(Call)
  /\ <<>> \in Seq(Call)
<1>1. ASSUME NEW rules \in RuleLists
      PROVE  <<[fp |-> Unkeyed, rules |-> rules]>> \in Seq(Call)
  <2>1. [fp |-> Unkeyed, rules |-> rules] \in Call
    BY RuleListsAssumption DEF Call
  <2> QED BY <2>1
<1>2. ASSUME NEW fp \in Fingerprint
      PROVE  <<[fp |-> fp, rules |-> RulesOf[fp]]>> \in Seq(Call)
  <2>1. [fp |-> fp, rules |-> RulesOf[fp]] \in Call
    BY RulesOfAssumption DEF Call
  <2> QED BY <2>1
<1> QED BY <1>1, <1>2

(* What a step of the program has to establish, besides the Vcn's part. *)
ApiInv == VcnInv /\ IsABag(plain)

(* A new Vcn, without calls, satisfies both. *)
LEMMA InitGood == Init => ApiInv /\ Ledger!Init
  BY VcnInitInv, EmptyBagIsBag DEF Init, ApiInv

(* add_security_list_rules keeps the invariant and the ledger's promise. *)
LEMMA AddRulesGood ==
  ASSUME ApiInv, NEW rules \in RuleLists, AddRules(rules)
  PROVE  ApiInv' /\ GoodStep
<1>1. GoodStep
  BY MethodCalls, SpellGood DEF AddRules, AddSecurityListRules, ApiInv
<1>2. IsABag(BagOf(rules))
  BY RuleListsAssumption, BagOfIsBag
<1>3. IsABag(plain (+) BagOf(rules))
  BY <1>2, BagSum DEF ApiInv
<1>4. IsABag(plain')
  BY <1>3 DEF AddRules, ApiInv
<1> QED BY <1>1, <1>4 DEF ApiInv, GoodStep

(* So does add_unique_security_list_rules. *)
LEMMA AddUniqueRulesGood ==
  ASSUME ApiInv, NEW fp \in Fingerprint, AddUniqueRules(fp)
  PROVE  ApiInv' /\ GoodStep
<1>1. GoodStep
  BY MethodCalls, SpellGood DEF AddUniqueRules, AddUniqueSecurityListRules, ApiInv
<1> QED BY <1>1 DEF AddUniqueRules, ApiInv, GoodStep

(* So does finalize_network. *)
LEMMA FinalizeGood ==
  ASSUME ApiInv, Finalize
  PROVE  ApiInv' /\ GoodStep
<1>1. GoodStep
  BY MethodCalls, SpellGood DEF Finalize, FinalizeNetwork, ApiInv
<1> QED BY <1>1 DEF Finalize, ApiInv, GoodStep

(* Every step keeps the invariant and is a step of the ledger or leaves the
   ledger alone. *)
LEMMA NextGood ==
  ASSUME ApiInv, [Next]_apiVars
  PROVE  ApiInv' /\ [Ledger!Next]_(Ledger!ledgerVars)
<1>1. CASE Next
  BY <1>1, AddRulesGood, AddUniqueRulesGood, FinalizeGood DEF Next, GoodStep
<1>2. CASE UNCHANGED apiVars
  <2>1. ApiInv'
    BY <1>2 DEF apiVars, ApiInv, VcnInv, VcnTypeOK, DeployedIsCollected, BaselineDeployed
  <2>2. UNCHANGED Ledger!ledgerVars
    BY <1>2 DEF apiVars, Ledger!ledgerVars
  <2> QED BY <2>1, <2>2
<1> QED BY <1>1, <1>2

(* The inductive invariant of a Vcn under any sequence of calls. *)
THEOREM ApiInvariant == Spec => []ApiInv
<1>1. Init => ApiInv
  BY InitGood
<1>2. ApiInv /\ [Next]_apiVars => ApiInv'
  BY NextGood
<1> QED BY <1>1, <1>2, PTL DEF Spec

(* Every variable of the Vcn keeps its type. *)
THEOREM TypeCorrect == Spec => []TypeOK
<1>1. ApiInv => TypeOK
  BY DEF ApiInv, VcnInv, TypeOK
<1> QED BY <1>1, ApiInvariant, PTL

(* The security lists given to OCI are what the Python lists hold, and they
   were created once: no call after finalize_network reaches the lists. *)
THEOREM DeploysWhatWasCollected == Spec => []DeployedIsCollected
<1>1. ApiInv => DeployedIsCollected
  BY DEF ApiInv, VcnInv
<1> QED BY <1>1, ApiInvariant, PTL

(* No finalised Vcn lacks a baseline rule. *)
THEOREM BaselineAlwaysDeployed == Spec => []BaselineDeployed
<1>1. ApiInv => BaselineDeployed
  BY DEF ApiInv, VcnInv
<1> QED BY <1>1, ApiInvariant, PTL

(* The Vcn implements the abstract ledger. *)
THEOREM ImplementsLedger == Spec => KeepsLedger
<1>1. Init => Ledger!Init
  BY InitGood
<1>2. ApiInv /\ [Next]_apiVars => [Ledger!Next]_(Ledger!ledgerVars)
  BY NextGood
<1> QED BY <1>1, <1>2, ApiInvariant, PTL DEF Spec, KeepsLedger, Ledger!Spec

-----------------------------------------------------------------------------
(* has_ambient_rule can be trusted as long as no exception was swallowed: the
   recorded fingerprints are those whose rules were collected.  The proof needs
   that the program ends with its first exception, because on a closed Vcn
   add_unique_security_list_rules records a fingerprint and then raises. *)

(* The rules of a fresh call are among those an open Vcn takes. *)
LEMMA FreshCallAdded ==
  ASSUME NEW calls \in Seq(Call), NEW i \in FreshCalls(calls),
         NEW k \in DOMAIN calls[i].rules
  PROVE  BagIn(calls[i].rules[k], Added(calls))
<1>1. <<i, k>> \in FreshSites(calls)
  BY DEF FreshSites
<1>2. RuleAt(calls, <<i, k>>) = calls[i].rules[k]
  BY DEF RuleAt
<1> QED BY <1>1, <1>2 DEF Added, BagIn, BagToSet

(* A call that returns normally while the program was sound adds its
   fingerprint together with its rules. *)
LEMMA UniqueCallCollects ==
  ASSUME ApiInv, CatchErrors = FALSE, RegisteredRulesCollected,
         NEW fp \in Fingerprint, AddUniqueRules(fp)
  PROVE  RegisteredRulesCollected'
<1> DEFINE calls == <<[fp |-> fp, rules |-> RulesOf[fp]]>>
<1>1. calls \in Seq(Call) /\ calls[1].rules = RulesOf[fp] /\ DOMAIN calls = {1}
  BY MethodCalls
<1>2. Register(calls) /\ outcome = "ok"
  BY DEF AddUniqueRules, AddUniqueSecurityListRules, Register, Collect, Refuse, Reuse, CanCall
<1>3. CASE Collect(calls)
  <2>1. IsABag(Added(calls)) /\ IsABag(lists)
    BY <1>1, AddedIsBag DEF ApiInv, VcnInv, VcnTypeOK
  <2>2. BagToSet(lists') = BagToSet(lists) \cup BagToSet(Added(calls))
    BY <1>3, <2>1, BagSum DEF Collect
  <2>3. applied' = applied \cup {fp}
    <3>1. FingerprintsOf(calls) = {fp}
      BY <1>1, UnkeyedAssumption DEF FingerprintsOf
    <3> QED BY <1>3, <3>1 DEF Collect
  <2>4. ASSUME NEW g \in applied', NEW i \in DOMAIN RulesOf[g]
        PROVE  BagIn(RulesOf[g][i], lists')
    <3>1. CASE g \in applied
      BY <1>2, <2>2, <2>4, <3>1 DEF RegisteredRulesCollected, BagIn
    <3>2. CASE g = fp /\ fp \notin applied
      <4>1. 1 \in FreshCalls(calls)
        BY <1>1, <3>2 DEF FreshCalls, Fresh
      <4>2. BagIn(calls[1].rules[i], Added(calls))
        BY <1>1, <2>4, <3>2, <4>1, FreshCallAdded
      <4> QED BY <1>1, <2>2, <3>2, <4>2 DEF BagIn
    <3> QED BY <2>3, <3>1, <3>2
  <2> QED BY <2>4 DEF RegisteredRulesCollected
<1>4. CASE Refuse(calls)
  BY <1>4 DEF Refuse, RegisteredRulesCollected
<1>5. CASE Reuse(calls)
  BY <1>2, <1>5 DEF Reuse, RegisteredRulesCollected
<1> QED BY <1>2, <1>3, <1>4, <1>5 DEF Register

(* A call without a fingerprint, and a finalisation, only add rules. *)
LEMMA OtherCallsCollect ==
  ASSUME ApiInv, CatchErrors = FALSE, RegisteredRulesCollected,
         (\E rules \in RuleLists : AddRules(rules)) \/ Finalize
  PROVE  RegisteredRulesCollected'
<1>1. outcome = "ok"
  BY DEF AddRules, AddSecurityListRules, Finalize, FinalizeNetwork, Register,
         RegisterAndFinalize, Collect, Materialise, Refuse, Reuse, CanCall
<1>2. outcome' = "ok" => applied' \subseteq applied
  <2>1. ASSUME NEW rules PROVE FingerprintsOf(<<[fp |-> Unkeyed, rules |-> rules]>>) = {}
    BY DEF FingerprintsOf
  <2>2. FingerprintsOf(<<>>) = {}
    BY DEF FingerprintsOf
  <2> QED BY <2>1, <2>2 DEF AddRules, AddSecurityListRules, Finalize, FinalizeNetwork,
             Register, RegisterAndFinalize, Collect, Materialise, Refuse, Reuse
<1>3. BagToSet(lists) \subseteq BagToSet(lists')
  <2>1. [Ledger!Next]_(Ledger!ledgerVars)
    BY NextGood DEF Next
  <2> QED BY <2>1, LedgerBags
          DEF Ledger!Next, Ledger!Contribute, Ledger!Seal, Ledger!ledgerVars,
              \sqsubseteq, BagToSet
<1> QED BY <1>1, <1>2, <1>3 DEF RegisteredRulesCollected, BagIn

(* As long as no call has raised, the rules of every registered fingerprint are
   on the lists: has_ambient_rule can be trusted. *)
THEOREM FingerprintsCanBeTrusted ==
  ASSUME CatchErrors = FALSE
  PROVE  Spec => []RegisteredRulesCollected
<1>1. Init => RegisteredRulesCollected
  BY DEF Init, VcnInit, RegisteredRulesCollected
<1>2. ApiInv /\ RegisteredRulesCollected /\ [Next]_apiVars => RegisteredRulesCollected'
  <2> SUFFICES ASSUME ApiInv, RegisteredRulesCollected, [Next]_apiVars
               PROVE  RegisteredRulesCollected'
    OBVIOUS
  <2>1. CASE \E rules \in RuleLists : AddRules(rules)
    BY <2>1, OtherCallsCollect
  <2>2. CASE \E fp \in Fingerprint : AddUniqueRules(fp)
    BY <2>2, UniqueCallCollects
  <2>3. CASE Finalize
    BY <2>3, OtherCallsCollect
  <2>4. CASE UNCHANGED apiVars
    BY <2>4 DEF apiVars, RegisteredRulesCollected
  <2> QED BY <2>1, <2>2, <2>3, <2>4 DEF Next
<1> QED BY <1>1, <1>2, ApiInvariant, PTL DEF Spec

-----------------------------------------------------------------------------
(* The lists are exactly what was contributed.  The count of a rule is a sum  *)
(* over the registered fingerprints, so the induction needs that these are    *)
(* finitely many; and it needs, as above, that the program ends with its      *)
(* first exception.                                                           *)

(* Where r stands among the rules of a set of fingerprints. *)
KeyedSites(A, r) ==
  {s \in UNION {{fp} \X (DOMAIN RulesOf[fp]) : fp \in A} : RulesOf[s[1]][s[2]] = r}

Exact == outcome = "ok" => LedgerExact /\ IsFiniteSet(applied)

(* Finitely many fingerprints have finitely many copies of a rule. *)
LEMMA KeyedSitesSize ==
  ASSUME NEW A \in SUBSET Fingerprint, IsFiniteSet(A), NEW r
  PROVE  IsFiniteSet(KeyedSites(A, r)) /\ Cardinality(KeyedSites(A, r)) \in Nat
<1> DEFINE J == [g \in A |-> DOMAIN RulesOf[g]]
<1>1. \A g \in A : IsFiniteSet(J[g])
  BY RulesOfAssumption, ListPlaces
<1>2. \A g \in A : {g} \X J[g] = {g} \X (DOMAIN RulesOf[g])
  OBVIOUS
<1> HIDE DEF J
<1>3. IsFiniteSet(UNION {{g} \X J[g] : g \in A})
  BY <1>1, PairsFinite
<1>4. KeyedSites(A, r) \subseteq UNION {{g} \X J[g] : g \in A}
  BY <1>2 DEF KeyedSites
<1> QED BY <1>3, <1>4, FS_Subset, FS_CardinalityType

(* One more fingerprint brings one more copy of each of its rules. *)
LEMMA KeyedSitesGrow ==
  ASSUME NEW A \in SUBSET Fingerprint, IsFiniteSet(A), NEW fp \in Fingerprint, fp \notin A, NEW r
  PROVE  Cardinality(KeyedSites(A \cup {fp}, r)) =
           Cardinality(KeyedSites(A, r)) + Cardinality(Places(RulesOf[fp], r))
<1> DEFINE P == Places(RulesOf[fp], r)
<1>1. \A g \in Fingerprint : RulesOf[g] \in Seq(Rule)
  BY RulesOfAssumption
<1>2. IsFiniteSet(KeyedSites(A, r))
  BY KeyedSitesSize
<1>3. IsFiniteSet(P)
  BY <1>1, ListPlaces, FS_Subset DEF Places
<1>4. IsFiniteSet({fp} \X P) /\ Cardinality({fp} \X P) = Cardinality(P)
  BY <1>3, IndexedPlaces
<1>5. KeyedSites(A \cup {fp}, r) = KeyedSites(A, r) \cup ({fp} \X P)
  BY DEF KeyedSites, Places
<1>6. KeyedSites(A, r) \cap ({fp} \X P) = {}
  BY DEF KeyedSites
<1>7. Cardinality(KeyedSites(A, r) \cup ({fp} \X P))
        = Cardinality(KeyedSites(A, r)) + Cardinality({fp} \X P)
  BY <1>2, <1>4, <1>6, DisjointSum
<1> QED BY <1>4, <1>5, <1>7

(* A single call brings the copies of its rules when it is fresh, and nothing
   when it is not. *)
LEMMA SingleCall ==
  ASSUME NEW call \in Call, NEW r
  PROVE  CopiesOf(r, Added(<<call>>)) =
           IF call.fp = Unkeyed \/ call.fp \notin applied
           THEN Cardinality(Places(call.rules, r)) ELSE 0
<1> DEFINE calls == <<call>>
           At == {s \in FreshSites(calls) : RuleAt(calls, s) = r}
<1>1. calls \in Seq(Call) /\ DOMAIN calls = {1} /\ calls[1] = call
  OBVIOUS
<1>2. CopiesOf(r, Added(calls)) = Cardinality(At)
  BY <1>1, AddedIsBag
<1>3. Fresh(calls, 1) <=> (call.fp = Unkeyed \/ call.fp \notin applied)
  BY <1>1 DEF Fresh
<1>4. CASE Fresh(calls, 1)
  <2>1. FreshSites(calls) = {1} \X (DOMAIN call.rules)
    BY <1>1, <1>4 DEF FreshSites, FreshCalls
  <2>2. At = {1} \X Places(call.rules, r)
    BY <1>1, <2>1 DEF RuleAt, Places
  <2>3. IsFiniteSet(Places(call.rules, r))
    BY ListPlaces, FS_Subset DEF Places, Call
  <2> QED BY <1>2, <1>3, <1>4, <2>2, <2>3, IndexedPlaces
<1>5. CASE ~Fresh(calls, 1)
  <2>1. FreshSites(calls) = {}
    BY <1>1, <1>5 DEF FreshSites, FreshCalls
  <2>2. Cardinality(At) = 0
    BY <2>1, FS_EmptySet
  <2> QED BY <1>2, <1>3, <1>5, <2>2
<1> QED BY <1>4, <1>5

(* No call brings nothing. *)
LEMMA NoCall ==
  ASSUME NEW r
  PROVE  CopiesOf(r, Added(<<>>)) = 0
<1>1. FreshSites(<<>>) = {}
  BY DEF FreshSites, FreshCalls
<1>2. DOMAIN Added(<<>>) = {}
  BY <1>1 DEF Added
<1> QED BY <1>2 DEF CopiesOf

(* Copies in a sum of bags. *)
LEMMA CopiesAdd ==
  ASSUME NEW A, NEW B, IsABag(A), IsABag(B), NEW r
  PROVE  /\ CopiesOf(r, A (+) B) = CopiesOf(r, A) + CopiesOf(r, B)
         /\ CopiesOf(r, A) \in Nat /\ CopiesOf(r, B) \in Nat
<1>1. \A C : CopiesOf(r, C) = Copies(r, C)
  BY DEF CopiesOf, Copies
<1> QED BY <1>1, SumCopies, CopiesType

(* A call without a fingerprint is counted among the plain contributions. *)
LEMMA PlainExact ==
  ASSUME ApiInv, CatchErrors = FALSE, Exact, NEW rules \in RuleLists, AddRules(rules)
  PROVE  Exact'
<1> DEFINE call == [fp |-> Unkeyed, rules |-> rules]
<1> SUFFICES ASSUME outcome' = "ok" PROVE LedgerExact' /\ IsFiniteSet(applied')
  BY DEF Exact
<1>1. call \in Call /\ <<call>> \in Seq(Call)
  BY RuleListsAssumption DEF Call
<1>2. outcome = "ok" /\ LedgerExact /\ IsFiniteSet(applied)
  BY DEF AddRules, AddSecurityListRules, Register, Collect, Refuse, Reuse, CanCall, Exact
<1>3. CASE Collect(<<call>>)
  <2>1. FingerprintsOf(<<call>>) = {}
    BY DEF FingerprintsOf
  <2>2. /\ lists' = lists (+) Added(<<call>>) /\ plain' = plain (+) BagOf(rules)
        /\ applied' = applied /\ finalized = FALSE /\ finalized' = FALSE
    BY <1>3, <2>1 DEF Collect, AddRules, ApiInv, VcnInv, VcnTypeOK
  <2> SUFFICES ASSUME NEW r \in Rule
               PROVE  CopiesOf(r, lists') = CopiesOf(r, BagOf(SeedRules)) + CopiesOf(r, plain')
                                              + KeyedCopies(r) + 0
    BY <1>2, <2>2 DEF LedgerExact, KeyedCopies
  <2>3. CopiesOf(r, lists) = CopiesOf(r, BagOf(SeedRules)) + CopiesOf(r, plain) + KeyedCopies(r) + 0
    BY <1>2, <2>2 DEF LedgerExact
  <2>4. IsABag(lists) /\ IsABag(plain) /\ IsABag(BagOf(rules)) /\ IsABag(Added(<<call>>))
        /\ IsABag(BagOf(SeedRules))
    BY <1>1, RuleListsAssumption, BagOfIsBag, AddedIsBag, FixedBags DEF ApiInv, VcnInv, VcnTypeOK
  <2>5. CopiesOf(r, Added(<<call>>)) = CopiesOf(r, BagOf(rules))
    <3>1. CopiesOf(r, Added(<<call>>)) = Cardinality(Places(rules, r))
      BY <1>1, SingleCall
    <3> QED BY <3>1, RuleListsAssumption, BagOfIsBag
  <2>6. /\ CopiesOf(r, lists') = CopiesOf(r, lists) + CopiesOf(r, BagOf(rules))
        /\ CopiesOf(r, plain') = CopiesOf(r, plain) + CopiesOf(r, BagOf(rules))
    BY <2>2, <2>4, <2>5, CopiesAdd
  <2>7. CopiesOf(r, lists) \in Nat /\ CopiesOf(r, plain) \in Nat /\ CopiesOf(r, BagOf(rules)) \in Nat
        /\ CopiesOf(r, BagOf(SeedRules)) \in Nat
    BY <2>4, CopiesAdd
  <2>8. KeyedCopies(r) \in Nat
    <3>1. KeyedCopies(r) = Cardinality(KeyedSites(applied, r))
      BY DEF KeyedCopies, KeyedSites
    <3> QED BY <1>2, <3>1, KeyedSitesSize DEF ApiInv, VcnInv, VcnTypeOK
  <2> QED BY <2>3, <2>6, <2>7, <2>8
<1>4. CASE Refuse(<<call>>) \/ Reuse(<<call>>)
  <2>1. UNCHANGED <<lists, applied, finalized, plain>>
    BY <1>4 DEF Refuse, Reuse, AddRules
  <2> QED BY <1>2, <2>1 DEF LedgerExact, KeyedCopies
<1> QED BY <1>3, <1>4 DEF AddRules, AddSecurityListRules, Register

(* A call with a fingerprint is counted once, the first time. *)
LEMMA UniqueExact ==
  ASSUME ApiInv, CatchErrors = FALSE, Exact, NEW fp \in Fingerprint, AddUniqueRules(fp)
  PROVE  Exact'
<1> DEFINE call == [fp |-> fp, rules |-> RulesOf[fp]]
<1> SUFFICES ASSUME outcome' = "ok" PROVE LedgerExact' /\ IsFiniteSet(applied')
  BY DEF Exact
<1>1. call \in Call /\ <<call>> \in Seq(Call) /\ call.fp # Unkeyed
  BY RulesOfAssumption, UnkeyedAssumption DEF Call
<1>2. outcome = "ok" /\ LedgerExact /\ IsFiniteSet(applied) /\ plain' = plain
  BY DEF AddUniqueRules, AddUniqueSecurityListRules, Register, Collect, Refuse, Reuse, CanCall, Exact
<1>3. CASE Collect(<<call>>)
  <2>1. FingerprintsOf(<<call>>) = {fp}
    BY <1>1 DEF FingerprintsOf
  <2>2. /\ lists' = lists (+) Added(<<call>>)
        /\ applied' = applied \cup {fp} /\ finalized = FALSE /\ finalized' = FALSE
    BY <1>3, <2>1 DEF Collect, ApiInv, VcnInv, VcnTypeOK
  <2>3. IsFiniteSet(applied')
    BY <1>2, <2>2, FS_AddElement
  <2> SUFFICES ASSUME NEW r \in Rule
               PROVE  CopiesOf(r, lists') = CopiesOf(r, BagOf(SeedRules)) + CopiesOf(r, plain)
                                              + KeyedCopies(r)' + 0
    BY <1>2, <2>2, <2>3 DEF LedgerExact
  <2>4. CopiesOf(r, lists) = CopiesOf(r, BagOf(SeedRules)) + CopiesOf(r, plain) + KeyedCopies(r) + 0
    BY <1>2, <2>2 DEF LedgerExact
  <2>5. IsABag(lists) /\ IsABag(plain) /\ IsABag(Added(<<call>>)) /\ IsABag(BagOf(SeedRules))
    BY <1>1, AddedIsBag, FixedBags DEF ApiInv, VcnInv, VcnTypeOK
  <2>6. CopiesOf(r, lists') = CopiesOf(r, lists) + CopiesOf(r, Added(<<call>>))
    BY <2>2, <2>5, CopiesAdd
  <2>7. CopiesOf(r, lists) \in Nat /\ CopiesOf(r, plain) \in Nat
        /\ CopiesOf(r, BagOf(SeedRules)) \in Nat /\ CopiesOf(r, Added(<<call>>)) \in Nat
    BY <2>5, CopiesAdd
  <2>8. /\ KeyedCopies(r) = Cardinality(KeyedSites(applied, r))
        /\ KeyedCopies(r)' = Cardinality(KeyedSites(applied', r))
    BY DEF KeyedCopies, KeyedSites
  <2>9. applied \subseteq Fingerprint
    BY DEF ApiInv, VcnInv, VcnTypeOK
  <2>10. CopiesOf(r, Added(<<call>>)) =
           IF fp \notin applied THEN Cardinality(Places(RulesOf[fp], r)) ELSE 0
    BY <1>1, SingleCall
  <2>11. KeyedCopies(r) \in Nat
    BY <1>2, <2>8, <2>9, KeyedSitesSize
  <2>12. CASE fp \in applied
    <3>1. applied' = applied
      BY <2>2, <2>12
    <3>2. KeyedCopies(r)' = KeyedCopies(r)
      BY <2>8, <3>1
    <3> QED BY <2>4, <2>6, <2>7, <2>10, <2>11, <2>12, <3>2
  <2>13. CASE fp \notin applied
    <3>1. KeyedCopies(r)' = KeyedCopies(r) + Cardinality(Places(RulesOf[fp], r))
      BY <1>2, <2>2, <2>8, <2>9, <2>13, KeyedSitesGrow
    <3> QED BY <2>4, <2>6, <2>7, <2>10, <2>11, <2>13, <3>1
  <2> QED BY <2>12, <2>13
<1>4. CASE Refuse(<<call>>)
  BY <1>4 DEF Refuse
<1>5. CASE Reuse(<<call>>)
  <2>1. UNCHANGED <<lists, applied, finalized, plain>>
    BY <1>2, <1>5 DEF Reuse
  <2> QED BY <1>2, <2>1 DEF LedgerExact, KeyedCopies
<1> QED BY <1>3, <1>4, <1>5 DEF AddUniqueRules, AddUniqueSecurityListRules, Register

(* finalize_network brings the baseline, once. *)
LEMMA FinalizeExact ==
  ASSUME ApiInv, CatchErrors = FALSE, Exact, Finalize
  PROVE  Exact'
<1> SUFFICES ASSUME outcome' = "ok" PROVE LedgerExact' /\ IsFiniteSet(applied')
  BY DEF Exact
<1>1. outcome = "ok" /\ LedgerExact /\ IsFiniteSet(applied) /\ plain' = plain
  BY DEF Finalize, FinalizeNetwork, RegisterAndFinalize, Materialise, Refuse, Reuse, CanCall, Exact
<1>2. CASE Materialise(<<>>)
  <2>1. FingerprintsOf(<<>>) = {}
    BY DEF FingerprintsOf
  <2>2. /\ lists' = (lists (+) Added(<<>>)) (+) BagOf(BaselineRules)
        /\ applied' = applied /\ finalized = FALSE /\ finalized' = TRUE
    BY <1>2, <2>1 DEF Materialise, ApiInv, VcnInv, VcnTypeOK
  <2> SUFFICES ASSUME NEW r \in Rule
               PROVE  CopiesOf(r, lists') = CopiesOf(r, BagOf(SeedRules)) + CopiesOf(r, plain)
                                              + KeyedCopies(r) + CopiesOf(r, BagOf(BaselineRules))
    BY <1>1, <2>2 DEF LedgerExact, KeyedCopies
  <2>3. CopiesOf(r, lists) = CopiesOf(r, BagOf(SeedRules)) + CopiesOf(r, plain) + KeyedCopies(r) + 0
    BY <1>1, <2>2 DEF LedgerExact
  <2>4. IsABag(lists) /\ IsABag(plain) /\ IsABag(Added(<<>>)) /\ IsABag(BagOf(BaselineRules))
        /\ IsABag(BagOf(SeedRules)) /\ IsABag(lists (+) Added(<<>>))
    BY MethodCalls, AddedIsBag, FixedBags, BagSum DEF ApiInv, VcnInv, VcnTypeOK
  <2>5. CopiesOf(r, lists (+) Added(<<>>)) = CopiesOf(r, lists) + 0
    BY <2>4, CopiesAdd, NoCall
  <2>6. CopiesOf(r, lists') = CopiesOf(r, lists (+) Added(<<>>)) + CopiesOf(r, BagOf(BaselineRules))
    BY <2>2, <2>4, CopiesAdd
  <2>7. CopiesOf(r, lists) \in Nat /\ CopiesOf(r, plain) \in Nat
        /\ CopiesOf(r, BagOf(SeedRules)) \in Nat /\ CopiesOf(r, BagOf(BaselineRules)) \in Nat
    BY <2>4, CopiesAdd
  <2>8. KeyedCopies(r) \in Nat
    <3>1. KeyedCopies(r) = Cardinality(KeyedSites(applied, r))
      BY DEF KeyedCopies, KeyedSites
    <3> QED BY <1>1, <3>1, KeyedSitesSize DEF ApiInv, VcnInv, VcnTypeOK
  <2> QED BY <2>3, <2>5, <2>6, <2>7, <2>8
<1>3. CASE Refuse(<<>>)
  BY <1>3 DEF Refuse
<1>4. CASE Reuse(<<>>)
  <2>1. UNCHANGED <<lists, applied, finalized, plain>>
    BY <1>1, <1>4 DEF Reuse
  <2> QED BY <1>1, <2>1 DEF LedgerExact, KeyedCopies
<1> QED BY <1>2, <1>3, <1>4 DEF Finalize, FinalizeNetwork, RegisterAndFinalize

(* A new Vcn holds its seed rules. *)
LEMMA InitExact == Init => Exact
<1> SUFFICES ASSUME Init PROVE LedgerExact /\ IsFiniteSet(applied)
  BY DEF Exact
<1>1. lists = BagOf(SeedRules) /\ applied = {} /\ finalized = FALSE /\ plain = EmptyBag
  BY DEF Init, VcnInit
<1> SUFFICES ASSUME NEW r \in Rule
             PROVE  CopiesOf(r, lists) = CopiesOf(r, BagOf(SeedRules)) + CopiesOf(r, plain)
                                           + KeyedCopies(r) + 0
  BY <1>1, FS_EmptySet DEF LedgerExact
<1>2. CopiesOf(r, plain) = 0
  BY <1>1 DEF CopiesOf, EmptyBag, SetToBag
<1>3. KeyedCopies(r) = 0
  <2>1. {s \in UNION {{fp} \X (DOMAIN RulesOf[fp]) : fp \in applied} : RulesOf[s[1]][s[2]] = r} = {}
    BY <1>1
  <2> QED BY <2>1, FS_EmptySet DEF KeyedCopies
<1>4. CopiesOf(r, lists) \in Nat
  BY <1>1, FixedBags, CopiesAdd
<1> QED BY <1>1, <1>2, <1>3, <1>4

(* The lists are a function of what was contributed, never of the order of the
   calls or of how many spells registered a fingerprint: no rule is lost, none
   is added twice, and the baseline is injected once. *)
THEOREM LedgerIsExact ==
  ASSUME CatchErrors = FALSE
  PROVE  Spec => []LedgerExact
<1>1. ApiInv /\ Exact /\ [Next]_apiVars => Exact'
  <2> SUFFICES ASSUME ApiInv, Exact, [Next]_apiVars PROVE Exact'
    OBVIOUS
  <2>1. CASE \E rules \in RuleLists : AddRules(rules)
    BY <2>1, PlainExact
  <2>2. CASE \E fp \in Fingerprint : AddUniqueRules(fp)
    BY <2>2, UniqueExact
  <2>3. CASE Finalize
    BY <2>3, FinalizeExact
  <2>4. CASE UNCHANGED apiVars
    BY <2>4 DEF apiVars, Exact, LedgerExact, KeyedCopies
  <2> QED BY <2>1, <2>2, <2>3, <2>4 DEF Next
<1>2. Exact => LedgerExact
  BY DEF Exact, LedgerExact
<1> QED BY <1>1, <1>2, InitExact, ApiInvariant, PTL DEF Spec
=============================================================================
