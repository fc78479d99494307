------------------------------ MODULE MCVcnApi ------------------------------
(* Small instance of VcnApi: three rules, three fingerprints; two share a rule
   with each other, with the baseline and with plain contributions. *)
EXTENDS VcnApi

CONSTANTS r1, r2, r3, f1, f2, f3

MCRule        == {r1, r2, r3}
MCFingerprint == {f1, f2, f3}
MCSeed        == <<r1>>
MCBaseline    == <<r2>>
MCRulesOf     == [fp \in MCFingerprint |->
                    IF fp = f1 THEN <<r1>> ELSE IF fp = f2 THEN <<r1, r2>> ELSE <<r3>>]
MCRuleLists   == {<<>>, <<r1>>, <<r2, r2>>, <<r3, r1>>}
=============================================================================
