-------------------------- MODULE MCSpellTemplates --------------------------
(* The shipped programs, over a few application and database ports. *)
EXTENDS SpellTemplates

(* The programs' own ports, and the two that web_db.py falls back to. *)
ScriptPorts == {22, 80, 443, 5432, 8080}

(* The constants hold what the programs name. *)
ASSUME ConstantsAssumption == ScriptUses

(* Every program but the bastion template, which never runs to its end. *)
Programs == ScriptNames \ {"bastion"}
=============================================================================
