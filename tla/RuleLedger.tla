----------------------------- MODULE RuleLedger -----------------------------
(***************************************************************************)
(* What a Vcn promises the spells that share it, with every mechanism left *)
(* out: security rules are only ever added to a ledger, the ledger is      *)
(* sealed once, what is deployed is the ledger at the moment it is sealed, *)
(* and from then on neither the ledger nor the deployment changes.         *)
(*                                                                         *)
(* VcnBuilder, and every program of spells built on it, implements this    *)
(* specification (class Vcn of providers/oci/network.py).                  *)
(***************************************************************************)
EXTENDS Bags

VARIABLES
  content,   \* bag of the rules collected so far
  sealed,    \* has the ledger been materialised?
  deployed   \* bag of the rules that were materialised

ledgerVars == <<content, sealed, deployed>>

Init ==
  /\ IsABag(content)
  /\ sealed   = FALSE
  /\ deployed = EmptyBag

(* Rules join an open ledger; none is withdrawn. *)
Contribute ==
  /\ ~sealed
  /\ IsABag(content')
  /\ content \sqsubseteq content'
  /\ UNCHANGED <<sealed, deployed>>

(* The last contribution may come with the sealing itself. *)
Seal ==
  /\ ~sealed
  /\ IsABag(content')
  /\ content \sqsubseteq content'
  /\ sealed'   = TRUE
  /\ deployed' = content'

Next == Contribute \/ Seal

Spec == Init /\ [][Next]_ledgerVars
=============================================================================
