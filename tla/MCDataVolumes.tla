--------------------------- MODULE MCDataVolumes ----------------------------
(* A small instance of DataVolumes: three labels, lists of up to three. *)
EXTENDS DataVolumes, TLC

CONSTANTS data, logs, db

LabelNames == {data, logs, db}
Symmetry   == Permutations(LabelNames)
=============================================================================
