--------------------------- MODULE MCVcnTopology ----------------------------
(* Addresses of Width bits; every CIDR of every prefix length, with and
   without host bits, is requested. *)
EXTENDS VcnTopology

CONSTANT Width  \* bound: bits of an address

Block(base, size) == [base |-> base, size |-> size]

Everything == Block(0, 2 ^ Width)
AllCidrs   == {Block(b, 2 ^ p) : b \in 0 .. (2 ^ Width - 1), p \in 0 .. Width}

(* One on-premise network, and two of different sizes. *)
Premises == {<<>>, <<Block(0, 4)>>, <<Block(16, 8), Block(4, 2)>>}

Services == Block(2 ^ Width - 4, 2)
=============================================================================
