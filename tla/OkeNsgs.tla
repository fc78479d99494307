------------------------------- MODULE OkeNsgs -------------------------------
(***************************************************************************)
(* The interface layer of an OKE cluster (providers/oci/kubernetes.py):    *)
(* four network security groups and the rules between them.  The API       *)
(* endpoint and the load balancers sit in the public subnet, workers and   *)
(* pods share the private one, so only these rules tell the last two apart *)
(* (docs/reference/oke-architecture.md).                                   *)
(***************************************************************************)
EXTENDS SecurityRules

(* _create_oke_nsgs, with the subnet the cluster attaches each group in. *)
OkeNsgs == {"api", "lb", "worker", "pod"}

OkeTier(nsg) == IF nsg \in {"api", "lb"} THEN "public" ELSE "private"

(* One rule of a group, made by _r: AnyPort stands for protocol ALL. *)
NsgRule(nsg, dir, port, peer) == [nsg |-> nsg, dir |-> dir, port |-> port, peer |-> peer]

NsgIn(nsg, ports, peers) == {NsgRule(nsg, "ingress", p, q) : p \in ports, q \in peers}

NsgOut(nsg, ports, peers) == {NsgRule(nsg, "egress", p, q) : p \in ports, q \in peers}

ApiPorts  == {6443, 12250}
All       == {AnyPort}

(* _add_api_nsg_rules; without kubectl_allowed_cidrs nobody outside the cluster
   reaches the endpoint. *)
ApiNsgRules(kubectl) ==
  NsgIn("api", ApiPorts, {"worker", "pod"})
    \cup (IF kubectl THEN NsgIn("api", {6443}, {"kubectl"}) ELSE {})
    \cup NsgOut("api", All, {"services", "pod"}) \cup NsgOut("api", {10250}, {"worker"})

(* _add_lb_nsg_rules *)
LbNsgRules ==
  NsgIn("lb", {HTTPS, HTTP}, {"internet"}) \cup NsgOut("lb", {NodePorts, 10256}, {"worker"})

(* _add_worker_nsg_rules *)
WorkerNsgRules ==
  NsgIn("worker", {10250}, {"api"}) \cup NsgIn("worker", {NodePorts, 10256}, {"lb"})
    \cup NsgIn("worker", All, {"pod", "worker"})
    \cup NsgOut("worker", ApiPorts, {"api"}) \cup NsgOut("worker", All, {"services", "pod", "worker"})
    \cup NsgOut("worker", {HTTPS, HTTP}, {"internet"})

(* _add_pod_nsg_rules *)
PodNsgRules ==
  NsgIn("pod", All, {"api", "worker", "pod"})
    \cup NsgOut("pod", All, {"pod", "worker", "services"}) \cup NsgOut("pod", ApiPorts, {"api"})
    \cup NsgOut("pod", {HTTPS, HTTP}, {"internet"})

OkeNsgRules(kubectl) == ApiNsgRules(kubectl) \cup LbNsgRules \cup WorkerNsgRules \cup PodNsgRules

-----------------------------------------------------------------------------

(* The rule at the other end of a rule between two groups. *)
Mirror(r) ==
  NsgRule(r.peer, IF r.dir = "egress" THEN "ingress" ELSE "egress", r.port, r.nsg)

(* Both ends of every channel between two groups were written. *)
Reciprocal(rules) == \A r \in rules : r.peer \in OkeNsgs => Mirror(r) \in rules

(* What a rule asks of the security lists of its own subnet: nothing between
   groups of one subnet, otherwise its port to the other end's subnet or CIDR. *)
SubnetPeer(r) == IF r.peer \in OkeNsgs THEN OkeTier(r.peer) ELSE r.peer

AdmittedBySubnet(r, lists) ==
  \/ SubnetPeer(r) = OkeTier(r.nsg)
  \/ Admits(lists, r.dir, OkeTier(r.nsg), r.port, SubnetPeer(r))
=============================================================================
