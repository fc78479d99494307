--------------------------- MODULE StackLifecycle ---------------------------
(***************************************************************************)
(* One stack directory under the commands cs new | up | destroy | refresh  *)
(* | status | stack rm (cloudspells/cli/commands), holding a program with  *)
(* a ScalableWorkload (providers/oci/autoscale.py), an OkeCluster          *)
(* (providers/oci/kubernetes.py) or a Vcn alone.                           *)
(*                                                                         *)
(* A command is a sequence of steps that a failure or a kill separates:    *)
(* one file written, one resource created or deleted.  The Pulumi engine,  *)
(* external, registers a resource once those it depends on are there and   *)
(* deletes one once nothing recorded depends on it.  It locks the stack,   *)
(* so that there is one command at a time on each backend's.  cs new       *)
(* writes plain files, holds no lock and runs beside everything else; so   *)
(* do the program's author and OCI's autoscaler.                           *)
(***************************************************************************)
EXTENDS PoolCapacity, FiniteSets

CONSTANTS
  Spells,     \* spells a directory may be made for
  MaxClashes  \* bound, for each: times --force is given while something is deployed, and
              \* backends on which an up overtakes cs new

ASSUME SpellsAssumption == Spells \subseteq {"workload", "oke", "vcn"} /\ MaxClashes \in [Spells -> Nat]

Backends == {"local", "remote"}

(* Parts of the program that its author changes: a workload's HTTPS listener, a
   cluster's second node pool or a network's flow logs, and a workload's scaling
   policy. *)
Policies == {"none", "metric", "schedule"}
Program  ==
  {p \in [spell : Spells, extra : BOOLEAN, policy : Policies] : p.spell # "workload" => p.policy = "none"}

(* The template of cs new: none of the extra parts, the default scaling policy. *)
Template(spell) ==
  [spell |-> spell, extra |-> FALSE, policy |-> IF spell = "workload" THEN "metric" ELSE "none"]

NoProgram == [spell |-> "none", extra |-> FALSE, policy |-> "none"]

VARIABLES
  program,    \* what __main__.py declares
  directory,  \* backend that Pulumi.yaml names ("none" without the file); main: __main__.py is there
  made,       \* the directory exists
  stacks,     \* backends that have the Pulumi stack
  tracked,    \* resources in the state of each backend's stack, which are live in OCI
  deps,       \* the dependencies recorded with each of them
  size,       \* instances in the pool
  recorded,   \* the size in the Pulumi state
  scaler,     \* scaling policy of the autoscaling configuration
  refreshed,  \* history: backends where a refresh has read the size that the pool has
              \* had since an up last set it
  scaffold,   \* the file that cs new writes next, and the backend it was given
  command,    \* the command that runs on each backend's stack, and the program it has read
  done,       \* resources that each running up has registered
  forced,     \* history: times --force was given while something was deployed
  overtaken,  \* history: backends where an up began while cs new was writing
  orphans     \* history: the state of live resources was removed

files   == <<program, directory, made>>
cloud   == <<tracked, deps, size, recorded, scaler, refreshed>>
history == <<forced, overtaken, orphans>>
vars    == <<files, stacks, cloud, scaffold, command, done, history>>

Idle    == [op |-> "idle", flag |-> FALSE, program |-> NoProgram]
Command == [op : {"idle", "up", "destroy", "refresh"}, flag : BOOLEAN, program : Program \cup {NoProgram}]

-----------------------------------------------------------------------------
(* What a program declares, and what each resource waits for. *)

Listeners(p) == {"http"} \cup (IF p.extra THEN {"https"} ELSE {})
NsgRules     == {"api-rules", "lb-rules", "worker-rules", "pod-rules"}

WantedByWorkload(p) ==
  {"network", "lb", "bs", "ic", "pool"} \cup Listeners(p)
    \cup (IF p.policy # "none" THEN {"asc"} ELSE {})

WantedByOke(p) ==
  {"network", "nsgs", "cluster", "pool-1"} \cup NsgRules \cup (IF p.extra THEN {"pool-2"} ELSE {})

WantedByVcn(p) == {"network"} \cup (IF p.extra THEN {"logs"} ELSE {})

Wanted(p) ==
  CASE p.spell = "workload" -> WantedByWorkload(p)
    [] p.spell = "oke"      -> WantedByOke(p)
    [] OTHER                -> WantedByVcn(p)

Resources ==
  {"network", "lb", "bs", "ic", "pool", "http", "https", "asc",
   "nsgs", "cluster", "pool-1", "pool-2", "logs"} \cup NsgRules

(* Fault: the pool does not wait for the listeners. *)
WorkloadNeedsNoListeners(p, r) ==
  CASE r \in {"lb", "ic"}         -> {"network"}
    [] r = "bs"                   -> {"lb"}
    [] r \in {"http", "https"}    -> {"lb", "bs"}
    [] r = "pool"                 -> {"network", "lb", "bs", "ic"}
    [] r = "asc"                  -> {"pool"}
    [] OTHER                      -> {}

(* Fault: the listeners wait for the pool they lead to. *)
WorkloadNeedsCircular(p, r) ==
  CASE r \in {"lb", "ic"}         -> {"network"}
    [] r = "bs"                   -> {"lb"}
    [] r \in {"http", "https"}    -> {"lb", "bs", "pool"}
    [] r = "pool"                 -> {"network", "lb", "bs", "ic"} \cup Listeners(p)
    [] r = "asc"                  -> {"pool"}
    [] OTHER                      -> {}

(* Outputs a resource takes as inputs, and depends_on. *)
WorkloadNeeds(p, r) ==
  CASE r \in {"lb", "ic"}         -> {"network"}
    [] r = "bs"                   -> {"lb"}
    [] r \in {"http", "https"}    -> {"lb", "bs"}
    [] r = "pool"                 -> {"network", "lb", "bs", "ic"} \cup Listeners(p)
    [] r = "asc"                  -> {"pool"}
    [] OTHER                      -> {}

OkeNeeds(r) ==
  CASE r = "nsgs"                 -> {"network"}
    [] r \in NsgRules             -> {"nsgs"}
    [] r = "cluster"              -> {"network", "nsgs"} \cup NsgRules
    [] r \in {"pool-1", "pool-2"} -> {"network", "nsgs", "cluster"} \cup NsgRules
    [] OTHER                      -> {}

VcnNeeds(r) == IF r = "logs" THEN {"network"} ELSE {}

Needs(p, r) ==
  CASE p.spell = "workload" -> WorkloadNeeds(p, r)
    [] p.spell = "oke"      -> OkeNeeds(r)
    [] OTHER                -> VcnNeeds(r)

-----------------------------------------------------------------------------

Init ==
  /\ program \in {Template(s) : s \in Spells}
  /\ directory = [backend |-> "none", main |-> FALSE]
  /\ made = FALSE
  /\ stacks   = {}
  /\ tracked  = [b \in Backends |-> {}]
  /\ deps     = [b \in Backends |-> [r \in Resources |-> {}]]
  /\ size     = [b \in Backends |-> 0]
  /\ recorded = [b \in Backends |-> 0]
  /\ scaler   = [b \in Backends |-> "none"]
  /\ refreshed = {}
  /\ scaffold = [next |-> "nothing", backend |-> "local"]
  /\ command  = [b \in Backends |-> Idle]
  /\ done     = [b \in Backends |-> {}]
  /\ forced = 0 /\ overtaken = {} /\ orphans = FALSE

(* The state no longer has the resources rs. *)
Forget(b, rs) ==
  /\ tracked'  = [tracked EXCEPT ![b] = @ \ rs]
  /\ deps'     = [deps EXCEPT ![b] = [r \in Resources |-> IF r \in rs THEN {} ELSE @[r]]]
  /\ size'     = IF "pool" \in rs THEN [size EXCEPT ![b] = 0] ELSE size
  /\ recorded' = IF "pool" \in rs THEN [recorded EXCEPT ![b] = 0] ELSE recorded
  /\ scaler'   = IF "asc" \in rs THEN [scaler EXCEPT ![b] = "none"] ELSE scaler
  /\ refreshed' = IF "pool" \in rs THEN refreshed \ {b} ELSE refreshed

(* Resources are live, or an update is about to create some. *)
AtStake == \E b \in Backends : tracked[b] # {} \/ command[b].op = "up"

MayClash == forced + Cardinality(overtaken) < MaxClashes[program.spell]

(* --force counts when there is something to lose. *)
CountForce(force, atStake) ==
  IF force /\ atStake THEN MayClash /\ forced' = forced + 1 ELSE UNCHANGED forced

(* The command returns, or an exception or a kill ends it. *)
End(b) ==
  /\ command' = [command EXCEPT ![b] = Idle]
  /\ done'    = [done EXCEPT ![b] = {}]

(* An edit while an up runs is as one right after it: the up has read its program. *)
EditProgram ==
  /\ directory.main
  /\ \A b \in Backends : command[b].op # "up"
  /\ program' \in {p \in Program \ {program} : p.spell = program.spell}
  /\ UNCHANGED <<directory, made, stacks, cloud, scaffold, command, done, history>>

(***************************************************************************)
(* cs new [--backend] [--force]                                            *)
(***************************************************************************)

(* Fault: an existing directory is scaffolded again. *)
NewAnyway(b, force) ==
  /\ scaffold.next = "nothing"
  /\ made' = TRUE
  /\ scaffold' = [next |-> "yaml", backend |-> b]
  /\ CountForce(force, AtStake)
  /\ UNCHANGED <<program, directory, stacks, cloud, command, done, overtaken, orphans>>

(* Bound: one cs new at a time. *)
New(b, force) ==
  /\ scaffold.next = "nothing"
  /\ force \/ ~made
  /\ made' = TRUE
  /\ scaffold' = [next |-> "yaml", backend |-> b]
  /\ CountForce(force, AtStake)
  /\ UNCHANGED <<program, directory, stacks, cloud, command, done, overtaken, orphans>>

(* The template's Pulumi.yaml has no backend: the local one. *)
WriteYaml ==
  /\ scaffold.next = "yaml"
  /\ directory' = [directory EXCEPT !.backend = "local"]
  /\ scaffold'  = [scaffold EXCEPT !.next = "main"]
  /\ UNCHANGED <<program, made, stacks, cloud, command, done, history>>

WriteMain ==
  /\ scaffold.next = "main"
  /\ directory' = [directory EXCEPT !.main = TRUE]
  /\ program'   = Template(program.spell)
  /\ scaffold'  = [scaffold EXCEPT !.next = "backend"]
  /\ UNCHANGED <<made, stacks, cloud, command, done, history>>

(* _inject_backend_url, when --backend is given, is the last write. *)
InjectBackendUrl ==
  /\ scaffold.next = "backend"
  /\ directory' = [directory EXCEPT !.backend = scaffold.backend]
  /\ scaffold'  = [scaffold EXCEPT !.next = "nothing", !.backend = "local"]
  /\ UNCHANGED <<program, made, stacks, cloud, command, done, history>>

(* A kill between two writes. *)
NewStops ==
  /\ scaffold.next # "nothing"
  /\ scaffold' = [scaffold EXCEPT !.next = "nothing", !.backend = "local"]
  /\ UNCHANGED <<files, stacks, cloud, command, done, history>>

(***************************************************************************)
(* Commands on the stack.  Each needs Pulumi.yaml and begins with          *)
(* get_stack, which creates the stack when there is none.                  *)
(***************************************************************************)

GetStack ==
  /\ directory.backend \in Backends
  /\ stacks' = stacks \cup {directory.backend}

(* cs up, destroy [--remove] and refresh.  Pulumi refuses a stack that another
   command has locked, and an up without a program; an up reads the program once. *)
StartCommand(op, flag) ==
  LET b == directory.backend IN
  /\ GetStack
  /\ command[b] = Idle
  /\ op = "up" => directory.main
  /\ command' = [command EXCEPT ![b] =
                   [op |-> op, flag |-> flag, program |-> IF op = "up" THEN program ELSE NoProgram]]
  /\ IF op = "up" /\ scaffold.next # "nothing" /\ b \notin overtaken
     THEN MayClash /\ overtaken' = overtaken \cup {b}
     ELSE UNCHANGED overtaken
  /\ UNCHANGED <<files, cloud, scaffold, done, forced, orphans>>

(* cs status, cs up --preview, and the commands above when they fail at once, for
   one because cs new has changed the backend while they asked for confirmation. *)
Look ==
  /\ GetStack
  /\ UNCHANGED <<files, cloud, scaffold, command, done, history>>

(* cs stack rm [--force]: Pulumi refuses to remove a locked stack, and the state
   of resources without --force; a refused one has done what Look does. *)
StackRm(force) ==
  LET b == directory.backend IN
  /\ b \in Backends
  /\ command[b] = Idle
  /\ force \/ tracked[b] = {}
  /\ stacks'  = stacks \ {b}
  /\ Forget(b, tracked[b])
  /\ orphans' = (orphans \/ tracked[b] # {})
  /\ CountForce(force, tracked[b] # {})
  /\ UNCHANGED <<files, scaffold, command, done, overtaken>>

(***************************************************************************)
(* The engine                                                              *)
(***************************************************************************)

(* Fault: the declared size is compared with the live one. *)
ResizePoolLive(b, r) ==
  IF r = "pool" /\ ("pool" \notin tracked[b] \/ size[b] # InitialInstances)
  THEN /\ size'      = [size EXCEPT ![b] = InitialInstances]
       /\ recorded'  = [recorded EXCEPT ![b] = InitialInstances]
       /\ refreshed' = refreshed \ {b}
  ELSE UNCHANGED <<size, recorded, refreshed>>

(* Pulumi compares the declared size with the recorded one and not with the
   live one: a pool whose size a refresh has recorded goes back to the initial
   size. *)
ResizePool(b, r) ==
  IF r = "pool" /\ ("pool" \notin tracked[b] \/ recorded[b] # InitialInstances)
  THEN /\ size'      = [size EXCEPT ![b] = InitialInstances]
       /\ recorded'  = [recorded EXCEPT ![b] = InitialInstances]
       /\ refreshed' = refreshed \ {b}
  ELSE UNCHANGED <<size, recorded, refreshed>>

(* Create a resource, or bring the one there up to date. *)
Register(b, r) ==
  LET p == command[b].program IN
  /\ command[b].op = "up"
  /\ r \in Wanted(p) \ done[b]
  /\ Needs(p, r) \subseteq done[b]
  /\ done'    = [done EXCEPT ![b] = @ \cup {r}]
  /\ tracked' = [tracked EXCEPT ![b] = @ \cup {r}]
  /\ deps'    = [deps EXCEPT ![b][r] = Needs(p, r)]
  /\ scaler'  = IF r = "asc" THEN [scaler EXCEPT ![b] = p.policy] ELSE scaler
  /\ ResizePool(b, r)
  /\ UNCHANGED <<files, stacks, scaffold, command, history>>

(* What the running command still has to delete. *)
Doomed(b, r) ==
  LET wanted == Wanted(command[b].program) IN
  /\ r \in tracked[b]
  /\ \/ command[b].op = "destroy"
     \/ command[b].op = "up" /\ wanted \subseteq done[b] /\ r \notin wanted

NothingDoomed(b) == \A r \in tracked[b] : ~Doomed(b, r)

(* Nothing in the state depends on the resource. *)
Removable(b, r) == \A s \in tracked[b] : r \notin deps[b][s]

Delete(b, r) ==
  /\ Doomed(b, r)
  /\ Removable(b, r)
  /\ Forget(b, {r})
  /\ UNCHANGED <<files, stacks, scaffold, command, done, history>>

(* Refresh reads the live size; it creates and deletes nothing. *)
Refresh(b) ==
  /\ command[b].op = "refresh"
  /\ IF "pool" \in tracked[b]
     THEN recorded' = [recorded EXCEPT ![b] = size[b]] /\ refreshed' = refreshed \cup {b}
     ELSE UNCHANGED <<recorded, refreshed>>
  /\ End(b)
  /\ UNCHANGED <<files, stacks, tracked, deps, size, scaler, scaffold, history>>

UpReturns(b) ==
  /\ command[b].op = "up"
  /\ Wanted(command[b].program) \subseteq done[b] /\ NothingDoomed(b)
  /\ End(b)
  /\ UNCHANGED <<files, stacks, cloud, scaffold, history>>

(* Fault: the stack is removed with what a destroy that failed has left in it. *)
DestroyReturnsAnyway(b) ==
  /\ command[b].op = "destroy"
  /\ stacks' = IF command[b].flag THEN stacks \ {b} ELSE stacks
  /\ End(b)
  /\ UNCHANGED <<files, cloud, scaffold, history>>

(* After a destroy that succeeded --remove removes the stack that Pulumi.yaml now
   leads to, if Pulumi lets it. *)
DestroyReturns(b) ==
  LET now == directory.backend IN
  /\ command[b].op = "destroy" /\ NothingDoomed(b)
  /\ stacks' = IF command[b].flag /\ tracked[now] = {} /\ (now # b => command[now] = Idle)
                THEN stacks \ {now} ELSE stacks
  /\ End(b)
  /\ UNCHANGED <<files, cloud, scaffold, history>>

(* The command fails or is killed: what was done stays. *)
CommandStops(b) ==
  /\ command[b] # Idle
  /\ End(b)
  /\ UNCHANGED <<files, stacks, cloud, scaffold, history>>

(* OCI's autoscaler changes the size of the pool. *)
Autoscale(b) ==
  /\ {"pool", "asc"} \subseteq tracked[b]
  /\ \/ /\ scaler[b] = "metric"
        /\ \E step \in ScaleSteps : size' = [size EXCEPT ![b] = MetricSize(size[b], step)]
     \/ /\ scaler[b] = "schedule"
        /\ \E e \in Schedules : size' = [size EXCEPT ![b] = ScheduledCapacity(e).initial]
  /\ UNCHANGED <<files, stacks, tracked, deps, recorded, scaler, refreshed, scaffold, command, done, history>>

(* The next step of a command. *)
Step(b) ==
  \/ \E r \in Resources : Register(b, r) \/ Delete(b, r)
  \/ Refresh(b) \/ UpReturns(b) \/ DestroyReturns(b)

(* What happens to the files, by cs new and the author. *)
Write == WriteYaml \/ WriteMain \/ InjectBackendUrl \/ NewStops \/ EditProgram

Next ==
  \/ \E b \in Backends, force \in BOOLEAN : New(b, force)
  \/ Write
  \/ \E flag \in BOOLEAN : StartCommand("destroy", flag)
  \/ \E op \in {"up", "refresh"} : StartCommand(op, FALSE)
  \/ Look
  \/ \E force \in BOOLEAN : StackRm(force)
  \/ \E b \in Backends : Step(b) \/ CommandStops(b) \/ Autoscale(b)

Spec     == Init /\ [][Next]_vars
FairSpec == Spec /\ \A b \in Backends : WF_vars(Step(b))

-----------------------------------------------------------------------------

(* Values of the variables; resources are in the state of a stack that exists. *)
TypeOK ==
  /\ program \in Program
  /\ directory \in [backend : Backends \cup {"none"}, main : BOOLEAN]
  /\ directory.main => directory.backend # "none"
  /\ made \in BOOLEAN /\ (directory.backend # "none" => made)
  /\ tracked \in [Backends -> SUBSET Resources]
  /\ deps \in [Backends -> [Resources -> SUBSET Resources]]
  /\ stacks \subseteq Backends /\ \A b \in Backends : tracked[b] # {} => b \in stacks
  /\ size \in [Backends -> Nat] /\ recorded \in [Backends -> Nat]
  /\ scaler \in [Backends -> Policies]
  /\ refreshed \subseteq Backends
  /\ scaffold \in [next : {"nothing", "yaml", "main", "backend"}, backend : Backends]
  /\ command \in [Backends -> Command]
  /\ done \in [Backends -> SUBSET Resources]
  /\ forced \in Nat /\ overtaken \subseteq Backends /\ orphans \in BOOLEAN

(* A pool of servers is never live without what it needs to be reached and to
   work: OCI "rejects pool attachment when the backend set or listeners are not
   yet live" (autoscale.py), and the NSG rules must exist "before any node tries
   to reach the API, the load balancer, or another node" (kubernetes.py).  This
   holds after every stopped update and destroy. *)
ServersReady ==
  \A b \in Backends :
    /\ "pool" \in tracked[b] => {"network", "lb", "bs", "http", "ic"} \subseteq tracked[b]
    /\ "asc" \in tracked[b] => "pool" \in tracked[b]
    /\ tracked[b] \cap {"cluster", "pool-1", "pool-2"} # {} => {"network", "nsgs"} \cup NsgRules \subseteq tracked[b]
    /\ tracked[b] \cap {"pool-1", "pool-2"} # {} => "cluster" \in tracked[b]
    /\ command[b].op = "up" /\ "pool" \in done[b] => Listeners(command[b].program) \subseteq tracked[b]

(* Live resources are in the state of the stack that the directory's Pulumi.yaml
   leads to, where destroy finds them, unless --force was given while something
   was deployed, or an up was begun on their backend before cs new had written its
   last file: cs new takes no lock, and nothing tells either of them.  A cs new
   that was killed between its files leads nothing astray. *)
LiveIsTracked ==
  forced = 0 =>
    /\ ~orphans
    /\ \A b \in Backends : tracked[b] # {} => directory.backend = b \/ b \in overtaken

(* The pool has a size its workload declares: the initial one, which nothing
   compares with the limits, one within the limits, or one that a schedule entry
   sets, under any sequence of updates, refreshes and scaling. *)
CapacityBounded ==
  \A b \in Backends : "pool" \in tracked[b] => size[b] \in DeclaredSizes

(* "The pool size starts at initial_instances and is managed by the autoscaling
   configuration" (autoscale.py): once that is live, no step of an update changes
   the size, unless a refresh has recorded a size of the autoscaler's.  The program
   does not ignore that one, and the next update puts the pool back. *)
ScalerManagesPool ==
  [][\A b \in Backends :
       "asc" \in tracked[b] /\ "asc" \in tracked'[b] /\ size'[b] # size[b] /\ done' # done
          => b \in refreshed]_vars

(* A command comes to its end: the engine always finds a resource that it can
   register or delete, also when an earlier update stopped half-way. *)
CommandsFinish == \A b \in Backends : command[b] # Idle ~> command[b] = Idle
=============================================================================
