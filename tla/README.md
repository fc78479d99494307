# CloudSpells in TLA+

CloudSpells is a Python library of *spells*: Pulumi components that build
networks, instances, load balancers and Kubernetes clusters on Oracle Cloud
(OCI), and a command line (`cs`) that scaffolds and deploys programs made of
them. This directory holds a specification of the parts of it that have state,
ordering and failure in them, model-checked with TLC and, in part, proved with
TLAPS. Paths below are relative to the repository's root; `oci/` stands for
`packages/cloudspells-oci/src/cloudspells/providers/oci/` and `cli/` for
`packages/cloudspells-cli/src/cloudspells/cli/`.

## 1. The system

| Component | State | Operations | Correct when |
|---|---|---|---|
| `Vcn` rule accumulator (`oci/network.py`) | eight lists of security-list rules, set of applied fingerprints, finalised flag, flow logs | `add_security_list_rules`, `add_unique_security_list_rules`, `has_ambient_rule`, `finalize_network` | OCI gets exactly what was contributed, once, with the baseline; nothing is accepted afterwards |
| `Vcn` address plan and routing (`oci/network.py`) | four tier CIDRs, four route tables, subnets | `__init__`, `_split_tiers`, `_create_route_tables`, `_create_subnets` | tiers partition the VCN's CIDR; each tier routes as documented |
| `Nsg` (`oci/nsg.py`) | role, labels of its rules | `__init__`, `serves`, `add_rule` | both filtering layers agree; nothing undeclared is opened |
| `ComputeInstance`, `Bastion`, `LoadBalancer`, `InternalLoadBalancer`, `ScalableWorkload`, OKE clusters, `VcnFlowLogs` | none shared except the `Vcn` | constructor: check arguments, register rules, finalise, create resources | a constructor that returns finds its rules deployed |
| Programs: CLI templates, examples | the position in the script | one statement after another | they run to their end and connect what they declare |
| Projects (`cli/project/runner.py`, `cli/commands/project.py`) | `project.yaml`, spell directories, Pulumi stacks, deployed resources | `project new`, `up`, `up --preview`, `destroy`, `status` | success reports are true after any crash, failure or concurrent command |
| `VcnRef` (`oci/network.py`) | exports of the stack that owns the Vcn | `from_stack_reference`, rule methods that raise or return, `finalize_network` | what the owner wrote for a tenant's spell is deployed when the tenant is |
| OKE network security groups (`oci/kubernetes.py`) | none | `_create_oke_nsgs`, `_add_*_nsg_rules` | every channel has both ends, and the security lists let it through |
| Block volumes of a `ComputeInstance` (`oci/compute.py`) | list of labels, Pulumi names and aliases | constructor, `get_volume_id`; Pulumi's create, adopt and delete | a label keeps its disk and its data |
| Instance pool and autoscaling (`oci/autoscale.py`) | pool size in OCI and in the Pulumi state | metric and schedule policies | the pool has a declared size |
| Single-stack commands (`cli/commands/`) | a directory, a Pulumi stack per backend and the command that runs on it, live resources | `new [--backend] [--force]`, `up [--preview]`, `destroy [--remove]`, `refresh`, `status`, `stack rm [--force]` | after any kill, live resources are tracked and have what they need; every command ends |
| `config`, `output`, `backend`, `wizard`; storage, IAM, GenAI; naming, tagging, abstract interfaces | none, or a single call | | not modelled: straight-line or pure code |

How they interact. Every spell is given a `Vcn` object and calls its rule
methods; the `Vcn` is the one piece of shared mutable state of a program. Spells
that need a subnet call `finalize_network`, the first of them creates the
security lists and subnets, and the lists are closed from then on. There is no
concurrency inside a program: what is hard is the *order* of calls, chosen by
whoever writes the program, the deduplication by fingerprint strings chosen
independently in six files, and exceptions in the middle of a sequence. Between
commands of the CLI there is real concurrency (two shells, a CI job and a
person) and every command can be killed or fail between any two of its effects
on the file system, on Pulumi's state or on OCI. A deployed program lives on:
it is edited and deployed again over what the last update, complete or not, left
behind, other stacks build on its exports, and OCI's autoscaler changes it
meanwhile.

## 2. The modules

```
RuleLedger        what a rule accumulator promises (abstract)
VcnBuilder        the accumulator: lists, fingerprints, finalisation
  VcnApi          a program that calls the Vcn's methods directly
SecurityRules     tiers, roles, rules and fingerprints of every spell (no state)
  OkeNsgs         the interface layer of an OKE cluster (no state)
  SpellProgram    spells in any order on one Vcn (with VcnBuilder)
    SpellTemplates  the programs CloudSpells ships, statement by statement
    SharedNetwork   an owner's updates and the tenants on its Vcn (with OkeNsgs)
VcnTopology       address plan, route tables, subnets
DataVolumes       the block volumes of an instance across deployments
PoolCapacity      sizes of an instance pool and its policies (no state)
  StackLifecycle  one stack directory under the single-stack commands
ProjectRunner     the project commands
BagLemmas         what the operators on bags, lists and counts return (lemmas)
VcnApiProofs, SpellProgramProofs, CompositionProofs (SharedNetwork and
SpellTemplates), VcnTopologyProofs, DataVolumesProofs, StackLifecycleProofs,
ProjectRunnerProofs   theorems and their proofs
MC*               small instances for TLC
```

**RuleLedger** has a bag `content`, a flag `sealed` and a bag `deployed`.
Content grows while open, is sealed once together with a last contribution, and
nothing changes afterwards. `VcnBuilder!Ledger` maps `content <- lists`,
`sealed <- finalized`, `deployed <- securityLists`; `KeepsLedger` is the
refinement.

**VcnBuilder.** The eight Python lists are one bag of rules (a rule says itself
to which tier and direction it belongs; the order within a security list has no
meaning to OCI, multiplicity has). A spell constructor is a *sequence of
registration calls*, possibly followed by `finalize_network`. No other Python
code runs in between, so it is one action, which splits by what the code does
with it:

| Action | Code |
|---|---|
| `Collect` | every call of the sequence on an open Vcn: fingerprint test, fingerprint recorded, lists extended |
| `Materialise` | the same, then `finalize_network`: baseline, security lists, subnets, flag, and only then the flow logs, which may raise |
| `Refuse` | the first call that is not a duplicate on a closed Vcn: its fingerprint is recorded, then `RuntimeError` |
| `Reuse` | nothing but duplicates on a closed Vcn |
| `RejectArguments` | an exception before the Vcn is touched |

After an exception the program is over, unless `CatchErrors` says that it goes
on (legal Python, and what a test or a notebook does).

**SecurityRules** translates, spell by spell, the list of calls with their
rules and fingerprints. A CIDR is named for what it covers (`internet`, `vcn`, a
tier, `services`); a fingerprint string is a record with the five parts that
make two such strings differ.

**SpellProgram** adds the Nsgs (role, labels) and one action per spell. The
labels are the interface layer, the Vcn's lists the subnet layer. `built` is a
history variable: the bag of spells whose constructor returned; a
`ComputeInstance` on a closed Vcn is remembered as "late" because it is built
without a rule, which its code does on purpose. `OkeClusterEnhanced` shares
`_build_cluster` with `OkeCluster` and is the same action.

**SpellTemplates** runs fixed programs on SpellProgram's Vcn: the `__main__.py`
of the templates of `cli/templates/spells/` that build a Vcn, and
`examples/bastion` and `examples/secure-vcn`. Ports the program reads from its
stack configuration are chosen at the start.

**OkeNsgs** writes the rules of the four groups as a set, one operator per
`_add_*_nsg_rules`. Rules to OCI services are of protocol ALL at the interface
and TCP in the security lists, so the comparison of the layers speaks of TCP.

**SharedNetwork** composes an owner and tenants. The owner's program is
SpellProgram's (`WriteSpell`); `Up` deploys it and starts the next version from a
new `Vcn` object; `UpStops` is an update that ended after any subset of the four
security lists was updated, with the exports of the previous one; `Abandon` is a
preview or a program that raised. `Tenant` is `VcnRef.from_stack_reference` and
one spell: a rule passed to `add_security_list_rules` raises, everything else is
ignored, so what a tenant needs must have been written by the owner.

**VcnTopology.** A CIDR is a block: first address and size. `SplitTiers` is
`_split_tiers`; `SplitOutcome` says which exception it ends in. `RouteTables` is
`_create_route_tables`. Longest-prefix routing (`NextHops`) is OCI's, external.

**DataVolumes.** Pulumi knows the i-th volume as `vol-i`, with an alias that
carries its label, the name earlier versions gave it. State is what the Pulumi
state holds under either name, and the disks behind. An update registers volumes
and attachments one at a time, in any order their dependencies allow
(`ProvideVolume`, which keeps, adopts or creates; `Attach`), then deletes what is
no longer named (`Detach`, `DeleteVolume`), and can stop anywhere (`UpStops`).
`Edits` says how the list changes between updates. A disk records the label it
was created for, which is a history variable of sorts: OCI has it in a tag.

**PoolCapacity** has the arithmetic of `autoscale.py`: `ScheduledCapacity` is
what one entry of a schedule becomes, `MetricSize` what a threshold rule does.

**StackLifecycle.** One directory and the commands on it. A command is a sequence
of steps that a kill separates: one resource created (`Register`) or deleted
(`Delete`) by the Pulumi engine, the end of the command. `Needs` holds the
dependencies the constructors declare, by `depends_on` or by an output used as an
input; the engine respects them and records them in `deps` with the resource, and
deletes by what is recorded, not by what the program now says. The stack of each
backend is a separate one (`stacks`, `tracked`), and `Pulumi.yaml` decides which
of them a command that starts now reaches. Pulumi locks a stack, so there is one
`command` on each; a command that runs keeps its backend and the program it has
read, whatever happens to the files. Nothing locks the files: `cs new`, three
writes with a kill possible between any two (`WriteYaml`, `WriteMain`,
`InjectBackendUrl`, `NewStops`), and the program's author (`EditProgram`) run beside
the commands, and so does OCI's autoscaler (`Autoscale`). Two histories say where
this may lead: `overtaken` holds the backends on which an up was begun before
`cs new` had written its last file, `forced` counts the uses of `--force` while
something was deployed; `refreshed` holds the backends whose pool a refresh has
looked at. The spell of the directory is a workload, a cluster, or a network
alone, which is small enough for deployments on both backends at once.
Simplified: creating a resource and recording it is one step; a resource is never
replaced; in the first two spells the network is one resource; a kill leaves no
lock behind; there is one stack name, and one `cs new` at a time.

**ProjectRunner.** An action is what another process can see or a crash can
separate: one file written, one Pulumi stack created, one Pulumi operation. A
command is a record in `cmd`: its loop's remaining spells (`todo`) and the step
it is at (`at`) on the first of them. Pulumi locks a stack during an operation,
so an operation is one step, with a nondeterministic outcome (`Operate`,
`OperationFails` with what `Remains`). `Interrupt` is a kill at any point, and
an exception of `get_stack`. The rows `status` prints are display and left out;
that it goes on after every exception (`StatusSwallows`) and creates stacks
(`GetStack`) is not. Writing a file is one step: `write_text` can itself be cut
short, which the model does not distinguish from a file that is not there.

Definitions whose comment begins with "Fault" are used by no specification.
Each is a plausible mistake in the definition after it, and there is for every
property a fault that breaks it.

## 3. What the runs check

| Run | Instance | Shows |
|---|---|---|
| `api` | 3 rules, 3 fingerprints that share rules with each other, with the seed and with the baseline, at most 6 rules in the lists | any sequence of public calls: the deployed lists are the collected ones (`DeployedIsCollected`), contain the baseline, every recorded fingerprint has its rules, multiplicities are exact (`LedgerExact`), and the ledger is implemented |
| `relations` | 3 Nsgs, 3 roles, ports 22 and 8080, with instances, a Bastion and a program's own finalisation, up to 5 spells in any order, symmetric in the Nsgs | the two layers agree (`DualLayer`), no path between tiers (`PathsDeclared`) and no opening to the internet (`ExposureExplained`) that was not declared, order has no influence (`OrderIndependent`) |
| `stack` | every other spell, port 8080, up to 3 in any order, deployed, changed and deployed again with a stopped update in between, and one tenant (instance, Bastion or OKE cluster) | what was built is served by the *deployed* lists (`SpellsServed`), the two layers of a cluster agree (`OkeLayersAgree`), a tenant whose spell the owner keeps is served whatever update stopped (`TenantsServed`), exposure, order |
| `programs` | every shipped program but the bastion template, ports from {22, 80, 443, 5432, 8080} | they run to their end, `lb -> web -> db` is open end to end for the application and SSH, nothing else crosses tiers |
| `project` | 1 operator, 3 spells, 2 stacks, up, preview, destroy | resources respect the declaration order after any failures and kills (`PrefixDeployed`); "deployed" and "destroyed" are true when printed |
| `project_shared` | 2 operators, 2 directories, all five commands, three manifests one of which names an unknown spell | live resources are never where destroy skips (`DeployedIsManaged`); every command ends (`CommandsEnd`) |
| `lifecycle` | a workload (limits 1 and 1 but initially 2, steps of 1 and -1, a schedule to 1 and by +1), a cluster or a network; every command, two backends, a kill anywhere, `cs new` between the steps of the others | no servers live without what they need (`ServersReady`); live resources are tracked where the directory leads unless `--force` was given or an up overtook `cs new` (`LiveIsTracked`); the pool has a declared size (`CapacityBounded`), which an update leaves alone until a refresh has read it (`ScalerManagesPool`); every command ends (`CommandsFinish`) |
| `volumes` | 3 labels, lists of up to 3, at most 2 disks made for a label, any old deployment, the list edited at its end between successful updates, updates that stop anywhere | a label keeps its disk (`LabelKeepsDisk`) and its data (`DataKept`), attachments fit the volumes (`AttachmentsMatch`) |
| `topology` | every CIDR of every prefix length in a 6-bit address space, with and without host bits; none, one or two on-premise networks; IPv6 | the tiers partition the CIDR and are aligned, routing per tier, subnets disjoint in IPv4 and IPv6 |

Why the bounds are enough. Everything the accumulator does with a call depends
on whether it is keyed, fresh, and made on an open or closed Vcn: three
fingerprints and three rules give every combination of shared and distinct, and
the theorems remove the bound. A relation has two ends and a conflict has two
relations, so three Nsgs and two ports (one of them 22, which collides with the
SSH channel) give every kind of overlap. The spells of `stack` meet in pairs:
two compete for the finalisation, and a third is what the first two did not
expect; one port is enough because ports are compared for equality only and 22,
80 and 443 are there anyway. One stopped update in a row leaves any mixture of
two versions of the lists, and a second only mixes in a version a third update
could have deployed. In `lifecycle` the initial size is outside the limits, so an
update and the autoscaler always want different sizes, and the schedule has an
entry of either kind; two sizes are what it takes for one to be lost. Live
resources on two backends take a clash, a `--force` or an up during `cs new`:
`MaxClashes` allows one to the network and none to the other spells, whose
servers and pools do not depend on where they are; the theorems cover any number
for every spell. Three labels are what it takes to insert one between two, and two disks
of one label what it takes to confuse them. In `project` a third spell separates
"first", "middle" and "last"; two operators are what the file races need. A
6-bit address space has CIDRs on both sides of the smallest one that can be
split (eight addresses).

Three runs end in a violation, on purpose: each states what the documentation
says, and TLC finds the behaviour of the code that contradicts it.

| Run | Statement | What the code does |
|---|---|---|
| `template_bastion` | on a finalised network the Bastion reuses the SSH rule (`oci/bastion.py:12-14`) | it looks for its own fingerprint and raises; `cs new bastion` renders a program that builds the instance first and so never runs to its end |
| `project_scaffold` | `project up` scaffolds missing directories (`cli/project/runner.py:54`) | a crash after `Pulumi.yaml` leaves a directory that is never completed |
| `volume_labels` | `get_volume_id(label)` is "the OCID of the block volume with the given label" (`oci/compute.py:643`) | the volume is found by its place in the list: after an insertion, a removal or a swap the label leads to the disk another label had. Even edits at the end of the list do it when they are made before the previous update has succeeded |

Disagreements of the same kinds that were met while reading, and have no run:

- `docs/reference/vcn-architecture.md:218-224` lists among the baseline rules
  ingress to the secure tier on every TCP port from the private subnet, and
  `docs/reference/oke-architecture.md:143` and `448` say the same of
  `finalize_network`. `_inject_baseline_rules` (`oci/network.py:1012-1061`) adds
  egress rules only: a port of the secure tier answers the private one when a
  relation or an instance opens it. `VcnBaselineRules` is the code's;
  `PathsDeclared` and `TiersIsolated` state the narrower promise that the code
  keeps and would fail on the documented baseline, while `BaselineDeployed` says
  nothing of what the baseline contains.
- `docs/reference/oke-architecture.md:188`, `239` and `322-323` open the API port
  6443 to `0.0.0.0/0`, in the public list and in the api group. Both layers open
  it to `kubectl_allowed_cidrs` only (`oci/kubernetes.py:526` and `903`), by default
  to nobody, and `tests/test_oke.py` expects that. `OkeLayersAgree` compares the two
  layers with each other, and `ExposureExplained` admits no such opening.
- `README.md:177` puts the `InternalLoadBalancer` in the secure subnet; the code
  puts it in the private one.
- `docs/reference/oke-architecture.md:460` says an `OkeCluster` can be combined
  with a `ScalableWorkload` or `ComputeInstance` because each adds its rules
  before finalisation; each constructor finalises, so a second finalising spell
  with rules of its own is refused. `oci/loadbalancer.py:113-114` says a
  LoadBalancer skips its rules on a finalised Vcn; it registers them always.
- `oci/loadbalancer.py:303-305` says its port 80 rule is deduplicated with
  `ScalableWorkload`'s; the two fingerprints differ, so the rule is there twice.
- `has_ambient_rule` says the rule "has already been registered"
  (`oci/network.py:1080`), but the fingerprint is recorded before the call can
  raise (1133): a program that catches the exception and asks is misled.
  `FingerprintsCanBeTrusted` is about programs that stop there.
- `flow_logs` is set after `finalize_network` (`oci/network.py:1441`), unless the
  retention was rejected: the flag is set first, and a second call returns
  without flow logs (1462).
- `docs/how-to/loadbalancer.md:106` puts both load balancers on one Vcn; the
  second one is refused in either order.
- `VcnRef` calls its rule methods no-ops (`oci/network.py:1497`), but
  `add_security_list_rules` raises (1739), and "every spell that accepts `Vcn`
  also accepts `VcnRef`" does not hold of `OkeCluster`, which always adds rules
  (`oci/kubernetes.py:292`; `tests/test_oke.py:390` expects the exception), even
  when the owner has them. A placeholder the owner adds after the
  finalisation writes no rule (`docs/how-to/vcnref.md` has no such condition), and
  a missing export does not fail in `from_stack_reference` but later.
- A schedule entry that changes the count is said to be "relative to the current
  pool size" (`oci/autoscale.py:827-828`); it counts from the initial
  size. A `refresh` followed by an `up` takes an autoscaled pool back to
  `initial_instances` (668), which the docstring (632-633) says is "managed by the
  autoscaling configuration"; `ScalerManagesPool` excepts exactly that. Nothing
  compares the minimum, the maximum and the initial size (291-293), so
  `CapacityBounded` counts an initial size outside the limits as declared.
- `cs new` takes no lock. An `up` between its first and its last write deploys to
  the local backend, and the last write then leads every later command to another
  one; `new --force` beside a running `up` does the same. `LiveIsTracked` names
  these backends (`overtaken`, `forced`) and says that nothing else goes astray.
- `new --backend` killed before its last write leaves the local backend in
  `Pulumi.yaml`, and `new --force` without `--backend` drops the backend of a
  directory whose stack is live elsewhere.
- `docs/concepts/network-topology.md:41` says the secure tier cannot initiate
  a connection outside the VCN; with `drg=True` it has routes to on-premise
  networks. `EgressByTier` states the routing as it is.
- `cs project status` "reads local Pulumi state", but `get_stack` creates the
  stack it asks for, and every exception becomes a "not deployed" row.
- `project new --force` replaces `project.yaml`; spells that only the old one
  named keep their resources, and `project destroy` still reports the project
  destroyed. `DestroyLeavesNothing` speaks of the manifest the command read.
- `cli/project/runner.py:4-5` says each function scaffolds missing directories;
  `destroy_project` and `project_status` skip them.
- A setting that a spell rejects, like a log retention that OCI does not know,
  ends a program (`examples/secure-vcn`) with `ValueError`; `programs` has valid
  settings only.
- A manifest that names one directory twice destroys it under its neighbours:
  `PrefixAlwaysDeployed` assumes distinct directories.

**Fairness.** `programs` assumes weak fairness of `Statement`: Python runs the
next statement of a program. `project_shared` assumes weak fairness of each
operator's `Step`, and `lifecycle` of the `Step` of each backend's command: a process that was not killed goes
on, and Pulumi operations end in success or an error. Nothing assumes that an
operation succeeds, that anyone starts a command, that a killed one is repeated,
that `cs new` is not killed, or that the autoscaler acts. The other runs are about safety and assume nothing.

**Deadlock** is checked in the project runs and in `lifecycle`, where an
operator can always act, and in `volumes`. The other systems stop: a program
comes to its end or to an exception, the number of spells and updates is bounded,
and an address plan is made once.

## 4. What is proved

| Theorem | For every | Argument |
|---|---|---|
| `VcnApiProofs!TypeCorrect`, `DeploysWhatWasCollected`, `BaselineAlwaysDeployed` | set of rules and fingerprints, seed, baseline, flow-log setting, with or without caught exceptions | the conjunction is inductive with the type invariant; one lemma per way a call can go |
| `VcnApiProofs!ImplementsLedger` | the same | initial state to initial state; each step is a contribution, the sealing or a stutter of RuleLedger, using the invariant for what was deployed |
| `VcnApiProofs!FingerprintsCanBeTrusted` | programs that stop at the first exception | needs the strengthening that the property can only be lost by `Refuse`, after which nothing runs |
| `VcnApiProofs!LedgerIsExact` | the same | `Exact`: the property, and that finitely many fingerprints are recorded, so that the copies can be counted (`KeyedSitesGrow`); one lemma per method |
| `SpellProgramProofs!TypeCorrect`, `ImplementsLedger` | groups, roles, ports and kinds of spells, any number of them, with or without caught exceptions | `ProgramInv`: VcnInv, the types of the groups, and that `built` holds only spells with arguments a program can give (`Asked`), so that their calls are well made. `StepIsSpell` reduces every action to a spell that completes (`Completes`) or raises (`Raises`), and later proofs look at these two only |
| `SpellProgramProofs!EverySpellServed` | the same, when the program ends with its first exception | `Registered`: a completed spell's rules are on the lists and, if it needs the subnets, the Vcn is closed. Not inductive alone, since a call whose fingerprint is recorded adds nothing: `Accounted` says that the rule of every recorded fingerprint is there, whoever recorded it. That holds because a fingerprint determines its rule (`RuleOf`, `WellMade`), shown call by call for every spell |
| `SpellProgramProofs!OnlyRequestedExposed`, `OnlyDeclaredPaths` | the same; for the second, programs without load balancers, workloads and clusters | the other half of `Accounted`: every rule on the lists is the Vcn's own or some completed spell's, and `SpellClosed`, `OutDeclared` and `InDeclared` say what each may open. A path needs two rules, of two spells perhaps: the egress rule of a relation and the ingress rule of another join only if they are for the same pair of tiers and port |
| `SpellProgramProofs!LayersAgree` | as `EverySpellServed` | `LabelsBacked`: what each label lets through, some rule on the lists lets through. Inductive with one more fact: a group that was not built yet has no labels and no relation names it, so a role given later changes the meaning of no label |
| `SpellProgramProofs!ListsIgnoreOrder` | the same | `Counted`: how often each rule is on the lists, as an equation over the *bag* of completed spells, with every recorded fingerprint owned by a completed spell and conversely. A spell's calls divide into keyed ones, counted once however often they are made, and plain ones, counted each time (`KeyedPlaces`, `PlainOneMore`, `AddedCopies`) |
| `CompositionProofs!OwnerSpellsServed`, `OwnerExposure`, `OwnerListsIgnoreOrder` | any sequence of the owner's programs and updates | the invariants above start again with every program (`NewProgramInit`) |
| `CompositionProofs!SharedTypeCorrect`, `EveryTenantServed` | number of tenants, updates and stopped updates in a row | `DeployedServed`: what is deployed serves the spells it is deployed with. After a stopped update a spell common to both versions is served, because what it needs of a tier is in the old list and in the new one of that tier |
| `CompositionProofs!OkeLayers` | clusters with and without administrators, in any program | a cluster's completed spell has its rules deployed; each rule of its groups is matched with one of them |
| `CompositionProofs!NetworksConnected`, `NetworksIsolated` | application and database port, for `web-db` and `secure-vcn` | `NetworkInv`: every statement before `pc` has its rules on the lists (`Wanted`), and every rule on the lists lets into the database and management tiers at most what is documented (`Restrained`). From `ScriptUses`, which says that the constants hold the ports and groups that the programs name |
| `VcnTopologyProofs!TiersAlwaysPartition`, `TiersAlwaysCanonical` | CIDRs of every size and place | lemmas on halving a block: the halves are disjoint, cover it, and are aligned if the block is and its size is even; applied three times |
| `VcnTopologyProofs!TypeCorrect`, `SubnetsAlwaysDisjoint` | the same | `ValuesInv` adds what the later steps copy from the plan; the IPv6 slots of two tiers differ |
| `VcnTopologyProofs!EgressAlwaysByTier` | on-premise networks of any number and overlap | among the routes to an address there is a most specific one (`MostSpecific`, by the well-foundedness of `<`), and in each case it is only the documented gateway's. From `RoutesAssumption`: no on-premise network is as large as the address space or shares addresses with the OCI services |
| `ProjectRunnerProofs!NothingLiveIsSkipped` | number of operators, spells, stacks, any manifests | `ManagedInv`: a command past the first step of a spell has its `Pulumi.yaml`, one at the Pulumi operation has its stack, and both only grow; without it the property is not inductive, since an `up` could deploy where another operator had just looked |
| `ProjectRunnerProofs!TypeCorrect` | the same | `CommandsOK`: what a command has left to do is a tail of a list of entries, and it is at a step its operation has |
| `ProjectRunnerProofs!PrefixAlwaysDeployed`, `UpAlwaysDeploysAll`, `DestroyAlwaysLeavesNothing` | manifests of any length, any stacks, for one operator and distinct directories, without `project new` (`Alone`) | `OrderInv`: a command is at its place in the manifest, an up has deployed everything behind it, a destroy has left nothing behind it (`Walks`), and what a finished command claims still holds (`Claims`). That a destroy leaves nothing in a directory it skips is `ManagedInv` again |
| `DataVolumesProofs!TypeCorrect` | any labels, lists and edits | the types of what an update has registered and attached so far |
| `DataVolumesProofs!DiskFollowsLabel`, `NamedDataSurvives` | labels, list lengths, old deployments, stopped updates, with `Edits = "settled"` | every disk is where its label is in the list last deployed or in the one being deployed (`Placed`), what is left over is longer than the list (`Leftover`), an old name holds its own label's disk (`LegacyNamed`), and an update has registered what it says (`Progress`); without `Placed` a stopped update could be followed by an edit that moves a label |
| `DataVolumesProofs!AttachmentsAlwaysMatch` | the same | `AttachInv`: no disk is under two names (`OneName`, from the count of disks in `Counted`), an attachment is of the volume at its place, and one under an old name is of the volume that has this name or was adopted from it and is not attached yet (`OldAttachment`) |
| `StackLifecycleProofs!TypeCorrect` | limits, steps, schedules, any of the spells, any number of clashes | `TypeInv` adds that a command runs on a stack that exists and that `cs new` writes in a directory that exists, `Pulumi.yaml` first; in three parts, since no step disturbs more than two |
| `StackLifecycleProofs!CapacityAlwaysBounded`, `ScheduledCapacityAccepted` | the same, in any order of minimum, maximum and initial size; for what OCI accepts of an entry that changes the count, minimum at most maximum | a clamped size is between the limits, or the minimum where that is over the maximum (`ClampInLimits`), and everything that sets a size sets such a one, an absolute entry or the initial size |
| `StackLifecycleProofs!ScalerAlwaysManagesPool` | the same | `SizeRead`: the recorded size is the initial one until a refresh reads another; and `ServersReady`, since an update that found the policy without its pool would create one |
| `StackLifecycleProofs!LiveIsAlwaysTracked` | the same, under any interleaving of `cs new` with the commands | `LedTo`: as long as `--force` met nothing at stake, a backend with live resources or a running up is the one the directory leads to and no `cs new` is about to write, unless it was overtaken. It speaks of running ups too: otherwise a `new` could change the directory before the up creates its first resource |
| `StackLifecycleProofs!ServersAlwaysReady` | the same | `ReadyInv`: the state is closed under the recorded dependencies, and what a running update has registered is in the state; this is what makes a stopped destroy and a stopped update harmless for each other |

The proofs rest on the named assumptions of the modules' constants, which TLC
evaluates on every run. In `VcnTopology` sizes are assumed to be 1, 2, 4 or
multiples of 8, the part of "a power of two" the proof needs.

Two hypotheses are the theorems' own. `CatchErrors = FALSE`, in every theorem
about spells and tenants that is not about types or the ledger: a Python program
ends at its first uncaught exception, and one that catches it can meet a
fingerprint that was recorded by the call that raised, and lose the rule (section
3). `OnlyDeclaredPaths` excludes the four spells that open paths of their own, to
backends and nodes, which nobody declares; the `relations` run, on which TLC
checks `PathsDeclared`, excludes them too.

Only model-checked: liveness (`RunsToEnd`, `CommandsEnd`, `CommandsFinish`),
which is beyond the prover. Every other property of the passing runs is stated by a
theorem. That the shipped programs *reach* their end is `RunsToEnd`; what
`NetworksConnected` says is that those that did are connected.

## 5. What is not modelled

- OCI's and Pulumi's own behaviour beyond the outcomes above: replacement of a
  resource, drift, a creation that was not recorded, resizing a volume in place.
- The resources spells create after finalisation other than volumes, pools,
  load balancers of a workload and the parts of a cluster; their properties
  (shapes, images, certificates, cloud-init).
- OKE node pools by name: they are numbered like volumes, with the same kind of
  alias, and so are the rules of an `Nsg`. The hazard is the one `volume_labels`
  shows, and losing a node pool or a rule for a moment loses no data.
- Rules a user adds with `Nsg.allow_*`, and UDP and ICMP rules beyond the two the
  Vcn seeds.
- Storage, IAM and GenAI spells: straight-line construction without shared state
  or order. `config`, `output`, `backend`, `wizard`: prompts, formatting and one
  Pulumi call each. Names, tags, abstract interfaces: pure functions and
  signatures.
- Several stack names in one directory, the passphrase prompt, a directory that
  is deleted by hand, several `cs new` at once in one directory, a Pulumi lock that
  a kill leaves behind.

## 6. Plan

1. *Proofs*: every safety property of the runs has its theorem. Left: that
   a shipped program's statements never raise, the safety half of
   `RunsToEnd`.
2. *Free-form rules*: `Nsg.allow_*` at the interface layer, with the numbered
   names that make an edit of the program re-create rules.
3. *Node pools*: the names of OKE node pools across edits, as DataVolumes does
   for disks.
4. *Storage*: the buckets and file systems of `oci/storage.py` in StackLifecycle,
   should they come to depend on each other.
