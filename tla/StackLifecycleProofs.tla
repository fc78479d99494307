------------------------ MODULE StackLifecycleProofs ------------------------
(***************************************************************************)
(* Proofs about StackLifecycle and PoolCapacity, for any limits of the     *)
(* pool, any schedule, any of the spells and any number of clashes.        *)
(***************************************************************************)
EXTENDS StackLifecycle, TLAPS

-----------------------------------------------------------------------------
(* The capacity of a pool. *)

(* Clamping a number gives one between the limits, or the minimum when that is over
   the maximum. *)
LEMMA ClampInLimits ==
  ASSUME NEW n \in Int
  PROVE  Clamp(n) \in MinInstances..Greater(MinInstances, MaxInstances)
BY CapacityAssumption DEF Clamp, Lesser, Greater

(* What _create_schedule_autoscaling writes into a policy is minimum <= initial size
   <= maximum, none of them negative, as OCI asks: for an absolute count whatever the
   workload's own limits are, for a change whatever its initial size is, as long as
   its minimum is not over its maximum. *)
THEOREM ScheduledCapacityAccepted ==
  ASSUME NEW e \in Schedules, e.action = "CHANGE_COUNT_TO" \/ MinInstances <= MaxInstances
  PROVE  LET c == ScheduledCapacity(e) IN
         0 <= c.min /\ c.min <= c.initial /\ c.initial <= c.max
<1>1. e.value \in Int /\ e.action \in ScalingAction
  BY SchedulesAssumption DEF ScheduleEntry
<1>2. CASE e.action = "CHANGE_COUNT_TO"
  BY <1>1, <1>2, CapacityAssumption, SchedulesAssumption DEF ScheduledCapacity, Lesser, Greater
<1>3. CASE e.action # "CHANGE_COUNT_TO"
  <2>1. InitialInstances + e.value \in Int
    BY <1>1, CapacityAssumption
  <2>2. Clamp(InitialInstances + e.value) \in MinInstances..MaxInstances
    BY <1>3, <2>1, CapacityAssumption DEF Clamp, Lesser, Greater
  <2> QED
    BY <1>3, <2>2, CapacityAssumption DEF ScheduledCapacity
<1> QED BY <1>2, <1>3

(* Every size the autoscaler or the engine chooses is declared. *)
LEMMA ScaledSizesDeclared ==
  /\ InitialInstances \in DeclaredSizes \cap Nat
  /\ \A n \in Int, step \in ScaleSteps : MetricSize(n, step) \in DeclaredSizes \cap Nat
  /\ \A e \in Schedules : ScheduledCapacity(e).initial \in DeclaredSizes \cap Nat
<1>0. MinInstances..Greater(MinInstances, MaxInstances) \subseteq DeclaredSizes \cap Nat
  BY CapacityAssumption DEF DeclaredSizes
<1>1. \A n \in Int, step \in ScaleSteps : n + step \in Int
  BY CapacityAssumption
<1>2. \A n \in Int, step \in ScaleSteps : MetricSize(n, step) \in DeclaredSizes \cap Nat
  BY <1>0, <1>1, ClampInLimits DEF MetricSize
<1>3. ASSUME NEW e \in Schedules PROVE ScheduledCapacity(e).initial \in DeclaredSizes \cap Nat
  <2>1. CASE e.action = "CHANGE_COUNT_TO"
    BY <2>1, SchedulesAssumption DEF ScheduledCapacity, DeclaredSizes
  <2>2. CASE e.action # "CHANGE_COUNT_TO"
    <3>1. InitialInstances + e.value \in Int
      BY SchedulesAssumption, CapacityAssumption DEF ScheduleEntry
    <3>2. ScheduledCapacity(e).initial = Clamp(InitialInstances + e.value)
      BY <2>2 DEF ScheduledCapacity
    <3> QED BY <1>0, <3>1, <3>2, ClampInLimits
  <2> QED BY <2>1, <2>2
<1> QED BY <1>2, <1>3, CapacityAssumption DEF DeclaredSizes

-----------------------------------------------------------------------------
(* Types. *)

(* A command on a stack has created it, new has made the directory and writes
   __main__.py after Pulumi.yaml. *)
RunsOnStack ==
  /\ \A b \in Backends : command[b].op # "idle" => b \in stacks
  /\ scaffold.next # "nothing" => made
  /\ scaffold.next \in {"main", "backend"} => directory.backend # "none"

TypeInv == TypeOK /\ RunsOnStack

(* A program declares resources and dependencies among the known ones. *)
LEMMA NeedsAreResources ==
  ASSUME NEW p, NEW r
  PROVE  Needs(p, r) \subseteq Resources /\ Wanted(p) \subseteq Resources
BY DEF Needs, WorkloadNeeds, OkeNeeds, VcnNeeds, Wanted, WantedByWorkload, WantedByOke, WantedByVcn,
       Listeners, Resources, NsgRules

(* The template is a program. *)
LEMMA TemplateIsProgram ==
  ASSUME NEW s \in Spells
  PROVE  Template(s) \in Program
BY SpellsAssumption DEF Template, Program, Policies

(* Removing resources from a state keeps the types. *)
LEMMA ForgetTypes ==
  ASSUME TypeOK, NEW b \in Backends, NEW rs, Forget(b, rs)
  PROVE  /\ tracked' \in [Backends -> SUBSET Resources]
         /\ deps' \in [Backends -> [Resources -> SUBSET Resources]]
         /\ size' \in [Backends -> Nat] /\ recorded' \in [Backends -> Nat]
         /\ scaler' \in [Backends -> Policies] /\ refreshed' \subseteq Backends
         /\ tracked'[b] = tracked[b] \ rs
         /\ \A c \in Backends : c # b => tracked'[c] = tracked[c]
BY DEF Forget, TypeOK, Policies

(* The types in three parts: the files and cs new, the cloud, the commands. *)
FilesOK ==
  /\ program \in Program
  /\ directory \in [backend : Backends \cup {"none"}, main : BOOLEAN]
  /\ directory.main => directory.backend # "none"
  /\ made \in BOOLEAN /\ (directory.backend # "none" => made)
  /\ scaffold \in [next : {"nothing", "yaml", "main", "backend"}, backend : Backends]
  /\ scaffold.next # "nothing" => made
  /\ scaffold.next \in {"main", "backend"} => directory.backend # "none"

CloudOK ==
  /\ tracked \in [Backends -> SUBSET Resources]
  /\ deps \in [Backends -> [Resources -> SUBSET Resources]]
  /\ size \in [Backends -> Nat] /\ recorded \in [Backends -> Nat]
  /\ scaler \in [Backends -> Policies] /\ refreshed \subseteq Backends

CommandsOK ==
  /\ stacks \subseteq Backends
  /\ \A b \in Backends : tracked[b] # {} \/ command[b].op # "idle" => b \in stacks
  /\ command \in [Backends -> Command]
  /\ done \in [Backends -> SUBSET Resources]
  /\ forced \in Nat /\ overtaken \subseteq Backends /\ orphans \in BOOLEAN

(* The type invariant is these three parts. *)
LEMMA TypeParts == TypeInv <=> FilesOK /\ CloudOK /\ CommandsOK
BY DEF TypeInv, TypeOK, RunsOnStack, FilesOK, CloudOK, CommandsOK

(* The steps of cs new and of the author keep the types of the files. *)
LEMMA FilesStep ==
  ASSUME FilesOK, Write \/ \E b \in Backends, force \in BOOLEAN : New(b, force)
  PROVE  FilesOK'
<1> USE DEF FilesOK
<1>1. ASSUME NEW b \in Backends, NEW force \in BOOLEAN, New(b, force) PROVE FilesOK'
  BY <1>1 DEF New
<1>2. CASE EditProgram
  BY <1>2 DEF EditProgram
<1>3. CASE WriteYaml
  BY <1>3 DEF WriteYaml, Backends
<1>4. CASE WriteMain
  BY <1>4, TemplateIsProgram DEF WriteMain, Program
<1>5. CASE InjectBackendUrl
  BY <1>5 DEF InjectBackendUrl, Backends
<1>6. CASE NewStops
  BY <1>6 DEF NewStops, files, Backends
<1> QED BY <1>1, <1>2, <1>3, <1>4, <1>5, <1>6 DEF Write

(* Nothing else touches them. *)
LEMMA FilesUntouched ==
  ASSUME FilesOK, UNCHANGED <<files, scaffold>>
  PROVE  FilesOK'
BY DEF FilesOK, files, Program

(* What runs beside the commands on a stack changes nothing of theirs. *)
LEMMA WritesOnlyFiles ==
  ASSUME Write \/ \E b \in Backends, force \in BOOLEAN : New(b, force)
  PROVE  UNCHANGED <<stacks, cloud, command, done, overtaken, orphans>>
BY DEF Write, New, EditProgram, WriteYaml, WriteMain, InjectBackendUrl, NewStops, history

(* The commands keep their types when a step changes only the history. *)
LEMMA CommandsUntouched ==
  ASSUME CommandsOK, UNCHANGED <<stacks, tracked, command, done, overtaken, orphans>>, forced' \in Nat
  PROVE  CommandsOK'
BY DEF CommandsOK, Command, Program

(* A step keeps the types and the stacks of the running commands. *)
LEMMA TypeStep ==
  ASSUME TypeInv, [Next]_vars
  PROVE  TypeInv'
<1>0. FilesOK /\ CloudOK /\ CommandsOK
  BY TypeParts
<1>t. TypeOK
  BY DEF TypeInv
<1> SUFFICES FilesOK' /\ CloudOK' /\ CommandsOK'
  BY TypeParts, PTL
<1>1. CASE UNCHANGED vars
  BY <1>0, <1>1 DEF vars, files, cloud, history, FilesOK, CloudOK, CommandsOK, Command, Program
<1>2. CASE Write \/ \E b \in Backends, force \in BOOLEAN : New(b, force)
  <2>1. forced' \in Nat
    BY <1>0, <1>2 DEF CommandsOK, Write, New, EditProgram, WriteYaml, WriteMain, InjectBackendUrl,
         NewStops, history, CountForce
  <2>2. CloudOK'
    BY <1>0, <1>2, WritesOnlyFiles DEF CloudOK, cloud
  <2>3. CommandsOK'
    BY <1>0, <1>2, <2>1, WritesOnlyFiles, CommandsUntouched DEF cloud
  <2> QED BY <1>0, <1>2, <2>2, <2>3, FilesStep
<1>3. ASSUME NEW op \in {"up", "destroy", "refresh"}, NEW flag \in BOOLEAN, StartCommand(op, flag)
      PROVE  FilesOK' /\ CloudOK' /\ CommandsOK'
  <2>1. directory.backend \in Backends /\ stacks' = stacks \cup {directory.backend}
    BY <1>3 DEF StartCommand, GetStack
  <2>2. [op |-> op, flag |-> flag, program |-> IF op = "up" THEN program ELSE NoProgram] \in Command
    BY <1>0 DEF FilesOK, Command
  <2>3. command' \in [Backends -> Command] /\ \A c \in Backends : c # directory.backend => command'[c] = command[c]
    BY <1>0, <1>3, <2>1, <2>2 DEF StartCommand, CommandsOK
  <2>4. CommandsOK'
    BY <1>0, <1>3, <2>1, <2>3 DEF StartCommand, CommandsOK, cloud
  <2>5. CloudOK'
    BY <1>0, <1>3 DEF StartCommand, CloudOK, cloud
  <2> QED BY <1>0, <1>3, <2>4, <2>5, FilesUntouched DEF StartCommand
<1>4. CASE Look
  BY <1>0, <1>4, FilesUntouched DEF Look, GetStack, CloudOK, CommandsOK, cloud, history, Command, Program
<1>5. ASSUME NEW force \in BOOLEAN, StackRm(force) PROVE FilesOK' /\ CloudOK' /\ CommandsOK'
  <2> DEFINE b == directory.backend
  <2>1. b \in Backends /\ Forget(b, tracked[b]) /\ command[b] = Idle
    BY <1>5 DEF StackRm
  <2>2. tracked'[b] = {} /\ \A c \in Backends : c # b => tracked'[c] = tracked[c]
    BY <1>t, <2>1, ForgetTypes
  <2>3. forced' \in Nat /\ orphans' \in BOOLEAN
    BY <1>0, <1>5 DEF StackRm, CountForce, CommandsOK
  <2>4. CloudOK'
    BY <1>t, <2>1, ForgetTypes DEF CloudOK
  <2>5. CommandsOK'
    BY <1>0, <1>5, <2>1, <2>2, <2>3 DEF StackRm, CommandsOK, Idle
  <2> QED BY <1>0, <1>5, <2>4, <2>5, FilesUntouched DEF StackRm
<1>6. ASSUME NEW b \in Backends, Step(b) PROVE FilesOK' /\ CloudOK' /\ CommandsOK'
  <2>1. FilesOK'
    BY <1>0, <1>6, FilesUntouched DEF Step, Register, Delete, Refresh, UpReturns, DestroyReturns
  <2>2. ASSUME NEW r \in Resources, Register(b, r) PROVE CloudOK' /\ CommandsOK'
    <3>1. b \in stacks
      BY <1>0, <2>2 DEF Register, CommandsOK
    <3>2. /\ size' \in [Backends -> Nat] /\ recorded' \in [Backends -> Nat]
          /\ refreshed' \subseteq Backends
      BY <1>0, <2>2, CapacityAssumption DEF Register, ResizePool, CloudOK
    <3>3. command[b].program.policy \in Policies
      BY <1>0, <2>2 DEF CommandsOK, Command, Program, NoProgram, Policies
    <3>4. /\ scaler' \in [Backends -> Policies]
          /\ tracked' \in [Backends -> SUBSET Resources]
          /\ deps' \in [Backends -> [Resources -> SUBSET Resources]]
          /\ \A c \in Backends : c # b => tracked'[c] = tracked[c]
      BY <1>0, <2>2, <3>3, NeedsAreResources DEF Register, CloudOK
    <3>5. CloudOK'
      BY <3>2, <3>4 DEF CloudOK
    <3>6. done' \in [Backends -> SUBSET Resources]
      BY <1>0, <2>2 DEF Register, CommandsOK
    <3> QED BY <1>0, <2>2, <3>1, <3>4, <3>5, <3>6 DEF Register, CommandsOK, history, Command, Program
  <2>3. ASSUME NEW r \in Resources, Delete(b, r) PROVE CloudOK' /\ CommandsOK'
    <3>1. Forget(b, {r})
      BY <2>3 DEF Delete
    <3>2. CloudOK' /\ \A c \in Backends : tracked'[c] # {} => tracked[c] # {}
      BY <1>t, <3>1, ForgetTypes DEF CloudOK
    <3> QED BY <1>0, <2>3, <3>2 DEF Delete, CommandsOK, history, Command, Program
  <2>4. ASSUME Refresh(b) \/ UpReturns(b) \/ DestroyReturns(b) PROVE CloudOK' /\ CommandsOK'
    <3>1. CloudOK'
      BY <1>0, <2>4 DEF Refresh, UpReturns, DestroyReturns, CloudOK, cloud
    <3>2. /\ tracked' = tracked /\ UNCHANGED history
          /\ command' = [command EXCEPT ![b] = Idle] /\ done' = [done EXCEPT ![b] = {}]
      BY <2>4 DEF Refresh, UpReturns, DestroyReturns, End, cloud
    <3>3. /\ stacks' \subseteq Backends
          /\ \A c \in Backends : tracked[c] # {} \/ command'[c].op # "idle" => c \in stacks'
      <4>1. \A c \in Backends : command'[c].op # "idle" => c # b /\ command'[c] = command[c]
        BY <1>0, <3>2 DEF CommandsOK, Idle
      <4>2. CASE stacks' = stacks
        BY <1>0, <4>1, <4>2 DEF CommandsOK
      <4>3. CASE stacks' # stacks
        <5> DEFINE now == directory.backend
        <5>1. stacks' = stacks \ {now} /\ tracked[now] = {} /\ (now # b => command[now] = Idle)
          BY <2>4, <4>3 DEF Refresh, UpReturns, DestroyReturns
        <5> QED BY <1>0, <4>1, <5>1 DEF CommandsOK, Idle
      <4> QED BY <4>2, <4>3
    <3>4. command' \in [Backends -> Command] /\ done' \in [Backends -> SUBSET Resources]
      BY <1>0, <3>2 DEF CommandsOK, Idle, Command
    <3> QED BY <1>0, <3>1, <3>2, <3>3, <3>4 DEF CommandsOK, history
  <2> QED BY <1>6, <2>1, <2>2, <2>3, <2>4 DEF Step
<1>7. ASSUME NEW b \in Backends, CommandStops(b) PROVE FilesOK' /\ CloudOK' /\ CommandsOK'
  <2>1. CloudOK' /\ FilesOK'
    BY <1>0, <1>7, FilesUntouched DEF CommandStops, CloudOK, cloud
  <2> QED BY <1>0, <1>7, <2>1 DEF CommandStops, End, CommandsOK, cloud, history, Idle, Command
<1>8. ASSUME NEW b \in Backends, Autoscale(b) PROVE FilesOK' /\ CloudOK' /\ CommandsOK'
  <2>1. size' \in [Backends -> Nat]
    BY <1>0, <1>8, ScaledSizesDeclared DEF Autoscale, CloudOK
  <2>2. CloudOK'
    BY <1>0, <1>8, <2>1 DEF Autoscale, CloudOK
  <2>3. CommandsOK'
    BY <1>0, <1>8, CommandsUntouched DEF Autoscale, history, CommandsOK
  <2> QED BY <1>0, <1>8, <2>2, <2>3, FilesUntouched DEF Autoscale
<1> QED
  BY <1>1, <1>2, <1>3, <1>4, <1>5, <1>6, <1>7, <1>8 DEF Next

(* An empty directory has its types. *)
LEMMA TypeStart == Init => TypeInv
<1> SUFFICES ASSUME Init PROVE FilesOK /\ CloudOK /\ CommandsOK
  BY TypeParts
<1>1. FilesOK
  BY TemplateIsProgram DEF Init, FilesOK, Backends
<1>2. CloudOK
  BY DEF Init, CloudOK, Policies
<1>3. CommandsOK
  BY DEF Init, CommandsOK, Idle, Command
<1> QED BY <1>1, <1>2, <1>3

(* The variables have their types, and the resources in a state belong to a stack
   that exists, through every command and every stop. *)
THEOREM TypeCorrect == Spec => [](TypeInv /\ TypeOK)
<1>1. TypeInv => TypeOK
  BY DEF TypeInv
<1> QED
  BY <1>1, TypeStart, TypeStep, PTL DEF Spec

-----------------------------------------------------------------------------
(* The size of the pool. *)

(* Commands, the autoscaler and its schedule keep the pool at a declared size. *)
LEMMA SizeStep ==
  ASSUME TypeInv, CapacityBounded, [Next]_vars
  PROVE  CapacityBounded'
<1> USE DEF CapacityBounded
<1>0. TypeOK
  BY DEF TypeInv
<1>1. CASE UNCHANGED <<tracked, size>>
  BY <1>1
<1>2. ASSUME NEW b \in Backends, NEW rs, Forget(b, rs) PROVE CapacityBounded'
  BY <1>0, <1>2 DEF Forget, TypeOK
<1>3. ASSUME NEW b \in Backends, NEW r \in Resources, Register(b, r) PROVE CapacityBounded'
  <2>1. CASE r = "pool" /\ ("pool" \notin tracked[b] \/ recorded[b] # InitialInstances)
    BY <1>0, <1>3, <2>1, ScaledSizesDeclared DEF Register, ResizePool, TypeOK
  <2>2. CASE ~(r = "pool" /\ ("pool" \notin tracked[b] \/ recorded[b] # InitialInstances))
    BY <1>0, <1>3, <2>2 DEF Register, ResizePool, TypeOK
  <2> QED BY <2>1, <2>2
<1>4. ASSUME NEW b \in Backends, Autoscale(b) PROVE CapacityBounded'
  <2>1. PICK n \in DeclaredSizes : size' = [size EXCEPT ![b] = n]
    BY <1>0, <1>4, ScaledSizesDeclared DEF Autoscale, TypeOK
  <2>2. tracked' = tracked
    BY <1>4 DEF Autoscale
  <2> QED BY <1>0, <2>1, <2>2 DEF TypeOK
<1>5. CASE Write \/ \E b \in Backends, force \in BOOLEAN : New(b, force)
  BY <1>1, <1>5, WritesOnlyFiles DEF cloud
<1>6. ASSUME NEW force \in BOOLEAN, StackRm(force) PROVE CapacityBounded'
  BY <1>2, <1>6 DEF StackRm
<1>7. ASSUME NEW b \in Backends, NEW r \in Resources, Delete(b, r) PROVE CapacityBounded'
  BY <1>2, <1>7 DEF Delete
<1> QED
  BY <1>1, <1>3, <1>4, <1>5, <1>6, <1>7
     DEF Next, Step, vars, cloud, StartCommand, Look, Refresh, UpReturns, DestroyReturns, CommandStops

(* The pool has a declared size under any sequence of commands and scaling, whatever
   its limits and its initial size are. *)
THEOREM CapacityAlwaysBounded == Spec => []CapacityBounded
<1>1. Init => CapacityBounded
  BY DEF Init, CapacityBounded
<1> QED
  BY <1>1, TypeStart, TypeStep, SizeStep, PTL DEF Spec

-----------------------------------------------------------------------------
(* Who sets the size of the pool. *)

(* The size in a state is the initial one until a refresh reads another. *)
SizeRead ==
  \A b \in Backends : "pool" \in tracked[b] /\ recorded[b] # InitialInstances => b \in refreshed

(* Every step keeps that. *)
LEMMA SizeReadStep ==
  ASSUME TypeInv, SizeRead, [Next]_vars
  PROVE  SizeRead'
<1> USE DEF SizeRead
<1>0. TypeOK
  BY DEF TypeInv
<1>1. CASE UNCHANGED <<tracked, recorded, refreshed>>
  BY <1>1
<1>2. ASSUME NEW b \in Backends, NEW rs, Forget(b, rs) PROVE SizeRead'
  BY <1>0, <1>2 DEF Forget, TypeOK
<1>3. ASSUME NEW b \in Backends, NEW r \in Resources, Register(b, r) PROVE SizeRead'
  <2>1. CASE r = "pool" /\ ("pool" \notin tracked[b] \/ recorded[b] # InitialInstances)
    BY <1>0, <1>3, <2>1 DEF Register, ResizePool, TypeOK
  <2>2. CASE ~(r = "pool" /\ ("pool" \notin tracked[b] \/ recorded[b] # InitialInstances))
    BY <1>0, <1>3, <2>2 DEF Register, ResizePool, TypeOK
  <2> QED BY <2>1, <2>2
<1>4. ASSUME NEW b \in Backends, Refresh(b) PROVE SizeRead'
  BY <1>0, <1>4 DEF Refresh, TypeOK
<1>5. CASE Write \/ \E b \in Backends, force \in BOOLEAN : New(b, force)
  BY <1>1, <1>5, WritesOnlyFiles DEF cloud
<1>6. ASSUME NEW force \in BOOLEAN, StackRm(force) PROVE SizeRead'
  BY <1>2, <1>6 DEF StackRm
<1>7. ASSUME NEW b \in Backends, NEW r \in Resources, Delete(b, r) PROVE SizeRead'
  BY <1>2, <1>7 DEF Delete
<1>8. ASSUME NEW b \in Backends, Autoscale(b) PROVE SizeRead'
  BY <1>1, <1>8 DEF Autoscale
<1> QED
  BY <1>1, <1>3, <1>4, <1>5, <1>6, <1>7, <1>8
     DEF Next, Step, vars, cloud, StartCommand, Look, UpReturns, DestroyReturns, CommandStops

(* Only an update that meets a pool without its autoscaling configuration, or a size
   that a refresh has read, sets the size. *)
LEMMA ScalerStep ==
  ASSUME TypeInv, SizeRead, ServersReady, [Next]_vars,
         NEW b \in Backends, "asc" \in tracked[b], size'[b] # size[b], done' # done
  PROVE  b \in refreshed
<1>0. TypeOK /\ "pool" \in tracked[b]
  BY DEF TypeInv, ServersReady
<1>1. PICK c \in Backends, r \in Resources : Register(c, r)
  BY WritesOnlyFiles
     DEF Next, Step, vars, cloud, StartCommand, Look, StackRm, Delete, Refresh, UpReturns,
         DestroyReturns, CommandStops, Autoscale
<1>2. c = b /\ recorded[b] # InitialInstances
  BY <1>0, <1>1 DEF Register, ResizePool, TypeOK
<1> QED BY <1>0, <1>2 DEF SizeRead

-----------------------------------------------------------------------------
(* What commands without --force leave findable. *)

(* Until --force is used: a backend with live resources, or with an up that will
   create some, is the one that Pulumi.yaml leads to, and no cs new is about to
   write that file, unless the up overtook one. *)
LedTo ==
  forced = 0 =>
    \A b \in Backends :
      (tracked[b] # {} \/ command[b].op = "up") /\ b \notin overtaken =>
         directory.backend = b /\ scaffold.next = "nothing"

NothingOrphaned == forced = 0 => ~orphans

TrackedInv == LedTo /\ NothingOrphaned

(* A step that touches neither the files nor the histories, and after which only
   what was at stake before is at stake, keeps them. *)
LEMMA StakesShrink ==
  ASSUME TrackedInv, UNCHANGED <<directory, scaffold, history>>,
         \A b \in Backends : tracked'[b] # {} \/ command'[b].op = "up" => tracked[b] # {} \/ command[b].op = "up"
  PROVE  TrackedInv'
BY DEF TrackedInv, LedTo, NothingOrphaned, history

(* A step leads no live resource out of the state that the directory leads to. *)
LEMMA TrackedStep ==
  ASSUME TypeInv, TrackedInv, [Next]_vars
  PROVE  TrackedInv'
<1> USE DEF TrackedInv, LedTo, NothingOrphaned
<1>0. TypeOK /\ RunsOnStack
  BY DEF TypeInv
<1>1. CASE UNCHANGED vars
  BY <1>1 DEF vars, files, cloud, history
<1>2. ASSUME NEW c \in Backends, NEW force \in BOOLEAN, New(c, force) PROVE TrackedInv'
  <2>1. /\ UNCHANGED <<cloud, command, overtaken, orphans, directory>>
        /\ force \/ ~made
        /\ forced' = 0 => forced = 0 /\ ~(force /\ AtStake)
    BY <1>0, <1>2 DEF New, CountForce, TypeOK
  <2>2. ASSUME forced' = 0, NEW b \in Backends, tracked[b] # {} \/ command[b].op = "up", b \notin overtaken
        PROVE  FALSE
    <3>1. AtStake
      BY <2>2 DEF AtStake
    <3>2. ~made /\ directory.backend = b
      BY <2>1, <2>2, <3>1
    <3> QED BY <1>0, <3>2 DEF TypeOK, Backends
  <2> QED BY <2>1, <2>2 DEF cloud
<1>3. CASE Write
  <2>1. UNCHANGED <<cloud, command, history>>
    BY <1>3 DEF Write, EditProgram, WriteYaml, WriteMain, InjectBackendUrl, NewStops
  <2>2. \/ scaffold.next # "nothing"
        \/ directory' = directory /\ scaffold' = scaffold
    BY <1>3 DEF Write, EditProgram, WriteYaml, WriteMain, InjectBackendUrl, NewStops
  <2> QED BY <2>1, <2>2 DEF cloud, history
<1>4. ASSUME NEW op \in {"up", "destroy", "refresh"}, NEW flag \in BOOLEAN, StartCommand(op, flag)
      PROVE  TrackedInv'
  <2> DEFINE b == directory.backend
  <2>1. /\ b \in Backends /\ UNCHANGED <<directory, scaffold, tracked, forced, orphans>>
        /\ command'[b].op = op /\ \A c \in Backends : c # b => command'[c] = command[c]
    BY <1>0, <1>4 DEF StartCommand, GetStack, TypeOK, files, cloud
  <2>2. /\ overtaken \subseteq overtaken'
        /\ op = "up" => scaffold.next = "nothing" \/ b \in overtaken'
    BY <1>4 DEF StartCommand
  <2> QED BY <2>1, <2>2
<1>5. CASE Look
  BY <1>5 DEF Look, files, cloud, history
<1>6. ASSUME NEW force \in BOOLEAN, StackRm(force) PROVE TrackedInv'
  <2> DEFINE b == directory.backend
  <2>1. b \in Backends /\ Forget(b, tracked[b])
    BY <1>6 DEF StackRm
  <2>2. tracked'[b] = {} /\ \A c \in Backends : c # b => tracked'[c] = tracked[c]
    BY <1>0, <2>1, ForgetTypes
  <2>3. UNCHANGED <<command, directory, scaffold, overtaken>>
    BY <1>6 DEF StackRm, files
  <2>4. CASE tracked[b] = {}
    <3>1. forced' = forced /\ orphans' = orphans
      BY <1>0, <1>6, <2>4 DEF StackRm, CountForce, TypeOK
    <3>2. \A c \in Backends : tracked'[c] = tracked[c]
      BY <2>2, <2>4
    <3> QED BY <2>3, <3>1, <3>2
  <2>5. CASE tracked[b] # {}
    <3>1. forced' # 0
      BY <1>0, <1>6, <2>5 DEF StackRm, CountForce, TypeOK
    <3> QED BY <3>1
  <2> QED BY <2>4, <2>5
<1>7. ASSUME NEW b \in Backends, NEW r \in Resources, Register(b, r) PROVE TrackedInv'
  <2>1. /\ command[b].op = "up" /\ UNCHANGED <<directory, scaffold, history, command>>
        /\ \A c \in Backends : c # b => tracked'[c] = tracked[c]
    BY <1>0, <1>7 DEF Register, TypeOK, files
  <2> QED BY <2>1, StakesShrink
<1>8. ASSUME NEW b \in Backends, NEW r \in Resources, Delete(b, r) PROVE TrackedInv'
  <2>1. UNCHANGED <<directory, scaffold, history, command>> /\ Forget(b, {r})
    BY <1>8 DEF Delete, files
  <2>2. \A c \in Backends : tracked'[c] \subseteq tracked[c]
    BY <1>0, <2>1, ForgetTypes
  <2> QED BY <2>1, <2>2, StakesShrink
<1>9. ASSUME NEW b \in Backends, Refresh(b) \/ UpReturns(b) \/ DestroyReturns(b) \/ CommandStops(b)
      PROVE  TrackedInv'
  <2>1. UNCHANGED <<directory, scaffold, history, tracked>> /\ command' = [command EXCEPT ![b] = Idle]
    BY <1>9 DEF Refresh, UpReturns, DestroyReturns, CommandStops, End, files, cloud
  <2>2. \A c \in Backends : command'[c].op = "up" => command[c].op = "up"
    BY <1>0, <2>1 DEF TypeOK, Idle
  <2> QED BY <2>1, <2>2, StakesShrink
<1>10. ASSUME NEW b \in Backends, Autoscale(b) PROVE TrackedInv'
  BY <1>10, StakesShrink DEF Autoscale, files
<1> QED
  BY <1>1, <1>2, <1>3, <1>4, <1>5, <1>6, <1>7, <1>8, <1>9, <1>10 DEF Next, Step

(* Unless --force meets a deployment, or an up overtakes cs new on their backend,
   live resources are where the directory leads, through kills of every command and
   of cs new between its files. *)
THEOREM LiveIsAlwaysTracked == Spec => []LiveIsTracked
<1>1. Init => TrackedInv
  BY DEF Init, TrackedInv, LedTo, NothingOrphaned, Idle
<1>2. TrackedInv => LiveIsTracked
  BY DEF TrackedInv, LedTo, NothingOrphaned, LiveIsTracked
<1> QED
  BY <1>1, <1>2, TypeStart, TypeStep, TrackedStep, PTL DEF Spec

-----------------------------------------------------------------------------
(* Servers and what they need. *)

(* What a resource depends on in every program. *)
Basics(r) ==
  CASE r = "pool"               -> {"network", "lb", "bs", "ic", "http"}
    [] r = "asc"                -> {"pool"}
    [] r = "cluster"            -> {"network", "nsgs"} \cup NsgRules
    [] r \in {"pool-1", "pool-2"} -> {"network", "nsgs", "cluster"} \cup NsgRules
    [] OTHER                    -> {}

(* The state of a stack holds, with a resource, the dependencies recorded for it. *)
Closed ==
  \A b \in Backends : \A r \in tracked[b] : Basics(r) \subseteq deps[b][r] /\ deps[b][r] \subseteq tracked[b]

(* What a running update has registered is in the state, with its dependencies,
   and is not deleted by it. *)
Progress ==
  \A b \in Backends : command[b].op = "up" =>
    /\ command[b].program \in Program
    /\ done[b] \subseteq Wanted(command[b].program) \cap tracked[b]
    /\ \A r \in done[b] : Needs(command[b].program, r) \subseteq done[b]

(* A command that is not running has registered nothing. *)
NothingBegun == \A b \in Backends : command[b].op = "idle" => done[b] = {}

ReadyInv == Closed /\ Progress /\ NothingBegun

(* What a resource cannot do without is among what it is declared to depend on. *)
LEMMA BasicsAreNeeded ==
  ASSUME NEW p \in Program, NEW r \in Wanted(p)
  PROVE  Basics(r) \subseteq Needs(p, r)
<1>1. CASE p.spell = "workload"
  <2>1. r \in {"network", "lb", "bs", "ic", "pool", "http", "https", "asc"}
    BY <1>1 DEF Wanted, WantedByWorkload, Listeners
  <2> QED BY <1>1, <2>1 DEF Needs, WorkloadNeeds, Basics, Listeners, NsgRules
<1>2. CASE p.spell = "oke"
  <2>1. r \in {"network", "nsgs", "cluster", "pool-1", "pool-2"} \cup NsgRules
    BY <1>2 DEF Wanted, WantedByOke
  <2> QED BY <1>2, <2>1 DEF Needs, OkeNeeds, Basics, NsgRules
<1>3. CASE p.spell = "vcn"
  BY <1>3 DEF Wanted, WantedByVcn, Basics, NsgRules
<1> QED BY <1>1, <1>2, <1>3, SpellsAssumption DEF Program

(* The order of creation and deletion makes the servers ready. *)
LEMMA ReadyImplied ==
  ASSUME TypeInv, ReadyInv
  PROVE  ServersReady
<1> SUFFICES ASSUME NEW b \in Backends
             PROVE  /\ "pool" \in tracked[b] => {"network", "lb", "bs", "http", "ic"} \subseteq tracked[b]
                    /\ "asc" \in tracked[b] => "pool" \in tracked[b]
                    /\ tracked[b] \cap {"cluster", "pool-1", "pool-2"} # {} => {"network", "nsgs"} \cup NsgRules \subseteq tracked[b]
                    /\ tracked[b] \cap {"pool-1", "pool-2"} # {} => "cluster" \in tracked[b]
                    /\ command[b].op = "up" /\ "pool" \in done[b] => Listeners(command[b].program) \subseteq tracked[b]
  BY DEF ServersReady
<1>1. \A r \in tracked[b] : Basics(r) \subseteq tracked[b]
  BY DEF ReadyInv, Closed
<1>2. "pool" \in tracked[b] => {"network", "lb", "bs", "http", "ic"} \subseteq tracked[b]
  BY <1>1 DEF Basics
<1>3. "asc" \in tracked[b] => "pool" \in tracked[b]
  BY <1>1 DEF Basics
<1>4. "cluster" \in tracked[b] => {"network", "nsgs"} \cup NsgRules \subseteq tracked[b]
  BY <1>1 DEF Basics
<1>5. \A r \in {"pool-1", "pool-2"} :
        r \in tracked[b] => {"network", "nsgs", "cluster"} \cup NsgRules \subseteq tracked[b]
  BY <1>1 DEF Basics
<1>6. command[b].op = "up" /\ "pool" \in done[b] => Listeners(command[b].program) \subseteq tracked[b]
  <2> SUFFICES ASSUME command[b].op = "up", "pool" \in done[b]
               PROVE  Listeners(command[b].program) \subseteq tracked[b]
    OBVIOUS
  <2> DEFINE p == command[b].program
  <2>1. "pool" \in Wanted(p) /\ Needs(p, "pool") \subseteq tracked[b]
    BY DEF ReadyInv, Progress
  <2>2. p.spell = "workload"
    BY <2>1 DEF Wanted, WantedByOke, WantedByVcn, NsgRules
  <2> QED BY <2>1, <2>2 DEF Needs, WorkloadNeeds
<1> QED BY <1>2, <1>3, <1>4, <1>5, <1>6

(* Every step keeps that order. *)
LEMMA ReadyStep ==
  ASSUME TypeInv, ReadyInv, [Next]_vars
  PROVE  ReadyInv'
<1> USE DEF ReadyInv, Closed, Progress, NothingBegun
<1>0. TypeOK
  BY DEF TypeInv
<1>1. CASE UNCHANGED <<tracked, deps, command, done>>
  BY <1>1
<1>2. ASSUME NEW b \in Backends, tracked' = tracked, deps' = deps, End(b) PROVE ReadyInv'
  BY <1>0, <1>2 DEF End, Idle, TypeOK
<1>3. ASSUME NEW op \in {"up", "destroy", "refresh"}, NEW flag \in BOOLEAN, StartCommand(op, flag)
      PROVE  ReadyInv'
  <2> DEFINE b == directory.backend
  <2>1. b \in Backends /\ UNCHANGED <<tracked, deps, done>> /\ command[b].op = "idle"
    BY <1>0, <1>3 DEF StartCommand, GetStack, Idle, cloud
  <2>2. command' = [command EXCEPT ![b] = [op |-> op, flag |-> flag, program |-> IF op = "up" THEN program ELSE NoProgram]]
    BY <1>3 DEF StartCommand
  <2>3. /\ command'[b].op = op /\ (op = "up" => command'[b].program = program)
        /\ \A c \in Backends : c # b => command'[c] = command[c]
    BY <1>0, <2>1, <2>2 DEF TypeOK
  <2>4. done[b] = {} /\ program \in Program
    BY <1>0, <2>1 DEF TypeOK
  <2> HIDE DEF b
  <2>5. Progress'
    BY <2>1, <2>3, <2>4
  <2>6. NothingBegun'
    BY <2>1, <2>3, <2>4
  <2> QED BY <2>1, <2>5, <2>6
<1>4. ASSUME NEW force \in BOOLEAN, StackRm(force) PROVE ReadyInv'
  <2> DEFINE b == directory.backend
  <2>1. b \in Backends /\ Forget(b, tracked[b]) /\ command[b] = Idle /\ UNCHANGED <<command, done>>
    BY <1>4 DEF StackRm
  <2>2. tracked'[b] = {} /\ \A c \in Backends : c # b => tracked'[c] = tracked[c] /\ deps'[c] = deps[c]
    BY <1>0, <2>1 DEF Forget, TypeOK
  <2> QED BY <2>1, <2>2 DEF Idle
<1>5. ASSUME NEW b \in Backends, NEW r \in Resources, Register(b, r) PROVE ReadyInv'
  <2> DEFINE p == command[b].program
  <2>1. /\ command' = command /\ command[b].op = "up"
        /\ r \in Wanted(p) /\ Needs(p, r) \subseteq done[b]
    BY <1>5 DEF Register
  <2>2. /\ done'[b] = done[b] \cup {r}
        /\ tracked'[b] = tracked[b] \cup {r}
        /\ deps'[b][r] = Needs(p, r)
        /\ \A s \in Resources : s # r => deps'[b][s] = deps[b][s]
        /\ \A c \in Backends : c # b => tracked'[c] = tracked[c] /\ deps'[c] = deps[c] /\ done'[c] = done[c]
    BY <1>0, <1>5 DEF Register, TypeOK
  <2>3. Progress' /\ NothingBegun'
    BY <2>1, <2>2
  <2>4. Basics(r) \subseteq deps'[b][r] /\ deps'[b][r] \subseteq tracked'[b]
    BY <2>1, <2>2, BasicsAreNeeded
  <2>5. \A s \in tracked[b] : s # r => Basics(s) \subseteq deps'[b][s] /\ deps'[b][s] \subseteq tracked'[b]
    BY <1>0, <2>1, <2>2 DEF TypeOK
  <2>6. Closed'
    BY <2>2, <2>4, <2>5
  <2> QED BY <2>3, <2>6
<1>6. ASSUME NEW b \in Backends, NEW r \in Resources, Delete(b, r) PROVE ReadyInv'
  <2>1. Forget(b, {r}) /\ UNCHANGED <<command, done>>
    BY <1>6 DEF Delete
  <2>2. /\ tracked'[b] = tracked[b] \ {r}
        /\ \A s \in Resources : s # r => deps'[b][s] = deps[b][s]
        /\ \A c \in Backends : c # b => tracked'[c] = tracked[c] /\ deps'[c] = deps[c]
    BY <1>0, <2>1 DEF Forget, TypeOK
  <2>3. \A s \in tracked[b] : r \notin deps[b][s]
    BY <1>6 DEF Delete, Removable
  <2>4. Closed'
    <3>1. \A s \in tracked'[b] : deps'[b][s] = deps[b][s] /\ r \notin deps[b][s]
      BY <1>0, <2>2, <2>3 DEF TypeOK
    <3>2. \A s \in tracked'[b] : Basics(s) \subseteq deps'[b][s] /\ deps'[b][s] \subseteq tracked'[b]
      BY <2>2, <3>1
    <3> QED BY <2>2, <3>2
  <2>5. command[b].op = "up" => r \notin Wanted(command[b].program)
    BY <1>6 DEF Delete, Doomed
  <2>6. Progress'
    BY <2>1, <2>2, <2>5
  <2> QED BY <2>1, <2>4, <2>6
<1>7. CASE Write \/ \E b \in Backends, force \in BOOLEAN : New(b, force)
  BY <1>1, <1>7, WritesOnlyFiles DEF cloud
<1>8. CASE UNCHANGED vars \/ Look
  BY <1>1, <1>8 DEF vars, Look, cloud
<1>9. ASSUME NEW b \in Backends, Refresh(b) \/ UpReturns(b) \/ DestroyReturns(b) \/ CommandStops(b)
      PROVE  ReadyInv'
  BY <1>2, <1>9 DEF Refresh, UpReturns, DestroyReturns, CommandStops, cloud
<1>10. ASSUME NEW b \in Backends, Autoscale(b) PROVE ReadyInv'
  BY <1>1, <1>10 DEF Autoscale
<1> QED
  BY <1>3, <1>4, <1>5, <1>6, <1>7, <1>8, <1>9, <1>10 DEF Next, Step

(* No pool of servers is live without what it depends on, after any stopped
   update or destroy. *)
THEOREM ServersAlwaysReady == Spec => []ServersReady
<1>1. Init => ReadyInv
  BY DEF Init, ReadyInv, Closed, Progress, NothingBegun, Idle
<1> QED
  BY <1>1, TypeStart, TypeStep, ReadyStep, ReadyImplied, PTL DEF Spec

(* Once the autoscaling configuration of a pool is live, no update changes the pool's
   size, unless a refresh has read it: with the order of creation, since an update
   that finds no pool would create one of the initial size. *)
THEOREM ScalerAlwaysManagesPool == Spec => ScalerManagesPool
<1>1. Init => SizeRead
  BY DEF Init, SizeRead
<1>2. ASSUME TypeInv, SizeRead, ServersReady, [Next]_vars
      PROVE  [\A b \in Backends :
                "asc" \in tracked[b] /\ "asc" \in tracked'[b] /\ size'[b] # size[b] /\ done' # done
                   => b \in refreshed]_vars
  BY <1>2, ScalerStep
<1> QED
  BY <1>1, <1>2, TypeStart, TypeStep, SizeReadStep, ServersAlwaysReady, PTL DEF Spec, ScalerManagesPool
=============================================================================
