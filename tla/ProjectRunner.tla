--------------------------- MODULE ProjectRunner ----------------------------
(***************************************************************************)
(* `cs project new | up | destroy | status` on one project directory       *)
(* (cloudspells/cli/commands/project.py, cli/project/runner.py and         *)
(* cli/automation/workspace.py).                                           *)
(*                                                                         *)
(* A command walks over the spells of project.yaml.  Every step another    *)
(* process can see, or a crash can separate, is an action: one file        *)
(* written, one Pulumi stack created, one Pulumi operation.  Pulumi keeps  *)
(* a lock on a stack for the length of an operation, so an operation is    *)
(* one step; how Pulumi and OCI behave is external and nondeterministic.   *)
(***************************************************************************)
EXTENDS Integers, Sequences, SequencesExt

CONSTANTS
  Operators,  \* shells that run commands on the project
  Ops,        \* the commands they run
  Names,      \* spell directories
  Stacks,     \* Pulumi stack names (--stack)
  Known,      \* spell types in SPELL_REGISTRY
  Manifests,  \* spell lists a project.yaml may hold: <<[spell, name], ...>>
  Initial     \* the project.yaml found at the start, or NoProject

NoProject == <<[spell |-> "", name |-> "no project.yaml"]>>

ASSUME OpsAssumption == Ops \subseteq {"new", "up", "preview", "destroy", "status"}
(* An entry of project.yaml: a spell type and the name of its directory. *)
Entry == [spell : STRING, name : Names]

ASSUME ManifestsAssumption == Manifests \subseteq Seq(Entry)
ASSUME InitialAssumption == Initial \in Manifests \cup {NoProject}

VARIABLES
  manifest,   \* contents of project.yaml
  made,       \* the project directory exists
  files,      \* files in each spell directory
  stacks,     \* <<name, stack>>: the Pulumi stacks that exist
  deployed,   \* what each stack has in OCI: "none", "some" or "all" of its resources
  cmd,        \* the command each operator runs, or Idle
  last        \* history: what each operator's last command claims to have done

vars == <<manifest, made, files, stacks, deployed, cmd, last>>

Yaml == "Pulumi.yaml"
Main == "__main__.py"

Idle == [op |-> "idle", stack |-> "", spells |-> <<>>, todo |-> <<>>, at |-> "next"]

Running(o, op) == cmd[o].op = op
Head1(o) == cmd[o].todo[1].name
Scaffolded(n) == Yaml \in files[n]

(* The command is at this step of the spell at the head of todo. *)
AtSpell(o, at) == cmd[o] # Idle /\ cmd[o].todo # <<>> /\ cmd[o].at = at

NoClaim == [op |-> "none", stack |-> "", spells |-> <<>>]

(***************************************************************************)
(* Beginning and end of a command                                          *)
(***************************************************************************)

Begin(o, op, s, spells, todo, at) ==
  /\ cmd' = [cmd EXCEPT ![o] =
               [op |-> op, stack |-> s, spells |-> spells, todo |-> todo, at |-> at]]
  /\ last' = [last EXCEPT ![o] = NoClaim]

(* The command ends; an exception or a kill ends it anywhere.  Only one that
   returns normally ("done") prints that the project was deployed or destroyed. *)
End(o, result) ==
  /\ cmd' = [cmd EXCEPT ![o] = Idle]
  /\ last' = [last EXCEPT ![o] =
               IF result = "done" /\ cmd[o].op \in {"up", "destroy"}
               THEN [op |-> cmd[o].op, stack |-> cmd[o].stack, spells |-> cmd[o].spells]
               ELSE NoClaim]

(* The command goes on to its next step on the same spell. *)
Goto(o, at) ==
  /\ cmd' = [cmd EXCEPT ![o].at = at]
  /\ UNCHANGED last

(* Fault: the next spell is entered in the middle. *)
NextSpellSameStep(o) ==
  /\ cmd' = [cmd EXCEPT ![o].todo = Tail(@)]
  /\ UNCHANGED last

(* The loop goes on to the next spell. *)
NextSpell(o) ==
  /\ cmd' = [cmd EXCEPT ![o].at = "next", ![o].todo = Tail(@)]
  /\ UNCHANGED last

(* `cs project new`: unknown spells and an existing directory are refused
   first, unless --force is given. *)
StartNew(o, m, force) ==
  /\ "new" \in Ops
  /\ cmd[o] = Idle
  /\ m # <<>>
  /\ \A i \in DOMAIN m : m[i].spell \in Known
  /\ force \/ ~made
  /\ Begin(o, "new", "", m, m, "mkdir")
  /\ UNCHANGED <<manifest, made, files, stacks, deployed>>

(* `cs project up`, with or without --preview: project.yaml is read once. *)
StartUp(o, op, s) ==
  /\ op \in Ops \cap {"up", "preview"}
  /\ cmd[o] = Idle
  /\ manifest # NoProject
  /\ Begin(o, op, s, manifest, manifest, "next")
  /\ UNCHANGED <<manifest, made, files, stacks, deployed>>

(* Fault: destroy_project in declaration order. *)
DestroyInOrder(spells) == spells

(* The order in which destroy_project visits the spells. *)
DestroyOrder(spells) == Reverse(spells)

StartDestroy(o, s) ==
  /\ "destroy" \in Ops
  /\ cmd[o] = Idle
  /\ manifest # NoProject
  /\ Begin(o, "destroy", s, manifest, DestroyOrder(manifest), "next")
  /\ UNCHANGED <<manifest, made, files, stacks, deployed>>

StartStatus(o, s) ==
  /\ "status" \in Ops
  /\ cmd[o] = Idle
  /\ manifest # NoProject
  /\ Begin(o, "status", s, manifest, manifest, "next")
  /\ UNCHANGED <<manifest, made, files, stacks, deployed>>

(* out_dir.mkdir(exist_ok=True), after the check for an existing directory. *)
MakeDir(o) ==
  /\ AtSpell(o, "mkdir")
  /\ made' = TRUE
  /\ Goto(o, "next")
  /\ UNCHANGED <<manifest, files, stacks, deployed>>

(* Every spell was visited.  `new` writes project.yaml only now. *)
Finish(o) ==
  /\ cmd[o] # Idle
  /\ cmd[o].todo = <<>>
  /\ manifest' = IF Running(o, "new") THEN cmd[o].spells ELSE manifest
  /\ End(o, "done")
  /\ UNCHANGED <<made, files, stacks, deployed>>

(***************************************************************************)
(* Steps of a command on the spell at the head of todo                     *)
(***************************************************************************)

(* Fault: the old directory is emptied before it is written. *)
WriteYamlAfresh(o) ==
  /\ AtSpell(o, "next")
  /\ \/ Running(o, "new")
     \/ /\ cmd[o].op \in {"up", "preview"}
        /\ cmd[o].todo[1].spell \in Known /\ ~Scaffolded(Head1(o))
  /\ files' = [files EXCEPT ![Head1(o)] = IF @ = {} THEN {Yaml} ELSE {}]
  /\ Goto(o, "main")
  /\ UNCHANGED <<manifest, made, stacks, deployed>>

(* project_new always writes the two files of a spell directory,
   _ensure_spell_dir when there is no Pulumi.yaml: first this one... *)
WriteYaml(o) ==
  /\ AtSpell(o, "next")
  /\ \/ Running(o, "new")
     \/ /\ cmd[o].op \in {"up", "preview"}
        /\ cmd[o].todo[1].spell \in Known /\ ~Scaffolded(Head1(o))
  /\ files' = [files EXCEPT ![Head1(o)] = @ \cup {Yaml}]
  /\ Goto(o, "main")
  /\ UNCHANGED <<manifest, made, stacks, deployed>>

(* ... then the program. *)
WriteMain(o) ==
  /\ AtSpell(o, "main")
  /\ files' = [files EXCEPT ![Head1(o)] = @ \cup {Main}]
  /\ IF Running(o, "new") THEN NextSpell(o) ELSE Goto(o, "stack")
  /\ UNCHANGED <<manifest, made, stacks, deployed>>

(* _ensure_spell_dir with a Pulumi.yaml in place: nothing to scaffold. *)
FoundScaffold(o) ==
  /\ AtSpell(o, "next")
  /\ cmd[o].op \in {"up", "preview", "destroy", "status"}
  /\ cmd[o].op \in {"up", "preview"} => cmd[o].todo[1].spell \in Known
  /\ Scaffolded(Head1(o))
  /\ Goto(o, "stack")
  /\ UNCHANGED <<manifest, made, files, stacks, deployed>>

(* An unknown spell is found only when its turn comes: ValueError. *)
UnknownSpell(o) ==
  /\ AtSpell(o, "next")
  /\ cmd[o].op \in {"up", "preview"}
  /\ cmd[o].todo[1].spell \notin Known
  /\ End(o, "ValueError")
  /\ UNCHANGED <<manifest, made, files, stacks, deployed>>

(* Fault: the skipped spell is visited again. *)
SkipForever(o) ==
  /\ AtSpell(o, "next")
  /\ cmd[o].op \in {"destroy", "status"}
  /\ ~Scaffolded(Head1(o))
  /\ IF Running(o, "destroy") THEN Goto(o, "next") ELSE NextSpell(o)
  /\ UNCHANGED <<manifest, made, files, stacks, deployed>>

(* destroy and status pass over a directory without a Pulumi.yaml. *)
Skip(o) ==
  /\ AtSpell(o, "next")
  /\ cmd[o].op \in {"destroy", "status"}
  /\ ~Scaffolded(Head1(o))
  /\ NextSpell(o)
  /\ UNCHANGED <<manifest, made, files, stacks, deployed>>

(* get_stack: create_or_select_stack. *)
GetStack(o) ==
  /\ AtSpell(o, "stack")
  /\ stacks' = stacks \cup {<<Head1(o), cmd[o].stack>>}
  /\ Goto(o, "op")
  /\ UNCHANGED <<manifest, made, files, deployed>>

Deployed(o) == deployed[Head1(o)][cmd[o].stack]
SetDeployed(o, d) == deployed' = [deployed EXCEPT ![Head1(o)][cmd[o].stack] = d]

(* The Pulumi operation succeeds.  up and preview run the program. *)
Operate(o) ==
  /\ AtSpell(o, "op")
  /\ cmd[o].op \in {"up", "preview", "destroy"}
  /\ cmd[o].op \in {"up", "preview"} => Main \in files[Head1(o)]
  /\ CASE Running(o, "up")      -> SetDeployed(o, "all")
       [] Running(o, "destroy") -> SetDeployed(o, "none")
       [] OTHER                 -> UNCHANGED deployed
  /\ NextSpell(o)
  /\ UNCHANGED <<manifest, made, files, stacks>>

(* What a failed operation may leave behind. *)
Remains(op, d) ==
  CASE op = "up"      -> IF d = "all" THEN {"some", "all"} ELSE {d, "some"}
    [] op = "destroy" -> IF d = "none" THEN {"none"} ELSE {d, "some"}
    [] OTHER          -> {d}

(* Fault: the exception of a failed operation is swallowed. *)
OperationFailsQuietly(o) ==
  /\ AtSpell(o, "op")
  /\ cmd[o].op \in {"up", "preview", "destroy"}
  /\ IF Running(o, "destroy") \/ Main \in files[Head1(o)]
     THEN \E d \in Remains(cmd[o].op, Deployed(o)) : SetDeployed(o, d)
     ELSE UNCHANGED deployed
  /\ NextSpell(o)
  /\ UNCHANGED <<manifest, made, files, stacks>>

(* The Pulumi operation fails: CommandError ends the command.  Without its
   program an up fails before it changes anything. *)
OperationFails(o) ==
  /\ AtSpell(o, "op")
  /\ cmd[o].op \in {"up", "preview", "destroy"}
  /\ IF Running(o, "destroy") \/ Main \in files[Head1(o)]
     THEN \E d \in Remains(cmd[o].op, Deployed(o)) : SetDeployed(o, d)
     ELSE UNCHANGED deployed
  /\ End(o, "CommandError")
  /\ UNCHANGED <<manifest, made, files, stacks>>

(* project_status: export_stack succeeds or raises; either way there is a row
   and the next spell's turn comes. *)
Export(o) ==
  /\ AtSpell(o, "op")
  /\ Running(o, "status")
  /\ NextSpell(o)
  /\ UNCHANGED <<manifest, made, files, stacks, deployed>>

(* project_status: get_stack raises, which is a "not deployed" row as well. *)
StatusSwallows(o) ==
  /\ AtSpell(o, "stack")
  /\ Running(o, "status")
  /\ NextSpell(o)
  /\ UNCHANGED <<manifest, made, files, stacks, deployed>>

(* The process dies, or get_stack raises, between two steps. *)
Interrupt(o) ==
  /\ cmd[o] # Idle
  /\ End(o, "interrupted")
  /\ UNCHANGED <<manifest, made, files, stacks, deployed>>

-----------------------------------------------------------------------------

Init ==
  /\ manifest = Initial
  /\ made     = (Initial # NoProject)
  /\ files    = [n \in Names |-> {}]
  /\ stacks   = {}
  /\ deployed = [n \in Names |-> [s \in Stacks |-> "none"]]
  /\ cmd      = [o \in Operators |-> Idle]
  /\ last     = [o \in Operators |-> NoClaim]

Start(o) ==
  \/ \E m \in Manifests, force \in BOOLEAN : StartNew(o, m, force)
  \/ \E s \in Stacks, op \in {"up", "preview"} : StartUp(o, op, s)
  \/ \E s \in Stacks : StartDestroy(o, s)
  \/ \E s \in Stacks : StartStatus(o, s)

Step(o) ==
  \/ MakeDir(o) \/ Finish(o)
  \/ WriteYaml(o) \/ WriteMain(o) \/ FoundScaffold(o) \/ UnknownSpell(o)
  \/ Skip(o)
  \/ GetStack(o)
  \/ Operate(o) \/ OperationFails(o)
  \/ Export(o) \/ StatusSwallows(o)

Next == \E o \in Operators : Start(o) \/ Step(o) \/ Interrupt(o)

Spec == Init /\ [][Next]_vars

(* A running process gets on with its command. *)
FairSpec == Spec /\ \A o \in Operators : WF_vars(Step(o))

-----------------------------------------------------------------------------

(* Values of the variables; a command between two spells has no spell, and one
   in the middle of a spell has it at the head of todo. *)
TypeOK ==
  /\ manifest \in Manifests \cup {NoProject}
  /\ made \in BOOLEAN
  /\ files \in [Names -> SUBSET {Yaml, Main}]
  /\ stacks \subseteq Names \X Stacks
  /\ deployed \in [Names -> [Stacks -> {"none", "some", "all"}]]
  /\ \A o \in Operators :
       /\ cmd[o].op \in Ops \cup {"idle"}
       /\ cmd[o].at \in {"mkdir", "next", "main", "stack", "op"}
       /\ cmd[o].at # "next" => cmd[o].todo # <<>>
       /\ \A i \in DOMAIN cmd[o].todo : cmd[o].todo[i].name \in Names

(* destroy_project passes in silence over directories without a Pulumi.yaml.
   It never passes over live resources: whatever was killed, forced or run by
   someone else at the same time, a stack with resources has its Pulumi.yaml
   and its Pulumi stack. *)
DeployedIsManaged ==
  \A n \in Names, s \in Stacks :
    deployed[n][s] # "none" => Scaffolded(n) /\ <<n, s>> \in stacks

(* deploy_project goes in declaration order and destroy_project in the reverse
   one, so a spell has resources only while every spell declared before it
   has, after any history of failed and killed commands by one operator. *)
PrefixDeployed ==
  \A s \in Stacks : \A i, j \in DOMAIN manifest :
    i < j /\ deployed[manifest[j].name][s] # "none" => deployed[manifest[i].name][s] # "none"

(* "Project deployed": an `up` that returned normally left every spell of the
   manifest it read completely deployed in its stack, none skipped. *)
UpDeploysAll ==
  \A o \in Operators :
    last[o].op = "up" =>
      \A i \in DOMAIN last[o].spells : deployed[last[o].spells[i].name][last[o].stack] = "all"

(* "Project destroyed": a destroy that returned normally left no resources of
   the spells of the manifest it read. *)
DestroyLeavesNothing ==
  \A o \in Operators :
    last[o].op = "destroy" =>
      \A i \in DOMAIN last[o].spells : deployed[last[o].spells[i].name][last[o].stack] = "none"

(* Every command ends: no sequence of skipped, failed and repeated spells keeps
   one running. *)
CommandsEnd == \A o \in Operators : (cmd[o] # Idle) ~> (cmd[o] = Idle)

-----------------------------------------------------------------------------
(* What the documentation says and the code does not do. *)

(* project_new and deploy_project promise directories that hold "a Pulumi.yaml
   and __main__.py": an up that reaches Pulumi has a program to run. *)
ScaffoldComplete ==
  \A o \in Operators :
    cmd[o].op \in {"up", "preview"} /\ cmd[o].at = "op" => Main \in files[Head1(o)]
=============================================================================
