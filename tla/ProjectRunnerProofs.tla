------------------------ MODULE ProjectRunnerProofs -------------------------
(***************************************************************************)
(* Nothing live is ever passed over: DeployedIsManaged, for any number of  *)
(* operators, spells and stacks, any commands and any project.yaml.        *)
(*                                                                         *)
(* DeployedIsManaged alone is not inductive: an `up` or a `destroy` in the *)
(* middle of a spell must be known to have found, or written, its          *)
(* Pulumi.yaml and to have its stack, and to keep them whatever the other  *)
(* operators do.  The second part is about one operator alone.             *)
(***************************************************************************)
EXTENDS ProjectRunner, TLAPS

(* The command of an operator is a record with these fields. *)
Fields(c) ==
  c = [op |-> c.op, stack |-> c.stack, spells |-> c.spells, todo |-> c.todo, at |-> c.at]

Shapes ==
  /\ DOMAIN files = Names
  /\ deployed \in [Names -> [Stacks -> {"none", "some", "all"}]]
  /\ DOMAIN cmd = Operators
  /\ \A o \in Operators : Fields(cmd[o])

(* A command past the first step of a spell has its Pulumi.yaml, and one at
   the Pulumi operation has its stack. *)
Sound(o) ==
  /\ cmd[o].at \in {"main", "stack", "op"} /\ Head1(o) \in Names => Scaffolded(Head1(o))
  /\ cmd[o].at = "op" => <<Head1(o), cmd[o].stack>> \in stacks

ManagedInv == Shapes /\ (\A o \in Operators : Sound(o)) /\ DeployedIsManaged

(* Files and stacks are only added, never removed. *)
OnlyGrows ==
  /\ \A n \in Names : files[n] \subseteq files'[n]
  /\ stacks \subseteq stacks'

(* The commands of the other operators do not change. *)
OnlyMoves(o) == \A p \in Operators \ {o} : cmd'[p] = cmd[p]

(* A step of one operator that leaves the resources alone keeps the invariant
   if it leaves that operator's own command sound. *)
LEMMA QuietStep ==
  ASSUME ManagedInv, Shapes', OnlyGrows, NEW o \in Operators, OnlyMoves(o),
         Sound(o)', UNCHANGED deployed
  PROVE  ManagedInv'
<1>1. ASSUME NEW p \in Operators
      PROVE  Sound(p)'
  <2>1. CASE p = o
    BY <2>1
  <2>2. CASE p # o
    BY <2>2 DEF ManagedInv, Sound, Head1, Scaffolded, OnlyGrows, OnlyMoves
  <2> QED BY <2>1, <2>2
<1>2. DeployedIsManaged'
  BY DEF ManagedInv, DeployedIsManaged, Scaffolded, OnlyGrows
<1> QED BY <1>1, <1>2 DEF ManagedInv

(* Records with the fields of a command have its shape. *)
LEMMA CommandFields ==
  ASSUME NEW op, NEW s, NEW spells, NEW todo, NEW at
  PROVE  Fields([op |-> op, stack |-> s, spells |-> spells, todo |-> todo, at |-> at])
  BY DEF Fields

(* A new command starts between two spells. *)
LEMMA BeginSound ==
  ASSUME Shapes, NEW o \in Operators, NEW op, NEW s, NEW spells, NEW todo,
         NEW at \in {"mkdir", "next"}, Begin(o, op, s, spells, todo, at),
         UNCHANGED <<files, deployed>>
  PROVE  Shapes' /\ Sound(o)' /\ OnlyMoves(o)
<1>1. /\ cmd'[o] = [op |-> op, stack |-> s, spells |-> spells, todo |-> todo, at |-> at]
      /\ DOMAIN cmd' = Operators
      /\ OnlyMoves(o)
  BY DEF Begin, Shapes, OnlyMoves
<1> QED BY <1>1 DEF Shapes, Fields, Sound, OnlyMoves

(* So does the end of a command. *)
LEMMA EndSound ==
  ASSUME Shapes, NEW o \in Operators, NEW result, End(o, result),
         DOMAIN files' = Names,
         deployed' \in [Names -> [Stacks -> {"none", "some", "all"}]]
  PROVE  Shapes' /\ Sound(o)' /\ OnlyMoves(o)
<1>1. cmd'[o] = Idle /\ DOMAIN cmd' = Operators /\ OnlyMoves(o)
  BY DEF End, Shapes, OnlyMoves
<1>2. Fields(cmd'[o]) /\ cmd'[o].at = "next"
  <2>1. Fields(Idle) /\ Idle.at = "next"
    BY CommandFields, Zenon DEF Idle
  <2> QED BY <1>1, <2>1
<1>3. Shapes'
  BY <1>1, <1>2 DEF Shapes, OnlyMoves
<1> QED BY <1>1, <1>2, <1>3 DEF Sound

(* And the loop's next round. *)
LEMMA NextSpellSound ==
  ASSUME Shapes, NEW o \in Operators, NextSpell(o),
         DOMAIN files' = Names,
         deployed' \in [Names -> [Stacks -> {"none", "some", "all"}]]
  PROVE  Shapes' /\ Sound(o)' /\ OnlyMoves(o)
<1>1. Fields(cmd[o])
  BY DEF Shapes
<1>2. /\ cmd'[o] = [op |-> cmd[o].op, stack |-> cmd[o].stack, spells |-> cmd[o].spells,
                    todo |-> Tail(cmd[o].todo), at |-> "next"]
      /\ DOMAIN cmd' = Operators
      /\ OnlyMoves(o)
  BY <1>1 DEF NextSpell, Shapes, OnlyMoves, Fields
<1> QED BY <1>2 DEF Shapes, Fields, Sound, OnlyMoves

(* The next step on the same spell changes the step only. *)
LEMMA GotoStep ==
  ASSUME Shapes, NEW o \in Operators, NEW at, Goto(o, at), DOMAIN files' = Names,
         deployed' \in [Names -> [Stacks -> {"none", "some", "all"}]]
  PROVE  /\ Shapes' /\ OnlyMoves(o)
         /\ cmd'[o].at = at /\ cmd'[o].stack = cmd[o].stack
         /\ Head1(o)' = Head1(o)
<1>1. Fields(cmd[o])
  BY DEF Shapes
<1>2. /\ cmd'[o] = [op |-> cmd[o].op, stack |-> cmd[o].stack, spells |-> cmd[o].spells,
                    todo |-> cmd[o].todo, at |-> at]
      /\ DOMAIN cmd' = Operators
      /\ OnlyMoves(o)
  BY <1>1 DEF Goto, Shapes, OnlyMoves, Fields
<1> QED BY <1>2 DEF Shapes, Fields, OnlyMoves, Head1

(* Every step of every operator keeps the invariant. *)
LEMMA ManagedNext == ManagedInv /\ [Next]_vars => ManagedInv'
<1> SUFFICES ASSUME ManagedInv, Next
             PROVE  ManagedInv'
  <2>1. CASE UNCHANGED vars
    BY <2>1 DEF vars, ManagedInv, Shapes, Fields, Sound, Head1, Scaffolded, DeployedIsManaged
  <2> QED BY <2>1
<1> PICK o \in Operators : Start(o) \/ Step(o) \/ Interrupt(o)
  BY DEF Next
<1> USE DEF ManagedInv
<1>1. DOMAIN files = Names /\ deployed \in [Names -> [Stacks -> {"none", "some", "all"}]]
  BY DEF Shapes
<1>2. CASE Start(o)
  <2>1. UNCHANGED <<files, deployed, stacks>> /\ OnlyGrows
    BY <1>2 DEF Start, StartNew, StartUp, StartDestroy, StartStatus, OnlyGrows
  <2>2. \E op, s, spells, todo : \E at \in {"mkdir", "next"} : Begin(o, op, s, spells, todo, at)
    BY <1>2 DEF Start, StartNew, StartUp, StartDestroy, StartStatus
  <2>3. Shapes' /\ Sound(o)' /\ OnlyMoves(o)
    BY <2>1, <2>2, BeginSound
  <2> QED BY <2>1, <2>3, QuietStep
<1>3. CASE Interrupt(o) \/ Finish(o) \/ UnknownSpell(o)
  <2>1. UNCHANGED <<files, deployed, stacks>> /\ OnlyGrows
    BY <1>3 DEF Interrupt, Finish, UnknownSpell, OnlyGrows
  <2>2. \E result : End(o, result)
    BY <1>3 DEF Interrupt, Finish, UnknownSpell
  <2>3. Shapes' /\ Sound(o)' /\ OnlyMoves(o)
    BY <1>1, <2>1, <2>2, EndSound
  <2> QED BY <2>1, <2>3, QuietStep
<1>4. CASE Skip(o) \/ Export(o) \/ StatusSwallows(o)
  <2>1. UNCHANGED <<files, deployed, stacks>> /\ OnlyGrows
    BY <1>4 DEF Skip, Export, StatusSwallows, OnlyGrows
  <2>2. NextSpell(o)
    BY <1>4 DEF Skip, Export, StatusSwallows
  <2>3. Shapes' /\ Sound(o)' /\ OnlyMoves(o)
    BY <1>1, <2>1, <2>2, NextSpellSound
  <2> QED BY <2>1, <2>3, QuietStep
<1>5. CASE MakeDir(o) \/ FoundScaffold(o)
  <2>1. UNCHANGED <<files, deployed, stacks>> /\ OnlyGrows
    BY <1>5 DEF MakeDir, FoundScaffold, OnlyGrows
  <2>2. CASE MakeDir(o)
    <3>1. Goto(o, "next")
      BY <2>2 DEF MakeDir
    <3>2. Shapes' /\ OnlyMoves(o) /\ Sound(o)'
      BY <1>1, <2>1, <3>1, GotoStep DEF Sound
    <3> QED BY <2>1, <3>2, QuietStep
  <2>3. CASE FoundScaffold(o)
    <3>1. Goto(o, "stack") /\ Scaffolded(Head1(o))
      BY <2>3 DEF FoundScaffold
    <3>2. /\ Shapes' /\ OnlyMoves(o)
          /\ cmd'[o].at = "stack" /\ Head1(o)' = Head1(o)
      BY <1>1, <2>1, <3>1, GotoStep
    <3>3. Sound(o)'
      BY <2>1, <3>1, <3>2 DEF Sound, Scaffolded
    <3> QED BY <2>1, <3>2, <3>3, QuietStep
  <2> QED BY <1>5, <2>2, <2>3
<1>6. CASE WriteYaml(o)
  <2>1. /\ files' = [files EXCEPT ![Head1(o)] = @ \cup {Yaml}]
        /\ UNCHANGED <<deployed, stacks>> /\ Goto(o, "main")
    BY <1>6 DEF WriteYaml
  <2>2. DOMAIN files' = Names /\ OnlyGrows
    BY <1>1, <2>1 DEF OnlyGrows
  <2>3. /\ Shapes' /\ OnlyMoves(o)
        /\ cmd'[o].at = "main" /\ Head1(o)' = Head1(o)
    BY <1>1, <2>1, <2>2, GotoStep
  <2>4. Head1(o) \in Names => Yaml \in files'[Head1(o)]
    BY <1>1, <2>1
  <2>5. Sound(o)'
    BY <2>3, <2>4 DEF Sound, Scaffolded
  <2> QED BY <2>1, <2>2, <2>3, <2>5, QuietStep
<1>7. CASE WriteMain(o)
  <2>1. /\ files' = [files EXCEPT ![Head1(o)] = @ \cup {Main}]
        /\ UNCHANGED <<deployed, stacks>> /\ cmd[o].at = "main"
        /\ NextSpell(o) \/ Goto(o, "stack")
    BY <1>7 DEF WriteMain, AtSpell
  <2>2. DOMAIN files' = Names /\ OnlyGrows
    BY <1>1, <2>1 DEF OnlyGrows
  <2>3. CASE NextSpell(o)
    BY <1>1, <2>1, <2>2, <2>3, NextSpellSound, QuietStep
  <2>4. CASE Goto(o, "stack")
    <3>1. /\ Shapes' /\ OnlyMoves(o)
          /\ cmd'[o].at = "stack" /\ Head1(o)' = Head1(o)
      BY <1>1, <2>1, <2>2, <2>4, GotoStep
    <3>2. Head1(o) \in Names => Yaml \in files'[Head1(o)]
      BY <2>1, <2>2 DEF Sound, Scaffolded, OnlyGrows
    <3>3. Sound(o)'
      BY <3>1, <3>2 DEF Sound, Scaffolded
    <3> QED BY <2>1, <2>2, <3>1, <3>3, QuietStep
  <2> QED BY <2>1, <2>3, <2>4
<1>8. CASE GetStack(o)
  <2>1. /\ stacks' = stacks \cup {<<Head1(o), cmd[o].stack>>}
        /\ UNCHANGED <<files, deployed>> /\ cmd[o].at = "stack"
        /\ Goto(o, "op")
    BY <1>8 DEF GetStack, AtSpell
  <2>2. OnlyGrows
    BY <2>1 DEF OnlyGrows
  <2>3. /\ Shapes' /\ OnlyMoves(o)
        /\ cmd'[o].at = "op" /\ cmd'[o].stack = cmd[o].stack /\ Head1(o)' = Head1(o)
    BY <1>1, <2>1, GotoStep
  <2>4. Sound(o)'
    BY <2>1, <2>3 DEF Sound, Scaffolded
  <2> QED BY <2>1, <2>2, <2>3, <2>4, QuietStep
<1>9. CASE Operate(o) \/ OperationFails(o)
  <2>1. /\ UNCHANGED <<files, stacks>> /\ cmd[o].at = "op"
        /\ NextSpell(o) \/ End(o, "CommandError")
    BY <1>9 DEF Operate, OperationFails, AtSpell
  <2>2. UNCHANGED deployed \/ \E d \in {"none", "some", "all"} : SetDeployed(o, d)
    <3>1. CASE Operate(o)
      BY <3>1 DEF Operate
    <3>2. CASE OperationFails(o)
      <4>1. UNCHANGED deployed \/ \E d \in Remains(cmd[o].op, Deployed(o)) : SetDeployed(o, d)
        BY <3>2 DEF OperationFails
      <4>2. CASE Head1(o) \in Names /\ cmd[o].stack \in Stacks
        <5>1. Deployed(o) \in {"none", "some", "all"}
          BY <1>1, <4>2 DEF Deployed
        <5>2. Remains(cmd[o].op, Deployed(o)) \subseteq {"none", "some", "all"}
          BY <5>1 DEF Remains
        <5> QED BY <4>1, <5>2
      <4>3. CASE ~(Head1(o) \in Names /\ cmd[o].stack \in Stacks)
        <5>1. ASSUME NEW d, SetDeployed(o, d) PROVE deployed' = deployed
          BY <1>1, <4>3, <5>1 DEF SetDeployed
        <5> QED BY <4>1, <5>1
      <4> QED BY <4>2, <4>3
    <3> QED BY <1>9, <3>1, <3>2
  <2>3. deployed' \in [Names -> [Stacks -> {"none", "some", "all"}]]
    BY <1>1, <2>2 DEF SetDeployed
  <2>4. Shapes' /\ Sound(o)' /\ OnlyMoves(o)
    BY <1>1, <2>1, <2>3, NextSpellSound, EndSound
  <2>5. ASSUME NEW p \in Operators PROVE Sound(p)'
    BY <2>1, <2>4 DEF Sound, Head1, Scaffolded, OnlyMoves
  <2>6. ASSUME NEW n \in Names, NEW s \in Stacks, deployed'[n][s] # "none"
        PROVE  Scaffolded(n)' /\ <<n, s>> \in stacks'
    <3>1. CASE deployed[n][s] # "none"
      BY <2>1, <3>1 DEF DeployedIsManaged, Scaffolded
    <3>2. CASE deployed[n][s] = "none"
      <4>1. n = Head1(o) /\ s = cmd[o].stack
        BY <1>1, <2>2, <2>6, <3>2 DEF SetDeployed
      <4> QED BY <2>1, <4>1 DEF Sound, Scaffolded
    <3> QED BY <3>1, <3>2
  <2> QED BY <2>4, <2>5, <2>6 DEF DeployedIsManaged
<1> QED BY <1>2, <1>3, <1>4, <1>5, <1>6, <1>7, <1>8, <1>9 DEF Step

(* The invariant holds in every state. *)
LEMMA ManagedInvariant == Spec => []ManagedInv
<1>1. Init => ManagedInv
  <2>1. Fields(Idle) /\ Idle.at = "next"
    BY CommandFields, Zenon DEF Idle
  <2> SUFFICES ASSUME Init PROVE ManagedInv
    OBVIOUS
  <2>2. /\ DOMAIN cmd = Operators /\ \A o \in Operators : cmd[o] = Idle
        /\ DOMAIN files = Names
        /\ deployed = [n \in Names |-> [s \in Stacks |-> "none"]]
    BY DEF Init
  <2>3. Shapes
    BY <2>1, <2>2 DEF Shapes
  <2>4. \A o \in Operators : Sound(o)
    BY <2>1, <2>2 DEF Sound
  <2>5. DeployedIsManaged
    BY <2>2 DEF DeployedIsManaged
  <2> QED BY <2>3, <2>4, <2>5 DEF ManagedInv
<1> QED BY <1>1, ManagedNext, PTL DEF Spec

(* Whatever commands run at the same time, fail or are killed: a stack with
   resources has its Pulumi.yaml and its Pulumi stack, so no destroy passes it
   over in silence. *)
THEOREM NothingLiveIsSkipped == Spec => []DeployedIsManaged
<1>1. ManagedInv => DeployedIsManaged
  BY DEF ManagedInv
<1> QED BY <1>1, ManagedInvariant, PTL

-----------------------------------------------------------------------------

(* A command that runs: what it was given, what is left of it, and that only
   those with a stack come to the steps that use it. *)
GoodCommand(c) ==
  c # Idle =>
    /\ c.op \in Ops
    /\ c.op # "new" => c.stack \in Stacks
    /\ c.spells \in Manifests
    /\ c.todo \in Seq(Entry)
    /\ c.at \in {"mkdir", "next", "main", "stack", "op"}
    /\ c.at # "next" => c.todo # <<>>
    /\ c.at \in {"stack", "op"} => c.op # "new"

CommandsOK ==
  /\ manifest \in Manifests \cup {NoProject}
  /\ made \in BOOLEAN
  /\ files \in [Names -> SUBSET {Yaml, Main}]
  /\ stacks \subseteq Names \X Stacks
  /\ \A o \in Operators : GoodCommand(cmd[o])

(* The fields of Idle. *)
LEMMA IdleFields ==
  Idle.op = "idle" /\ Idle.at = "next" /\ Idle.todo = <<>>
  BY DEF Idle

(* A command with parts of the right types is a good one. *)
LEMMA GoodRecord ==
  ASSUME NEW op \in Ops, NEW s, op # "new" => s \in Stacks, NEW spells \in Manifests,
         NEW todo \in Seq(Entry), NEW at \in {"mkdir", "next", "main", "stack", "op"},
         at # "next" => todo # <<>>, at \in {"stack", "op"} => op # "new"
  PROVE  GoodCommand([op |-> op, stack |-> s, spells |-> spells, todo |-> todo, at |-> at])
  BY DEF GoodCommand

(* How the four ways to go on change the command of an operator. *)
LEMMA BeginFields ==
  ASSUME Shapes, NEW o \in Operators, NEW op, NEW s, NEW spells, NEW todo, NEW at,
         Begin(o, op, s, spells, todo, at)
  PROVE  /\ cmd'[o] = [op |-> op, stack |-> s, spells |-> spells, todo |-> todo, at |-> at]
         /\ OnlyMoves(o)
  BY DEF Begin, Shapes, OnlyMoves

(* The command is over... *)
LEMMA EndFields ==
  ASSUME Shapes, NEW o \in Operators, NEW result, End(o, result)
  PROVE  cmd'[o] = Idle /\ OnlyMoves(o)
  BY DEF End, Shapes, OnlyMoves

(* ... goes on with the same spell... *)
LEMMA GotoFields ==
  ASSUME Shapes, NEW o \in Operators, NEW at, Goto(o, at)
  PROVE  /\ cmd'[o] = [op |-> cmd[o].op, stack |-> cmd[o].stack, spells |-> cmd[o].spells,
                       todo |-> cmd[o].todo, at |-> at]
         /\ OnlyMoves(o)
<1>1. Fields(cmd[o])
  BY DEF Shapes
<1> QED BY <1>1 DEF Goto, Shapes, OnlyMoves, Fields

(* ... or turns to the next one. *)
LEMMA NextSpellFields ==
  ASSUME Shapes, NEW o \in Operators, NextSpell(o)
  PROVE  /\ cmd'[o] = [op |-> cmd[o].op, stack |-> cmd[o].stack, spells |-> cmd[o].spells,
                       todo |-> Tail(cmd[o].todo), at |-> "next"]
         /\ OnlyMoves(o)
<1>1. Fields(cmd[o])
  BY DEF Shapes
<1> QED BY <1>1 DEF NextSpell, Shapes, OnlyMoves, Fields

(* Reversing a list of entries gives a list of entries. *)
LEMMA DestroyOrderEntries ==
  ASSUME NEW m \in Seq(Entry)
  PROVE  /\ DestroyOrder(m) \in Seq(Entry) /\ Len(DestroyOrder(m)) = Len(m)
         /\ \A i \in 1..Len(m) : DestroyOrder(m)[i] = m[Len(m) + 1 - i]
<1>1. DestroyOrder(m) = [i \in 1..Len(m) |-> m[(Len(m) - i) + 1]]
  BY DEF DestroyOrder, Reverse
<1>2. \A i \in 1..Len(m) : m[(Len(m) - i) + 1] \in Entry /\ (Len(m) - i) + 1 = Len(m) + 1 - i
  OBVIOUS
<1> QED BY <1>1, <1>2

(* Steps of a running command keep its values. *)
LEMMA CommandsNext == ManagedInv /\ CommandsOK /\ [Next]_vars => CommandsOK'
<1> SUFFICES ASSUME ManagedInv, CommandsOK, Next
             PROVE  CommandsOK'
  <2>1. CASE UNCHANGED vars
    BY <2>1 DEF vars, CommandsOK, GoodCommand
  <2> QED BY <2>1
<1> PICK o \in Operators : Start(o) \/ Step(o) \/ Interrupt(o)
  BY DEF Next
<1>1. Shapes /\ GoodCommand(cmd[o])
  BY DEF ManagedInv, CommandsOK
<1>2. ASSUME OnlyMoves(o), GoodCommand(cmd'[o])
      PROVE  \A p \in Operators : GoodCommand(cmd'[p])
  BY <1>2 DEF OnlyMoves, CommandsOK
<1>3. ASSUME AtSpell(o, cmd[o].at)
      PROVE  /\ cmd[o] # Idle /\ cmd[o].op \in Ops /\ (cmd[o].op # "new" => cmd[o].stack \in Stacks)
             /\ cmd[o].spells \in Manifests
             /\ cmd[o].todo \in Seq(Entry) /\ cmd[o].todo # <<>>
             /\ Head1(o) \in Names /\ Tail(cmd[o].todo) \in Seq(Entry)
  <2>1. cmd[o] # Idle /\ cmd[o].todo # <<>>
    BY <1>3 DEF AtSpell
  <2>2. cmd[o].todo \in Seq(Entry)
    BY <1>1, <2>1 DEF GoodCommand
  <2>3. cmd[o].todo[1] \in Entry /\ Tail(cmd[o].todo) \in Seq(Entry)
    BY <2>1, <2>2
  <2>4. Head1(o) \in Names
    BY <2>3 DEF Head1, Entry
  <2> QED BY <1>1, <2>1, <2>2, <2>3, <2>4 DEF GoodCommand
<1>4. CASE Start(o)
  <2>1. UNCHANGED <<manifest, made, files, stacks>>
    BY <1>4 DEF Start, StartNew, StartUp, StartDestroy, StartStatus
  <2>2. CASE \E m \in Manifests, force \in BOOLEAN : StartNew(o, m, force)
    <3>1. PICK m \in Manifests : "new" \in Ops /\ m # <<>> /\ Begin(o, "new", "", m, m, "mkdir")
      BY <2>2 DEF StartNew
    <3>2. m \in Seq(Entry)
      BY ManifestsAssumption
    <3>3. GoodCommand(cmd'[o]) /\ OnlyMoves(o)
      <4>1. /\ cmd'[o] = [op |-> "new", stack |-> "", spells |-> m, todo |-> m, at |-> "mkdir"]
            /\ OnlyMoves(o)
        BY <1>1, <3>1, BeginFields
      <4> QED BY <3>1, <3>2, <4>1, GoodRecord
    <3> QED BY <1>2, <2>1, <3>3 DEF CommandsOK
  <2>3. ASSUME manifest \in Manifests, NEW s \in Stacks, NEW op \in Ops, op # "new",
               NEW todo \in Seq(Entry), Begin(o, op, s, manifest, todo, "next")
        PROVE  CommandsOK'
    <3>1. GoodCommand(cmd'[o]) /\ OnlyMoves(o)
      <4>1. /\ cmd'[o] = [op |-> op, stack |-> s, spells |-> manifest, todo |-> todo, at |-> "next"]
            /\ OnlyMoves(o)
        BY <1>1, <2>3, BeginFields
      <4> QED BY <2>3, <4>1, GoodRecord
    <3> QED BY <1>2, <2>1, <3>1 DEF CommandsOK
  <2>4. manifest # NoProject => manifest \in Manifests /\ manifest \in Seq(Entry)
    BY ManifestsAssumption DEF CommandsOK
  <2>5. CASE \E s \in Stacks, op \in {"up", "preview"} : StartUp(o, op, s)
    <3>1. PICK s \in Stacks, op \in {"up", "preview"} :
            op \in Ops /\ manifest # NoProject /\ Begin(o, op, s, manifest, manifest, "next")
      BY <2>5 DEF StartUp
    <3> QED BY <2>3, <2>4, <3>1
  <2>6. CASE \E s \in Stacks : StartDestroy(o, s)
    <3>1. PICK s \in Stacks :
            /\ "destroy" \in Ops /\ manifest # NoProject
            /\ Begin(o, "destroy", s, manifest, DestroyOrder(manifest), "next")
      BY <2>6 DEF StartDestroy
    <3>2. DestroyOrder(manifest) \in Seq(Entry)
      BY <2>4, <3>1, DestroyOrderEntries
    <3> QED BY <2>3, <2>4, <3>1, <3>2
  <2>7. CASE \E s \in Stacks : StartStatus(o, s)
    <3>1. PICK s \in Stacks :
            "status" \in Ops /\ manifest # NoProject /\ Begin(o, "status", s, manifest, manifest, "next")
      BY <2>7 DEF StartStatus
    <3> QED BY <2>3, <2>4, <3>1
  <2> QED BY <1>4, <2>2, <2>5, <2>6, <2>7 DEF Start
<1>5. CASE Interrupt(o) \/ Finish(o) \/ UnknownSpell(o)
  <2>1. /\ UNCHANGED <<made, files, stacks>> /\ manifest' \in Manifests \cup {NoProject}
        /\ \E result : End(o, result)
    BY <1>1, <1>5 DEF Interrupt, Finish, UnknownSpell, CommandsOK, GoodCommand
  <2>2. GoodCommand(cmd'[o]) /\ OnlyMoves(o)
    BY <1>1, <2>1, EndFields DEF GoodCommand
  <2> QED BY <1>2, <2>1, <2>2 DEF CommandsOK
<1>6. ASSUME AtSpell(o, cmd[o].at), NextSpell(o)
      PROVE  \A p \in Operators : GoodCommand(cmd'[p])
  <2>1. /\ cmd'[o] = [op |-> cmd[o].op, stack |-> cmd[o].stack, spells |-> cmd[o].spells,
                      todo |-> Tail(cmd[o].todo), at |-> "next"]
        /\ OnlyMoves(o)
    BY <1>1, <1>6, NextSpellFields
  <2>2. GoodCommand(cmd'[o])
    BY <1>3, <1>6, <2>1, GoodRecord
  <2> QED BY <1>2, <2>1, <2>2
<1>7. ASSUME AtSpell(o, cmd[o].at), NEW at \in {"next", "main", "stack", "op"}, Goto(o, at),
             at \in {"stack", "op"} => cmd[o].op # "new"
      PROVE  \A p \in Operators : GoodCommand(cmd'[p])
  <2>1. /\ cmd'[o] = [op |-> cmd[o].op, stack |-> cmd[o].stack, spells |-> cmd[o].spells,
                      todo |-> cmd[o].todo, at |-> at]
        /\ OnlyMoves(o)
    BY <1>1, <1>7, GotoFields
  <2>2. GoodCommand(cmd'[o])
    BY <1>3, <1>7, <2>1, GoodRecord
  <2> QED BY <1>2, <2>1, <2>2
<1>8. CASE Skip(o) \/ Export(o) \/ StatusSwallows(o)
  BY <1>6, <1>8 DEF Skip, Export, StatusSwallows, AtSpell, CommandsOK
<1>9. CASE MakeDir(o)
  BY <1>7, <1>9 DEF MakeDir, AtSpell, CommandsOK
<1>10. CASE FoundScaffold(o)
  BY <1>7, <1>10 DEF FoundScaffold, AtSpell, CommandsOK
<1>11. CASE WriteYaml(o)
  <2>1. files' \in [Names -> SUBSET {Yaml, Main}]
    BY <1>11 DEF WriteYaml, CommandsOK
  <2> QED BY <1>7, <1>11, <2>1 DEF WriteYaml, AtSpell, CommandsOK
<1>12. CASE WriteMain(o)
  <2>1. files' \in [Names -> SUBSET {Yaml, Main}]
    BY <1>12 DEF WriteMain, CommandsOK
  <2> QED BY <1>6, <1>7, <1>12, <2>1 DEF WriteMain, AtSpell, CommandsOK, Running
<1>13. CASE GetStack(o)
  <2>1. /\ AtSpell(o, cmd[o].at) /\ cmd[o].op # "new" /\ cmd[o].stack \in Stacks
        /\ Goto(o, "op")
    BY <1>1, <1>13 DEF GetStack, AtSpell, GoodCommand
  <2>2. stacks' \subseteq Names \X Stacks
    BY <1>3, <1>13, <2>1 DEF GetStack, CommandsOK
  <2>3. \A p \in Operators : GoodCommand(cmd'[p])
    BY <1>7, <2>1
  <2> QED BY <1>13, <2>2, <2>3 DEF GetStack, CommandsOK
<1>14. CASE Operate(o)
  BY <1>6, <1>14 DEF Operate, AtSpell, CommandsOK
<1>15. CASE OperationFails(o)
  <2>1. GoodCommand(cmd'[o]) /\ OnlyMoves(o)
    BY <1>1, <1>15, EndFields DEF GoodCommand, OperationFails
  <2> QED BY <1>2, <1>15, <2>1 DEF OperationFails, CommandsOK
<1> QED BY <1>4, <1>5, <1>8, <1>9, <1>10, <1>11, <1>12, <1>13, <1>14, <1>15 DEF Step

(* Every command in progress is a good one. *)
LEMMA CommandsInvariant == Spec => [](ManagedInv /\ CommandsOK)
<1>1. Init => CommandsOK
  BY InitialAssumption DEF Init, CommandsOK, GoodCommand
<1> QED BY <1>1, ManagedInvariant, CommandsNext, PTL DEF Spec

(* The variables have their types, and a command in the middle of a spell has
   that spell at the head of its list. *)
THEOREM TypeCorrect == Spec => []TypeOK
<1>1. ManagedInv /\ CommandsOK => TypeOK
  <2> SUFFICES ASSUME ManagedInv, CommandsOK PROVE TypeOK
    OBVIOUS
  <2>1. ASSUME NEW o \in Operators
        PROVE  /\ cmd[o].op \in Ops \cup {"idle"}
               /\ cmd[o].at \in {"mkdir", "next", "main", "stack", "op"}
               /\ cmd[o].at # "next" => cmd[o].todo # <<>>
               /\ \A i \in DOMAIN cmd[o].todo : cmd[o].todo[i].name \in Names
    <3>1. CASE cmd[o] = Idle
      BY <3>1, IdleFields
    <3>2. CASE cmd[o] # Idle
      <4>1. /\ cmd[o].op \in Ops /\ cmd[o].todo \in Seq(Entry)
            /\ cmd[o].at \in {"mkdir", "next", "main", "stack", "op"}
            /\ cmd[o].at # "next" => cmd[o].todo # <<>>
        BY <3>2 DEF CommandsOK, GoodCommand
      <4>2. \A i \in DOMAIN cmd[o].todo : cmd[o].todo[i] \in Entry
        BY <4>1
      <4> QED BY <4>1, <4>2 DEF Entry
    <3> QED BY <3>1, <3>2
  <2> QED BY <2>1 DEF ManagedInv, Shapes, CommandsOK, TypeOK
<1> QED BY <1>1, CommandsInvariant, PTL

-----------------------------------------------------------------------------
(***************************************************************************)
(* What one operator can rely on who deploys, previews, destroys and looks *)
(* at a project of distinct directories, whatever fails or is killed:      *)
(* resources respect the declaration order, and "Project deployed" and     *)
(* "Project destroyed" are true when they are printed.                     *)
(*                                                                         *)
(* The invariant says how far a command has come: an up has deployed all   *)
(* that it has behind it, and a destroy has left nothing behind it; that   *)
(* a destroy may skip a directory without leaving anything there is        *)
(* ManagedInv.                                                             *)
(***************************************************************************)

(* The names of the directories of a project differ. *)
Distinct(m) == \A i, j \in 1..Len(m) : m[i].name = m[j].name => i = j

(* What the i-th spell of the manifest has in a stack. *)
Has(i, s) == deployed[manifest[i].name][s]

Left(o) == Len(cmd[o].todo)
Size    == Len(manifest)

(* The spells a command has before it, and what it has done behind it. *)
Walks(o) ==
  cmd[o] # Idle =>
    /\ manifest \in Manifests /\ cmd[o].spells = manifest
    /\ cmd[o].op # "new" /\ cmd[o].at # "mkdir"
    /\ cmd[o].at = "main" => cmd[o].op # "destroy"
    /\ Left(o) <= Size
    /\ cmd[o].op # "destroy" => \A i \in 1..Left(o) : cmd[o].todo[i] = manifest[Size - Left(o) + i]
    /\ cmd[o].op = "destroy" => \A i \in 1..Left(o) : cmd[o].todo[i] = manifest[Left(o) + 1 - i]
    /\ cmd[o].op = "up" => \A i \in 1..(Size - Left(o)) : Has(i, cmd[o].stack) = "all"
    /\ cmd[o].op = "destroy" => \A i \in (Left(o) + 1)..Size : Has(i, cmd[o].stack) = "none"

(* The claim of the last command, which no other has made stale. *)
Claims(o) ==
  last[o].op # "none" =>
    /\ cmd[o] = Idle
    /\ last[o].spells = manifest /\ manifest \in Manifests
    /\ last[o].op = "up" => \A i \in 1..Size : Has(i, last[o].stack) = "all"
    /\ last[o].op = "destroy" => \A i \in 1..Size : Has(i, last[o].stack) = "none"

(* In declaration order. *)
Ordered ==
  manifest \in Manifests =>
    \A s \in Stacks : \A i, j \in 1..Size : i < j /\ Has(j, s) # "none" => Has(i, s) # "none"

OrderInv(o) == Walks(o) /\ Claims(o) /\ Ordered /\ DOMAIN last = Operators

(* One operator on one project of distinct directories. *)
Alone(o) == Operators = {o} /\ "new" \notin Ops /\ \A m \in Manifests : Distinct(m)

-----------------------------------------------------------------------------

(* A manifest is a list of entries. *)
LEMMA ManifestEntries ==
  ASSUME manifest \in Manifests
  PROVE  /\ manifest \in Seq(Entry) /\ Size \in Nat /\ DOMAIN manifest = 1..Size
         /\ \A i \in 1..Size : manifest[i] \in Entry /\ manifest[i].name \in Names
<1>1. manifest \in Seq(Entry)
  BY ManifestsAssumption
<1>2. Size \in Nat /\ DOMAIN manifest = 1..Size /\ \A i \in 1..Size : manifest[i] \in Entry
  BY <1>1 DEF Size
<1> QED BY <1>1, <1>2 DEF Entry

(* The place in the manifest of the spell a command is at. *)
Place(o) == IF cmd[o].op = "destroy" THEN Left(o) ELSE Size - Left(o) + 1

(* A command at a spell: the spell is the one at its place. *)
LEMMA AtItsPlace ==
  ASSUME NEW o \in Operators, CommandsOK, Walks(o), AtSpell(o, cmd[o].at)
  PROVE  /\ manifest \in Manifests /\ cmd[o] # Idle /\ cmd[o].stack \in Stacks
         /\ cmd[o].todo \in Seq(Entry) /\ cmd[o].todo # <<>>
         /\ Left(o) \in 1..Size /\ Place(o) \in 1..Size
         /\ Head1(o) = manifest[Place(o)].name /\ Head1(o) \in Names
<1>1. cmd[o] # Idle /\ cmd[o].todo # <<>>
  BY DEF AtSpell
<1>2. /\ cmd[o].todo \in Seq(Entry) /\ manifest \in Manifests /\ Left(o) <= Size
      /\ cmd[o].stack \in Stacks
  BY <1>1 DEF CommandsOK, GoodCommand, Walks
<1>3. Left(o) \in Nat /\ Left(o) # 0 /\ Size \in Nat
  BY <1>1, <1>2, ManifestEntries DEF Left
<1>4. Left(o) \in 1..Size /\ Place(o) \in 1..Size /\ 1 \in 1..Left(o)
  BY <1>2, <1>3 DEF Place
<1>5. cmd[o].todo[1] = manifest[Place(o)]
  <2>1. CASE cmd[o].op = "destroy"
    <3>1. cmd[o].todo[1] = manifest[Left(o) + 1 - 1]
      BY <1>1, <1>4, <2>1 DEF Walks
    <3>2. Left(o) + 1 - 1 = Left(o)
      BY <1>3
    <3> QED BY <2>1, <3>1, <3>2 DEF Place
  <2>2. CASE cmd[o].op # "destroy"
    BY <1>1, <1>4, <2>2 DEF Walks, Place
  <2> QED BY <2>1, <2>2
<1>6. Head1(o) = manifest[Place(o)].name /\ Head1(o) \in Names
  BY <1>2, <1>4, <1>5, ManifestEntries DEF Head1
<1> QED BY <1>1, <1>2, <1>4, <1>6

(* All before the h-th spell have something in a stack, none after it has. *)
AllBefore(h, st) == \A i \in 1..Size : i < h => Has(i, st) # "none"
NoneAfter(h, st) == \A j \in 1..Size : h < j => Has(j, st) = "none"

(* The one change to what is deployed: the h-th spell has d in this stack. *)
Changed(h, st, d) ==
  \A i \in 1..Size, s \in Stacks :
    deployed'[manifest[i].name][s] = IF i = h /\ s = st THEN d ELSE Has(i, s)

(* A Pulumi operation changes the resources of this spell only. *)
LEMMA OneCell ==
  ASSUME NEW o \in Operators, Alone(o), ManagedInv, CommandsOK, Walks(o),
         AtSpell(o, cmd[o].at), NEW d, SetDeployed(o, d), NEW st, st = cmd[o].stack
  PROVE  Changed(Place(o), st, d)
<1>1. /\ manifest \in Manifests /\ st \in Stacks /\ Place(o) \in 1..Size
      /\ Head1(o) = manifest[Place(o)].name /\ Head1(o) \in Names
  BY AtItsPlace
<1>2. \A i \in 1..Size : manifest[i].name \in Names /\ (manifest[i].name = Head1(o) => i = Place(o))
  <2>1. Distinct(manifest) /\ \A i \in 1..Size : manifest[i].name \in Names
    BY <1>1, ManifestEntries DEF Alone
  <2> QED BY <1>1, <2>1 DEF Distinct, Size
<1>3. /\ deployed \in [Names -> [Stacks -> {"none", "some", "all"}]]
      /\ deployed' = [deployed EXCEPT ![Head1(o)][st] = d]
  BY DEF ManagedInv, Shapes, SetDeployed
<1>4. \A n \in Names, s \in Stacks :
        deployed'[n][s] = IF n = Head1(o) /\ s = st THEN d ELSE deployed[n][s]
  BY <1>1, <1>3
<1>5. ASSUME NEW i \in 1..Size, NEW s \in Stacks
      PROVE  deployed'[manifest[i].name][s] = IF i = Place(o) /\ s = st THEN d ELSE Has(i, s)
  <2>1. manifest[i].name \in Names /\ (manifest[i].name = Head1(o) <=> i = Place(o))
    BY <1>1, <1>2
  <2> QED BY <1>4, <2>1 DEF Has
<1> QED BY <1>5 DEF Changed

(* The order survives an operation that leaves something only where all before
   it have something, and nothing only where none after it has. *)
LEMMA OrderedAfter ==
  ASSUME Ordered, manifest \in Manifests, manifest' = manifest,
         NEW h \in 1..Size, NEW st \in Stacks, NEW d,
         Changed(h, st, d), d # "none" => AllBefore(h, st), d = "none" => NoneAfter(h, st)
  PROVE  Ordered'
<1>1. ASSUME NEW s \in Stacks, NEW i \in 1..Size, NEW j \in 1..Size, i < j,
             deployed'[manifest[j].name][s] # "none"
      PROVE  deployed'[manifest[i].name][s] # "none"
  <2>1. Size \in Nat /\ i # j
    BY <1>1, ManifestEntries
  <2>2. CASE s # st
    BY <1>1, <2>2 DEF Ordered, Changed
  <2>3. CASE s = st /\ j = h
    BY <1>1, <2>1, <2>3 DEF Changed, AllBefore
  <2>4. CASE s = st /\ i = h
    BY <1>1, <2>1, <2>4 DEF Changed, NoneAfter
  <2>5. CASE s = st /\ i # h /\ j # h
    BY <1>1, <2>5 DEF Ordered, Changed
  <2> QED BY <2>2, <2>3, <2>4, <2>5
<1> QED BY <1>1 DEF Ordered, Has, Size

(* The loop's next round, when what it leaves behind is done. *)
LEMMA WalksOn ==
  ASSUME NEW o \in Operators, ManagedInv, CommandsOK, Walks(o), AtSpell(o, cmd[o].at),
         NextSpell(o), manifest' = manifest, NEW st, st = cmd[o].stack,
         cmd[o].op = "up" => \A i \in 1..(Size - Left(o) + 1) : deployed'[manifest[i].name][st] = "all",
         cmd[o].op = "destroy" => \A i \in Left(o)..Size : deployed'[manifest[i].name][st] = "none"
  PROVE  Walks(o)'
<1>1. /\ cmd'[o] = [op |-> cmd[o].op, stack |-> cmd[o].stack, spells |-> cmd[o].spells,
                    todo |-> Tail(cmd[o].todo), at |-> "next"]
  BY NextSpellFields DEF ManagedInv
<1>2. /\ manifest \in Manifests /\ cmd[o] # Idle
      /\ cmd[o].todo \in Seq(Entry) /\ cmd[o].todo # <<>>
      /\ Left(o) \in 1..Size
  BY AtItsPlace
<1>3. /\ Size \in Nat /\ Left(o) \in Nat
      /\ Len(Tail(cmd[o].todo)) = Left(o) - 1
      /\ \A i \in 1..(Left(o) - 1) : Tail(cmd[o].todo)[i] = cmd[o].todo[i + 1]
  BY <1>2, ManifestEntries DEF Left
<1>4. Left(o)' = Left(o) - 1 /\ Size' = Size
  BY <1>1, <1>3 DEF Left, Size
<1>5. /\ cmd[o].spells = manifest /\ cmd[o].op # "new"
      /\ Left(o) - 1 <= Size
  BY <1>2, <1>3 DEF Walks
<1>6. ASSUME cmd[o].op # "destroy", NEW i \in 1..(Left(o) - 1)
      PROVE  Tail(cmd[o].todo)[i] = manifest[Size - (Left(o) - 1) + i]
  <2>1. i + 1 \in 1..Left(o) /\ Size - (Left(o) - 1) + i = Size - Left(o) + (i + 1)
    BY <1>3
  <2>2. cmd[o].todo[i + 1] = manifest[Size - Left(o) + (i + 1)]
    BY <1>2, <1>6, <2>1 DEF Walks
  <2> QED BY <1>3, <2>1, <2>2
<1>7. ASSUME cmd[o].op = "destroy", NEW i \in 1..(Left(o) - 1)
      PROVE  Tail(cmd[o].todo)[i] = manifest[(Left(o) - 1) + 1 - i]
  <2>1. i + 1 \in 1..Left(o) /\ (Left(o) - 1) + 1 - i = Left(o) + 1 - (i + 1)
    BY <1>3
  <2>2. cmd[o].todo[i + 1] = manifest[Left(o) + 1 - (i + 1)]
    BY <1>2, <1>7, <2>1 DEF Walks
  <2> QED BY <1>3, <2>1, <2>2
<1>8. /\ Size - (Left(o) - 1) = Size - Left(o) + 1
      /\ (Left(o) - 1) + 1 = Left(o)
  BY <1>3
<1> DEFINE l == Left(o) - 1
<1>9. /\ cmd[o].op # "destroy" => \A i \in 1..l : Tail(cmd[o].todo)[i] = manifest[Size - l + i]
      /\ cmd[o].op = "destroy" => \A i \in 1..l : Tail(cmd[o].todo)[i] = manifest[l + 1 - i]
      /\ cmd[o].op = "up" => \A i \in 1..(Size - l) : deployed'[manifest[i].name][st] = "all"
      /\ cmd[o].op = "destroy" => \A i \in (l + 1)..Size : deployed'[manifest[i].name][st] = "none"
      /\ l <= Size
  BY <1>5, <1>6, <1>7, <1>8
<1> HIDE DEF l
<1>10. Left(o)' = l /\ Size' = Size
  BY <1>4 DEF l
<1>11. /\ cmd'[o].op = cmd[o].op /\ cmd'[o].stack = st /\ cmd'[o].spells = cmd[o].spells
       /\ cmd'[o].todo = Tail(cmd[o].todo) /\ cmd'[o].at = "next"
  BY <1>1
<1>12. /\ manifest' \in Manifests /\ cmd'[o].spells = manifest'
       /\ cmd'[o].op # "new" /\ cmd'[o].at # "mkdir" /\ cmd'[o].at # "main"
       /\ Left(o)' <= Size'
  BY <1>2, <1>5, <1>9, <1>10, <1>11
<1>13. /\ cmd'[o].op # "destroy" =>
            \A i \in 1..Left(o)' : cmd'[o].todo[i] = manifest'[Size' - Left(o)' + i]
       /\ cmd'[o].op = "destroy" =>
            \A i \in 1..Left(o)' : cmd'[o].todo[i] = manifest'[Left(o)' + 1 - i]
  BY <1>9, <1>10, <1>11
<1>14. /\ cmd'[o].op = "up" => \A i \in 1..(Size' - Left(o)') : Has(i, cmd[o].stack)' = "all"
       /\ cmd'[o].op = "destroy" =>
            \A i \in (Left(o)' + 1)..Size' : Has(i, cmd[o].stack)' = "none"
  BY <1>9, <1>10, <1>11 DEF Has
<1> QED BY <1>12, <1>13, <1>14 DEF Walks

(* Nothing but the step within a spell changes. *)
LEMMA WalksStay ==
  ASSUME NEW o \in Operators, ManagedInv, Walks(o), cmd[o] # Idle,
         NEW at \in {"next", "main", "stack", "op"}, Goto(o, at),
         at = "main" => cmd[o].op # "destroy", UNCHANGED <<manifest, deployed>>
  PROVE  Walks(o)'
<1>1. /\ cmd'[o] = [op |-> cmd[o].op, stack |-> cmd[o].stack, spells |-> cmd[o].spells,
                    todo |-> cmd[o].todo, at |-> at]
  BY GotoFields DEF ManagedInv
<1>2. /\ cmd'[o].op = cmd[o].op /\ cmd'[o].stack = cmd[o].stack /\ cmd'[o].spells = cmd[o].spells
      /\ cmd'[o].todo = cmd[o].todo /\ cmd'[o].at = at
  BY <1>1
<1>3. Left(o)' = Left(o) /\ Size' = Size
  BY <1>2 DEF Left, Size
<1> QED BY <1>2, <1>3 DEF Walks, Has

(* The claims of a command that is under way, or of one that did not return. *)
LEMMA NoClaims ==
  ASSUME NEW o, last'[o] = NoClaim
  PROVE  Claims(o)'
<1>1. NoClaim.op = "none"
  BY DEF NoClaim
<1> QED BY <1>1 DEF Claims

(* While a command runs there is no claim. *)
LEMMA RunningClaims ==
  ASSUME NEW o, Claims(o), cmd[o] # Idle
  PROVE  last[o].op = "none"
  BY DEF Claims

(* Every step of a lone operator keeps the order of the spells. *)
LEMMA OrderNext ==
  ASSUME NEW o, Alone(o), ManagedInv, CommandsOK, OrderInv(o), [Next]_vars
  PROVE  OrderInv(o)'
<1> o \in Operators /\ "new" \notin Ops
  BY DEF Alone
<1>1. Walks(o) /\ Claims(o) /\ Ordered /\ DOMAIN last = Operators /\ Shapes
  BY DEF OrderInv, ManagedInv
<1>2. CASE UNCHANGED vars
  BY <1>1, <1>2 DEF vars, OrderInv, Walks, Claims, Ordered, Has, Left, Size
<1>3. CASE Start(o)
  <2>1. UNCHANGED <<manifest, deployed>>
    BY <1>3 DEF Start, StartNew, StartUp, StartDestroy, StartStatus
  <2> DEFINE Todo(op) == IF op = "destroy" THEN DestroyOrder(manifest) ELSE manifest
  <2>2. PICK op \in {"up", "preview", "destroy", "status"}, s \in Stacks :
          manifest # NoProject /\ Begin(o, op, s, manifest, Todo(op), "next")
    BY <1>3 DEF Start, StartNew, StartUp, StartDestroy, StartStatus
  <2> DEFINE todo == Todo(op)
  <2>3. /\ cmd'[o] = [op |-> op, stack |-> s, spells |-> manifest, todo |-> todo, at |-> "next"]
        /\ last'[o] = NoClaim /\ DOMAIN last' = Operators
    <3>1. cmd'[o] = [op |-> op, stack |-> s, spells |-> manifest, todo |-> todo, at |-> "next"]
      BY <1>1, <2>2, BeginFields
    <3>2. last' = [last EXCEPT ![o] = NoClaim]
      BY <2>2 DEF Begin
    <3> QED BY <1>1, <3>1, <3>2
  <2>4. manifest \in Manifests
    BY <2>2 DEF CommandsOK
  <2>5. manifest \in Seq(Entry) /\ Size \in Nat
    BY <2>4, ManifestEntries
  <2>6. /\ Len(todo) = Size
        /\ op # "destroy" => \A i \in 1..Size : todo[i] = manifest[Size - Size + i]
        /\ op = "destroy" => \A i \in 1..Size : todo[i] = manifest[Size + 1 - i]
    <3>1. CASE op = "destroy"
      BY <2>2, <2>5, <3>1, DestroyOrderEntries DEF Size
    <3>2. CASE op # "destroy"
      BY <2>2, <2>5, <3>2 DEF Size
    <3> QED BY <3>1, <3>2
  <2>7. /\ cmd'[o].op = op /\ cmd'[o].spells = manifest /\ cmd'[o].todo = todo
        /\ cmd'[o].at = "next" /\ Left(o)' = Size /\ Size' = Size
    BY <2>1, <2>3, <2>6 DEF Left, Size
  <2>8. 1..(Size - Size) = {} /\ (Size + 1)..Size = {} /\ Size <= Size
    BY <2>5
  <2>9. Walks(o)'
    BY <2>1, <2>4, <2>6, <2>7, <2>8 DEF Walks
  <2>10. Ordered' /\ Claims(o)' /\ DOMAIN last' = Operators
    BY <1>1, <2>1, <2>3, NoClaims DEF Ordered, Has, Size
  <2> QED BY <2>9, <2>10 DEF OrderInv
<1>4. ASSUME NEW result, End(o, result), Claims(o)', Ordered'
      PROVE  OrderInv(o)'
  <2>1. cmd'[o] = Idle /\ DOMAIN last' = Operators
    BY <1>1, <1>4, EndFields DEF End
  <2> QED BY <1>4, <2>1 DEF OrderInv, Walks
<1>5. CASE Interrupt(o) \/ UnknownSpell(o)
  <2>1. PICK result \in {"interrupted", "ValueError"} : End(o, result)
    BY <1>5 DEF Interrupt, UnknownSpell
  <2>2. UNCHANGED <<manifest, deployed>>
    BY <1>5 DEF Interrupt, UnknownSpell
  <2>3. last'[o] = NoClaim
    BY <1>1, <2>1 DEF End
  <2>4. Ordered'
    BY <1>1, <2>2 DEF Ordered, Has, Size
  <2> QED BY <1>4, <2>1, <2>3, <2>4, NoClaims
<1>6. CASE Finish(o)
  <2>1. cmd[o] # Idle /\ cmd[o].todo = <<>> /\ End(o, "done") /\ UNCHANGED deployed
    BY <1>6 DEF Finish
  <2>2. /\ manifest \in Manifests /\ cmd[o].op # "new" /\ cmd[o].spells = manifest
        /\ Left(o) = 0 /\ Size \in Nat
    BY <1>1, <2>1, ManifestEntries DEF Walks, Left
  <2>3. manifest' = manifest
    BY <1>6, <2>2 DEF Finish, Running
  <2>4. /\ cmd[o].op = "up" => \A i \in 1..Size : Has(i, cmd[o].stack) = "all"
        /\ cmd[o].op = "destroy" => \A i \in 1..Size : Has(i, cmd[o].stack) = "none"
    <3>1. Size - Left(o) = Size /\ Left(o) + 1 = 1
      BY <2>2
    <3> QED BY <1>1, <2>1, <3>1 DEF Walks
  <2>5. cmd'[o] = Idle
    BY <1>1, <2>1, EndFields
  <2>6. Claims(o)'
    <3>1. CASE cmd[o].op \in {"up", "destroy"}
      <4>1. last'[o] = [op |-> cmd[o].op, stack |-> cmd[o].stack, spells |-> cmd[o].spells]
        BY <1>1, <2>1, <3>1 DEF End
      <4>2. /\ last'[o].op = cmd[o].op /\ last'[o].stack = cmd[o].stack
            /\ last'[o].spells = manifest /\ Size' = Size
        BY <2>2, <2>3, <4>1 DEF Size
      <4> QED BY <2>1, <2>2, <2>3, <2>4, <2>5, <4>2 DEF Claims, Has
    <3>2. CASE cmd[o].op \notin {"up", "destroy"}
      <4>1. last'[o] = NoClaim
        BY <1>1, <2>1, <3>2 DEF End
      <4> QED BY <4>1, NoClaims
    <3> QED BY <3>1, <3>2
  <2>7. Ordered'
    BY <1>1, <2>1, <2>3 DEF Ordered, Has, Size
  <2> QED BY <1>4, <2>1, <2>6, <2>7
<1>7. ASSUME cmd[o] # Idle, UNCHANGED last, Walks(o)', Ordered'
      PROVE  OrderInv(o)'
  <2>1. last'[o].op = "none"
    BY <1>1, <1>7, RunningClaims
  <2> QED BY <1>1, <1>7, <2>1 DEF OrderInv, Claims
<1>8. CASE MakeDir(o) \/ FoundScaffold(o) \/ WriteYaml(o) \/ GetStack(o)
  <2>1. /\ UNCHANGED <<manifest, deployed>> /\ cmd[o] # Idle
        /\ \E at \in {"next", "main", "stack", "op"} : Goto(o, at) /\ (at = "main" => cmd[o].op # "destroy")
    BY <1>8 DEF MakeDir, FoundScaffold, WriteYaml, GetStack, AtSpell, Running
  <2>2. Walks(o)' /\ UNCHANGED last
    BY <1>1, <2>1, WalksStay DEF Goto
  <2>3. Ordered'
    BY <1>1, <2>1 DEF Ordered, Has, Size
  <2> QED BY <1>7, <2>1, <2>2, <2>3
<1>9. CASE WriteMain(o)
  <2>1. /\ UNCHANGED <<manifest, deployed>> /\ cmd[o] # Idle /\ Goto(o, "stack")
    BY <1>1, <1>9 DEF WriteMain, AtSpell, Running, Walks
  <2>2. Walks(o)' /\ UNCHANGED last
    BY <1>1, <2>1, WalksStay DEF Goto
  <2>3. Ordered'
    BY <1>1, <2>1 DEF Ordered, Has, Size
  <2> QED BY <1>7, <2>1, <2>2, <2>3
<1>10. ASSUME AtSpell(o, cmd[o].at), NextSpell(o), UNCHANGED <<manifest, deployed>>,
              cmd[o].op # "up",
              cmd[o].op = "destroy" => Has(Left(o), cmd[o].stack) = "none"
       PROVE  OrderInv(o)'
  <2>1. /\ manifest \in Manifests /\ cmd[o] # Idle /\ Left(o) \in 1..Size
        /\ Size \in Nat /\ Left(o) \in Nat
    BY <1>1, <1>10, AtItsPlace, ManifestEntries
  <2>2. cmd[o].op = "destroy" =>
          \A i \in Left(o)..Size : deployed'[manifest[i].name][cmd[o].stack] = "none"
    <3> SUFFICES ASSUME cmd[o].op = "destroy", NEW i \in Left(o)..Size
                 PROVE  Has(i, cmd[o].stack) = "none"
      BY <1>10 DEF Has
    <3>1. i = Left(o) \/ i \in (Left(o) + 1)..Size
      BY <2>1
    <3> QED BY <1>1, <1>10, <2>1, <3>1 DEF Walks
  <2>3. Walks(o)' /\ UNCHANGED last
    BY <1>1, <1>10, <2>2, WalksOn DEF NextSpell
  <2>4. Ordered'
    BY <1>1, <1>10 DEF Ordered, Has, Size
  <2> QED BY <1>7, <2>1, <2>3, <2>4
<1>11. CASE Skip(o)
  <2>1. /\ AtSpell(o, cmd[o].at) /\ NextSpell(o) /\ UNCHANGED <<manifest, deployed>>
        /\ cmd[o].op # "up" /\ ~Scaffolded(Head1(o))
    BY <1>11 DEF Skip, AtSpell
  <2>2. /\ Head1(o) \in Names /\ cmd[o].stack \in Stacks
        /\ Head1(o) = manifest[Place(o)].name
    BY <1>1, <2>1, AtItsPlace
  <2>3. deployed[Head1(o)][cmd[o].stack] = "none"
    BY <2>1, <2>2 DEF ManagedInv, DeployedIsManaged
  <2> QED BY <1>10, <2>1, <2>2, <2>3 DEF Has, Place
<1>12. CASE Export(o) \/ StatusSwallows(o)
  BY <1>10, <1>12 DEF Export, StatusSwallows, AtSpell, Running
<1>13. ASSUME AtSpell(o, cmd[o].at), NEW d, SetDeployed(o, d), manifest' = manifest,
              cmd[o].op = "up" => d # "none" \/ Deployed(o) = "none",
              cmd[o].op = "destroy" => (d # "none" => Deployed(o) # "none"),
              cmd[o].op \in {"up", "destroy"}
       PROVE  Ordered'
  <2>1. /\ manifest \in Manifests /\ cmd[o].stack \in Stacks /\ Place(o) \in 1..Size
        /\ Left(o) \in 1..Size /\ Size \in Nat /\ Deployed(o) = Has(Place(o), cmd[o].stack)
        /\ cmd[o] # Idle
    BY <1>1, <1>13, AtItsPlace, ManifestEntries DEF Deployed, Has
  <2>2. PICK st \in Stacks : st = cmd[o].stack
    BY <2>1
  <2>3. PICK h \in 1..Size : h = Place(o)
    BY <2>1
  <2>4. Changed(h, st, d)
    BY <1>1, <1>13, <2>2, <2>3, OneCell
  <2>5. Has(h, st) # "none" => AllBefore(h, st)
    BY <1>1, <2>1 DEF Ordered, AllBefore
  <2>6. Has(h, st) = "none" => NoneAfter(h, st)
    BY <1>1, <2>1 DEF Ordered, NoneAfter
  <2>7. CASE cmd[o].op = "up"
    <3>1. AllBefore(h, st)
      <4> SUFFICES ASSUME NEW i \in 1..Size, i < h PROVE Has(i, st) # "none"
        BY DEF AllBefore
      <4>1. i \in 1..(Size - Left(o))
        BY <2>1, <2>3, <2>7 DEF Place
      <4> QED BY <1>1, <2>1, <2>2, <2>7, <4>1 DEF Walks
    <3>2. d = "none" => NoneAfter(h, st)
      BY <1>13, <2>1, <2>2, <2>3, <2>6, <2>7
    <3> QED BY <1>1, <1>13, <2>1, <2>2, <2>3, <2>4, <3>1, <3>2, OrderedAfter
  <2>8. CASE cmd[o].op = "destroy"
    <3>1. NoneAfter(h, st)
      <4> SUFFICES ASSUME NEW j \in 1..Size, h < j PROVE Has(j, st) = "none"
        BY DEF NoneAfter
      <4>1. j \in (Left(o) + 1)..Size
        BY <2>1, <2>3, <2>8 DEF Place
      <4> QED BY <1>1, <2>1, <2>2, <2>8, <4>1 DEF Walks
    <3>2. d # "none" => AllBefore(h, st)
      BY <1>13, <2>1, <2>2, <2>3, <2>5, <2>8
    <3> QED BY <1>1, <1>13, <2>1, <2>2, <2>3, <2>4, <3>1, <3>2, OrderedAfter
  <2> QED BY <1>13, <2>7, <2>8
<1>14. CASE Operate(o)
  <2>1. AtSpell(o, cmd[o].at) /\ NextSpell(o) /\ manifest' = manifest /\ UNCHANGED last
    BY <1>14 DEF Operate, AtSpell, NextSpell
  <2>2. CASE cmd[o].op = "preview"
    BY <1>10, <1>14, <2>1, <2>2 DEF Operate, Running
  <2>3. CASE cmd[o].op \in {"up", "destroy"}
    <3>1. PICK d \in {"all", "none"} :
            SetDeployed(o, d) /\ d = IF cmd[o].op = "up" THEN "all" ELSE "none"
      BY <1>14, <2>3 DEF Operate, Running
    <3>2. Ordered'
      BY <1>13, <2>1, <2>3, <3>1
    <3>3. /\ manifest \in Manifests /\ cmd[o] # Idle /\ Left(o) \in 1..Size
          /\ Size \in Nat /\ Left(o) \in Nat /\ cmd[o].stack \in Stacks
      BY <1>1, <2>1, AtItsPlace, ManifestEntries
    <3>4. PICK st \in Stacks : st = cmd[o].stack
      BY <3>3
    <3>5. \A i \in 1..Size :
            deployed'[manifest[i].name][st] = IF i = Place(o) THEN d ELSE Has(i, st)
      BY <1>1, <2>1, <3>1, <3>3, <3>4, OneCell DEF Changed
    <3>6. cmd[o].op = "up" =>
            \A i \in 1..(Size - Left(o) + 1) : deployed'[manifest[i].name][st] = "all"
      <4> SUFFICES ASSUME cmd[o].op = "up", NEW i \in 1..(Size - Left(o) + 1)
                   PROVE  deployed'[manifest[i].name][st] = "all"
        OBVIOUS
      <4>1. i \in 1..Size /\ (i = Place(o) \/ i \in 1..(Size - Left(o)))
        BY <3>3 DEF Place
      <4> QED BY <1>1, <3>1, <3>3, <3>4, <3>5, <4>1 DEF Walks
    <3>7. cmd[o].op = "destroy" =>
            \A i \in Left(o)..Size : deployed'[manifest[i].name][st] = "none"
      <4> SUFFICES ASSUME cmd[o].op = "destroy", NEW i \in Left(o)..Size
                   PROVE  deployed'[manifest[i].name][st] = "none"
        OBVIOUS
      <4>1. i \in 1..Size /\ (i = Place(o) \/ i \in (Left(o) + 1)..Size)
        BY <3>3 DEF Place
      <4> QED BY <1>1, <3>1, <3>3, <3>4, <3>5, <4>1 DEF Walks
    <3>8. Walks(o)'
      BY <1>1, <2>1, <3>4, <3>6, <3>7, WalksOn
    <3> QED BY <1>7, <2>1, <3>2, <3>3, <3>8
  <2> QED BY <1>14, <2>2, <2>3 DEF Operate
<1>15. CASE OperationFails(o)
  <2>1. /\ AtSpell(o, cmd[o].at) /\ End(o, "CommandError") /\ manifest' = manifest
        /\ cmd[o].op \in {"up", "preview", "destroy"}
        /\ UNCHANGED deployed \/ \E d \in Remains(cmd[o].op, Deployed(o)) : SetDeployed(o, d)
    BY <1>15 DEF OperationFails, AtSpell
  <2>2. last'[o] = NoClaim
    BY <1>1, <2>1 DEF End
  <2>3. CASE UNCHANGED deployed
    <3>1. Ordered'
      BY <1>1, <2>1, <2>3 DEF Ordered, Has, Size
    <3> QED BY <1>4, <2>1, <2>2, <3>1, NoClaims
  <2>4. CASE cmd[o].op = "preview" /\ ~UNCHANGED deployed
    <3>1. SetDeployed(o, Deployed(o))
      BY <2>1, <2>4 DEF Remains
    <3>2. deployed' = deployed
      BY <3>1 DEF SetDeployed, Deployed, ManagedInv, Shapes
    <3> QED BY <2>4, <3>2
  <2>5. CASE cmd[o].op \in {"up", "destroy"} /\ ~UNCHANGED deployed
    <3>1. PICK d \in Remains(cmd[o].op, Deployed(o)) : SetDeployed(o, d)
      BY <2>1, <2>5
    <3>2. /\ cmd[o].op = "up" => d # "none" \/ Deployed(o) = "none"
          /\ cmd[o].op = "destroy" => (d # "none" => Deployed(o) # "none")
      BY <3>1, <2>5 DEF Remains
    <3>3. Ordered'
      BY <1>13, <2>1, <2>5, <3>1, <3>2
    <3> QED BY <1>4, <2>1, <2>2, <3>3, NoClaims
  <2> QED BY <2>1, <2>3, <2>4, <2>5
<1>16. [Next]_vars => UNCHANGED vars \/ Start(o) \/ Step(o) \/ Interrupt(o)
  BY DEF Next, Alone
<1> QED BY <1>2, <1>3, <1>5, <1>6, <1>8, <1>9, <1>11, <1>12, <1>14, <1>15, <1>16 DEF Step

-----------------------------------------------------------------------------

(* The order holds throughout, for a lone operator. *)
LEMMA OrderInvariant ==
  ASSUME NEW o, Alone(o)
  PROVE  Spec => [](CommandsOK /\ OrderInv(o))
<1>1. Init => OrderInv(o)
  <2> SUFFICES ASSUME Init PROVE OrderInv(o)
    OBVIOUS
  <2>1. o \in Operators
    BY DEF Alone
  <2>2. cmd[o] = Idle /\ last[o] = NoClaim /\ DOMAIN last = Operators
    BY <2>1 DEF Init
  <2>3. Walks(o) /\ Claims(o)
    <3>1. NoClaim.op = "none"
      BY DEF NoClaim
    <3> QED BY <2>2, <3>1 DEF Walks, Claims
  <2>4. Ordered
    <3> SUFFICES ASSUME manifest \in Manifests, NEW s \in Stacks, NEW j \in 1..Size
                 PROVE  Has(j, s) = "none"
      BY DEF Ordered
    <3>1. manifest[j].name \in Names
      BY ManifestEntries
    <3> QED BY <3>1 DEF Init, Has
  <2> QED BY <2>2, <2>3, <2>4 DEF OrderInv
<1>2. ManagedInv /\ CommandsOK /\ OrderInv(o) /\ [Next]_vars => OrderInv(o)'
  BY OrderNext
<1> QED BY <1>1, <1>2, CommandsInvariant, PTL DEF Spec

(* For one operator, any project of distinct directories and any stacks, failures
   and kills: a spell has resources only while all declared before it have. *)
THEOREM PrefixAlwaysDeployed ==
  ASSUME NEW o, Alone(o)
  PROVE  Spec => []PrefixDeployed
<1>1. CommandsOK /\ OrderInv(o) => PrefixDeployed
  <2> SUFFICES ASSUME CommandsOK, OrderInv(o) PROVE PrefixDeployed
    OBVIOUS
  <2>1. CASE manifest \in Manifests
    <3>1. DOMAIN manifest = 1..Size
      BY <2>1, ManifestEntries
    <3> QED BY <2>1, <3>1 DEF OrderInv, Ordered, Has, PrefixDeployed
  <2>2. CASE manifest = NoProject
    <3>1. Len(NoProject) = 1 /\ DOMAIN NoProject = 1..Len(NoProject)
      BY DEF NoProject
    <3>2. \A i, j \in DOMAIN manifest : ~(i < j)
      BY <2>2, <3>1
    <3> QED BY <3>2 DEF PrefixDeployed
  <2> QED BY <2>1, <2>2 DEF CommandsOK
<1> QED BY <1>1, OrderInvariant, PTL

(* For the same projects: an up that returned left every spell completely
   deployed. *)
THEOREM UpAlwaysDeploysAll ==
  ASSUME NEW o, Alone(o)
  PROVE  Spec => []UpDeploysAll
<1>1. CommandsOK /\ OrderInv(o) => UpDeploysAll
  <2> SUFFICES ASSUME CommandsOK, OrderInv(o), last[o].op = "up"
               PROVE  \A i \in DOMAIN last[o].spells :
                        deployed[last[o].spells[i].name][last[o].stack] = "all"
    BY DEF UpDeploysAll, Alone
  <2> QED BY ManifestEntries DEF OrderInv, Claims, Has
<1> QED BY <1>1, OrderInvariant, PTL

(* And a destroy that returned left nothing. *)
THEOREM DestroyAlwaysLeavesNothing ==
  ASSUME NEW o, Alone(o)
  PROVE  Spec => []DestroyLeavesNothing
<1>1. CommandsOK /\ OrderInv(o) => DestroyLeavesNothing
  <2> SUFFICES ASSUME CommandsOK, OrderInv(o), last[o].op = "destroy"
               PROVE  \A i \in DOMAIN last[o].spells :
                        deployed[last[o].spells[i].name][last[o].stack] = "none"
    BY DEF DestroyLeavesNothing, Alone
  <2> QED BY ManifestEntries DEF OrderInv, Claims, Has
<1> QED BY <1>1, OrderInvariant, PTL
=============================================================================
