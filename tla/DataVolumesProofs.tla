-------------------------- MODULE DataVolumesProofs --------------------------
(***************************************************************************)
(* Data follows its label: for any labels, any length of the list, any     *)
(* deployment by an earlier version and any updates that stop, provided    *)
(* the list is edited at its end and after a successful update.            *)
(***************************************************************************)
EXTENDS DataVolumes, TLAPS

(* A disk at the place of a label of the program was created for that label,
   and the resource under the label's own name is gone. *)
Placed ==
  \A i \in Slots : volume[i] # NoDisk /\ i \in DOMAIN specs =>
    volume[i].label = specs[i] /\ legacyVolume[specs[i]] = NoDisk

(* A disk at a place the program gave up belongs to no label of the program. *)
Leftover ==
  \A i \in Slots : volume[i] # NoDisk /\ i \notin DOMAIN specs => volume[i].label \notin Named

(* A resource named after a label holds that label's disk. *)
LegacyNamed == \A l \in Labels : legacyVolume[l] # NoDisk => legacyVolume[l].label = l

(* What a running or finished update has registered is there, and a finished
   one left nothing else. *)
Progress ==
  /\ phase # "edited" => provided \subseteq DOMAIN specs /\ \A i \in provided : volume[i] # NoDisk
  /\ phase = "settled" => Pruned

IInv == TypeOK /\ Placed /\ Leftover /\ LegacyNamed /\ Progress

-----------------------------------------------------------------------------

(* A program is a list over the labels, within the slots, without duplicates. *)
LEMMA ProgramShape ==
  ASSUME NEW s \in Programs
  PROVE  /\ DOMAIN s \subseteq Slots
         /\ \A i \in DOMAIN s : s[i] \in Labels
         /\ \A i, j \in DOMAIN s : s[i] = s[j] => i = j
<1>1. PICK n \in 1..MaxVolumes : s \in [1..n -> Labels]  BY DEF Programs
<1>2. DOMAIN s = 1..n  BY <1>1
<1>3. 1..n \subseteq Slots  BY BoundsAssumption DEF Slots
<1>. QED  BY <1>1, <1>2, <1>3 DEF Programs

(* A disk record is not the mark of a missing one. *)
LEMMA DiskIsNot ==
  ASSUME NEW l \in Labels, NEW n \in Nat
  PROVE  /\ [label |-> l, n |-> n] \in Disk
         /\ [label |-> l, n |-> n] # NoDisk
BY NoDiskAssumption DEF Disk

(* The invariant holds when the new version takes over an old deployment. *)
LEMMA InitInv == Init => IInv
<1>. SUFFICES ASSUME Init PROVE IInv  OBVIOUS
<1>. USE DEF Init
<1>1. PICK old \in SUBSET Labels :
        /\ legacyVolume = [l \in Labels |-> IF l \in old THEN [label |-> l, n |-> 1] ELSE NoDisk]
        /\ legacyAttachment = legacyVolume
        /\ made = [l \in Labels |-> IF l \in old THEN 1 ELSE 0]
  OBVIOUS
<1>2. \A l \in Labels : [label |-> l, n |-> 1] \in Disk  BY DiskIsNot
<1>3. legacyVolume \in [Labels -> DiskOrNone] /\ legacyAttachment \in [Labels -> DiskOrNone]
  BY <1>1, <1>2 DEF DiskOrNone
<1>4. TypeOK
  <2>1. made \in [Labels -> Nat]  BY <1>1
  <2>2. volume \in [Slots -> DiskOrNone] /\ attachment \in [Slots -> DiskOrNone]  BY DEF DiskOrNone
  <2>. QED  BY <1>3, <2>1, <2>2 DEF TypeOK
<1>5. LegacyNamed  BY <1>1 DEF LegacyNamed
<1>6. Placed /\ Leftover /\ Progress  BY DEF Placed, Leftover, Progress
<1>. QED  BY <1>4, <1>5, <1>6 DEF IInv

(* An edit after a successful update keeps the places of the labels that stay. *)
LEMMA EditKeeps ==
  ASSUME IInv, Edits = "settled", EditProgram
  PROVE  IInv'
<1>. PICK new \in Programs :
       phase = "settled" /\ (Extends(new, specs) \/ Extends(specs, new)) /\ specs' = new
  BY DEF EditProgram
<1>. USE DEF IInv, EditProgram, volumes, attachments
<1>1. TypeOK'  BY DEF TypeOK
<1>2. DOMAIN specs \subseteq Slots /\ DOMAIN new \subseteq Slots
  BY ProgramShape DEF TypeOK
<1>3. \A i \in DOMAIN new : new[i] \in Labels  BY ProgramShape
<1>4. \A i \in Slots : i \notin DOMAIN specs => volume[i] = NoDisk
  BY DEF Progress, Pruned
<1>5. \A l \in Labels : legacyVolume[l] = NoDisk  BY DEF Progress, Pruned
<1>6. \A i \in DOMAIN specs \cap DOMAIN new : new[i] = specs[i]  BY DEF Extends
<1>7. Placed'  BY <1>3, <1>4, <1>5, <1>6 DEF Placed
<1>8. Leftover'
  <2>. SUFFICES ASSUME NEW i \in Slots, volume[i] # NoDisk, i \notin DOMAIN new
                PROVE  volume[i].label \notin Named'
    BY DEF Leftover
  <2>1. i \in DOMAIN specs /\ volume[i].label = specs[i]  BY <1>4 DEF Placed
  <2>2. Extends(specs, new)  BY <2>1 DEF Extends
  <2>3. \A j \in DOMAIN new : j \in DOMAIN specs /\ new[j] = specs[j] /\ j # i  BY <2>2 DEF Extends
  <2>4. \A j \in DOMAIN specs : specs[j] = specs[i] => j = i  BY <2>1, ProgramShape DEF TypeOK
  <2>. QED  BY <2>1, <2>3, <2>4 DEF Named
<1>9. LegacyNamed'  BY DEF LegacyNamed
<1>10. Progress'  BY DEF Progress
<1>. QED  BY <1>1, <1>7, <1>8, <1>9, <1>10

(* The four ways in which an update starts, attaches and ends move no volume. *)
LEMMA NoVolumeMoves ==
  ASSUME IInv, StartUp \/ (\E i \in Slots : Attach(i)) \/ Detach \/ UpSucceeds \/ UpStops
  PROVE  IInv'
<1>. USE DEF IInv, volumes, attachments
<1>1. specs' = specs /\ UNCHANGED volumes
  BY DEF StartUp, Attach, Detach, UpSucceeds, UpStops
<1>2. Placed' /\ Leftover' /\ LegacyNamed'
  BY <1>1 DEF Placed, Leftover, LegacyNamed, Named
<1>3. CASE StartUp
  BY <1>1, <1>2, <1>3 DEF StartUp, TypeOK, Progress
<1>4. ASSUME NEW i \in Slots, Attach(i) PROVE IInv'
  <2>1. specs[i] \in Labels \/ i \notin DOMAIN specs  BY ProgramShape DEF TypeOK
  <2>2. attachment' \in [Slots -> DiskOrNone]  BY <1>4 DEF Attach, TypeOK
  <2>3. legacyAttachment' \in [Labels -> DiskOrNone]  BY <1>4 DEF Attach, TypeOK, DiskOrNone
  <2>4. TypeOK'  BY <1>4, <1>1, <2>2, <2>3 DEF Attach, TypeOK
  <2>5. Progress'  BY <1>4, <1>1 DEF Attach, Progress
  <2>. QED  BY <1>2, <2>4, <2>5
<1>5. CASE Detach
  <2>1. attachment' \in [Slots -> DiskOrNone] /\ legacyAttachment' \in [Labels -> DiskOrNone]
    BY <1>5 DEF Detach, TypeOK, DiskOrNone
  <2>2. TypeOK'  BY <1>5, <1>1, <2>1 DEF Detach, TypeOK
  <2>3. Progress'  BY <1>5, <1>1 DEF Detach, Progress, Pruning
  <2>. QED  BY <1>2, <2>2, <2>3
<1>6. CASE UpSucceeds
  <2>1. TypeOK'  BY <1>6, <1>1 DEF UpSucceeds, TypeOK
  <2>2. Progress'  BY <1>6, <1>1 DEF UpSucceeds, Pruning, Progress, Pruned
  <2>. QED  BY <1>2, <2>1, <2>2
<1>7. CASE UpStops
  BY <1>1, <1>2, <1>7 DEF UpStops, TypeOK, Progress
<1>. QED  BY <1>3, <1>4, <1>5, <1>6, <1>7

(* A volume that an update registers is one of its label. *)
LEMMA ProvideKeeps ==
  ASSUME IInv, NEW i \in Slots, ProvideVolume(i)
  PROVE  IInv'
<1>. DEFINE l == specs[i]
<1>. USE DEF IInv, volumes, attachments
<1>0. /\ phase = "up" /\ phase' = phase /\ specs' = specs /\ i \in DOMAIN specs
      /\ provided' = provided \cup {i} /\ fastened' = fastened
      /\ attachment' = attachment /\ legacyAttachment' = legacyAttachment
  BY DEF ProvideVolume
<1>1. l \in Labels /\ \A j \in DOMAIN specs : specs[j] = specs[i] => j = i
  BY <1>0, ProgramShape DEF TypeOK
<1>2. CASE KeepVolume(i)
  <2>1. TypeOK'  BY <1>0, <1>2 DEF KeepVolume, TypeOK
  <2>2. Placed' /\ Leftover' /\ LegacyNamed'
    BY <1>0, <1>2 DEF KeepVolume, Placed, Leftover, LegacyNamed, Named
  <2>3. Progress'  BY <1>0, <1>2 DEF KeepVolume, Progress
  <2>. QED  BY <2>1, <2>2, <2>3
<1>3. CASE AdoptVolume(i)
  <2>1. /\ volume' = [volume EXCEPT ![i] = legacyVolume[l]]
        /\ legacyVolume' = [legacyVolume EXCEPT ![l] = NoDisk]
        /\ made' = made /\ legacyVolume[l] # NoDisk /\ volume[i] = NoDisk
    BY <1>3 DEF AdoptVolume
  <2>2. legacyVolume[l] \in DiskOrNone  BY <1>1 DEF TypeOK
  <2>3. volume' \in [Slots -> DiskOrNone] /\ legacyVolume' \in [Labels -> DiskOrNone]
    BY <2>1, <2>2 DEF TypeOK, DiskOrNone
  <2>4. TypeOK'  BY <1>0, <2>1, <2>3 DEF TypeOK
  <2>5. /\ volume'[i] = legacyVolume[l] /\ legacyVolume'[l] = NoDisk
        /\ \A j \in Slots : j # i => volume'[j] = volume[j]
        /\ \A k \in Labels : k # l => legacyVolume'[k] = legacyVolume[k]
    BY <1>1, <2>1 DEF TypeOK
  <2>6. Placed'  BY <1>0, <1>1, <2>1, <2>5 DEF Placed, LegacyNamed, TypeOK
  <2>7. Leftover'  BY <1>0, <2>5 DEF Leftover, Named
  <2>8. LegacyNamed'  BY <2>5 DEF LegacyNamed
  <2>9. Progress'  BY <1>0, <2>1, <2>5 DEF Progress, TypeOK
  <2>. QED  BY <2>4, <2>6, <2>7, <2>8, <2>9
<1>4. CASE CreateVolume(i)
  <2>. DEFINE d == [label |-> l, n |-> made[l] + 1]
  <2>1. /\ volume' = [volume EXCEPT ![i] = d] /\ legacyVolume' = legacyVolume
        /\ made' = [made EXCEPT ![l] = @ + 1]
        /\ legacyVolume[l] = NoDisk /\ volume[i] = NoDisk
    BY <1>4 DEF CreateVolume
  <2>2. made[l] + 1 \in Nat  BY <1>1 DEF TypeOK
  <2>3. d \in Disk /\ d # NoDisk /\ d.label = l  BY <1>1, <2>2, DiskIsNot
  <2>. HIDE DEF d
  <2>4. volume' \in [Slots -> DiskOrNone]  BY <2>1, <2>3 DEF TypeOK, DiskOrNone
  <2>5. made' \in [Labels -> Nat]  BY <1>1, <2>1, <2>2 DEF TypeOK
  <2>6. TypeOK'  BY <1>0, <2>1, <2>4, <2>5 DEF TypeOK
  <2>7. volume'[i] = d /\ \A j \in Slots : j # i => volume'[j] = volume[j]
    BY <2>1 DEF TypeOK
  <2>8. Placed'  BY <1>0, <1>1, <2>1, <2>3, <2>7 DEF Placed
  <2>9. Leftover' /\ LegacyNamed'  BY <1>0, <2>1, <2>7 DEF Leftover, LegacyNamed, Named
  <2>10. Progress'  BY <1>0, <2>3, <2>7 DEF Progress, TypeOK
  <2>. QED  BY <2>6, <2>8, <2>9, <2>10
<1>. QED  BY <1>2, <1>3, <1>4 DEF ProvideVolume

(* The engine deletes disks of places and names the program does not use, and
   those hold no data of its labels. *)
LEMMA DeleteKeeps ==
  ASSUME IInv, DeleteVolume
  PROVE  /\ IInv'
         /\ \A d \in Live : d \in Live' \/ d.label \notin Named
<1>. USE DEF IInv, volumes, attachments
<1>0. /\ phase = "up" /\ phase' = phase /\ specs' = specs /\ fastened = DOMAIN specs
      /\ provided' = provided /\ fastened' = fastened /\ made' = made
      /\ attachment' = attachment /\ legacyAttachment' = legacyAttachment
  BY DEF DeleteVolume, Pruning
<1>1. provided = DOMAIN specs /\ \A i \in DOMAIN specs : volume[i] # NoDisk
  BY <1>0 DEF TypeOK, Progress
<1>2. \A i \in DOMAIN specs : i \in Slots /\ specs[i] \in Labels  BY ProgramShape DEF TypeOK
<1>3. \A i \in DOMAIN specs : legacyVolume[specs[i]] = NoDisk  BY <1>1, <1>2 DEF Placed
<1>4. ASSUME NEW i \in Slots \ DOMAIN specs, volume[i] # NoDisk,
             volume' = [volume EXCEPT ![i] = NoDisk], legacyVolume' = legacyVolume
      PROVE  IInv' /\ \A d \in Live : d \in Live' \/ d.label \notin Named
  <2>1. volume' \in [Slots -> DiskOrNone]  BY <1>4 DEF TypeOK, DiskOrNone
  <2>2. TypeOK'  BY <1>0, <1>4, <2>1 DEF TypeOK
  <2>3. volume'[i] = NoDisk /\ \A j \in Slots : j # i => volume'[j] = volume[j]
    BY <1>4 DEF TypeOK
  <2>4. Placed' /\ Leftover' /\ LegacyNamed'
    BY <1>0, <1>4, <2>3 DEF Placed, Leftover, LegacyNamed, Named
  <2>5. Progress'  BY <1>0, <1>1, <1>2, <2>3 DEF Progress
  <2>6. \A d \in Live : d \in Live' \/ d = volume[i]  BY <1>4, <2>3 DEF Live
  <2>7. volume[i].label \notin Named  BY <1>4 DEF Leftover
  <2>. QED  BY <2>2, <2>4, <2>5, <2>6, <2>7
<1>5. ASSUME NEW l \in Labels, legacyVolume[l] # NoDisk,
             legacyVolume' = [legacyVolume EXCEPT ![l] = NoDisk], volume' = volume
      PROVE  IInv' /\ \A d \in Live : d \in Live' \/ d.label \notin Named
  <2>1. legacyVolume' \in [Labels -> DiskOrNone]  BY <1>5 DEF TypeOK, DiskOrNone
  <2>2. TypeOK'  BY <1>0, <1>5, <2>1 DEF TypeOK
  <2>3. legacyVolume'[l] = NoDisk /\ \A k \in Labels : k # l => legacyVolume'[k] = legacyVolume[k]
    BY <1>5 DEF TypeOK
  <2>4. Placed'  BY <1>0, <1>2, <1>3, <1>5, <2>3 DEF Placed
  <2>5. Leftover' /\ LegacyNamed'  BY <1>0, <1>5, <2>3 DEF Leftover, LegacyNamed, Named
  <2>6. Progress'  BY <1>0, <1>1, <1>5 DEF Progress
  <2>7. \A d \in Live : d \in Live' \/ d = legacyVolume[l]  BY <1>5, <2>3 DEF Live
  <2>8. l \notin Named  BY <1>3, <1>5 DEF Named
  <2>9. legacyVolume[l].label = l  BY <1>5 DEF LegacyNamed
  <2>. QED  BY <2>2, <2>4, <2>5, <2>6, <2>7, <2>8, <2>9
<1>. QED  BY <1>4, <1>5 DEF DeleteVolume

(* The invariant is inductive under edits of the list at its end. *)
LEMMA StepInv ==
  ASSUME Edits = "settled", IInv, [Next]_vars
  PROVE  IInv'
<1>1. CASE EditProgram  BY <1>1, EditKeeps
<1>2. CASE StartUp \/ (\E i \in Slots : Attach(i)) \/ Detach \/ UpSucceeds \/ UpStops
  BY <1>2, NoVolumeMoves
<1>3. CASE \E i \in Slots : ProvideVolume(i)  BY <1>3, ProvideKeeps
<1>4. CASE DeleteVolume  BY <1>4, DeleteKeeps
<1>5. CASE UNCHANGED vars
  BY <1>5 DEF vars, volumes, attachments, IInv, TypeOK, Placed, Leftover, LegacyNamed, Progress,
              Pruned, Named
<1>. QED  BY <1>1, <1>2, <1>3, <1>4, <1>5 DEF Next

(* Only a deletion takes a disk away. *)
LEMMA StepKeepsData ==
  ASSUME IInv, [Next]_vars
  PROVE  \A d \in Live : d \in Live' \/ d.label \notin Named
<1>1. CASE UNCHANGED volumes  BY <1>1 DEF volumes, Live
<1>2. CASE DeleteVolume  BY <1>2, DeleteKeeps
<1>3. ASSUME NEW i \in Slots, ProvideVolume(i)
      PROVE  Live \subseteq Live'
  <2>0. i \in DOMAIN specs /\ specs[i] \in Labels
    BY <1>3, ProgramShape DEF ProvideVolume, IInv, TypeOK
  <2>1. CASE KeepVolume(i)  BY <2>1 DEF KeepVolume, volumes, Live
  <2>2. CASE AdoptVolume(i)
    <3>1. /\ volume'[i] = legacyVolume[specs[i]] /\ volume[i] = NoDisk
          /\ \A j \in Slots : j # i => volume'[j] = volume[j]
          /\ \A k \in Labels : k # specs[i] => legacyVolume'[k] = legacyVolume[k]
      BY <2>0, <2>2 DEF AdoptVolume, IInv, TypeOK
    <3>. QED  BY <3>1 DEF Live
  <2>3. CASE CreateVolume(i)
    <3>1. /\ volume[i] = NoDisk /\ legacyVolume' = legacyVolume
          /\ \A j \in Slots : j # i => volume'[j] = volume[j]
      BY <2>3 DEF CreateVolume, IInv, TypeOK
    <3>. QED  BY <3>1 DEF Live
  <2>. QED  BY <1>3, <2>1, <2>2, <2>3 DEF ProvideVolume
<1>. QED
  BY <1>1, <1>2, <1>3 DEF Next, vars, volumes, EditProgram, StartUp, Attach, Detach, UpSucceeds, UpStops

(* The invariant always holds, when the list is edited as assumed. *)
THEOREM VolumesInv ==
  ASSUME Edits = "settled"
  PROVE  Spec => []IInv
<1>1. IInv /\ [Next]_vars => IInv'  BY StepInv
<1>. QED  BY <1>1, InitInv, PTL DEF Spec

(* The disk under a label is always one that was created for it: what
   get_volume_id, get_disk_id and get_volume return. *)
THEOREM DiskFollowsLabel ==
  ASSUME Edits = "settled"
  PROVE  Spec => []LabelKeepsDisk
<1>1. IInv => LabelKeepsDisk
  <2>. SUFFICES ASSUME IInv, phase # "edited", NEW i \in provided
                PROVE  volume[i].label = specs[i]
    BY DEF LabelKeepsDisk, VolumeOf
  <2>1. i \in Slots /\ i \in DOMAIN specs /\ volume[i] # NoDisk  BY DEF IInv, TypeOK, Progress
  <2>. QED  BY <2>1 DEF IInv, Placed
<1>. QED  BY <1>1, VolumesInv, PTL

(* No step deletes the data of a label that the program names. *)
THEOREM NamedDataSurvives ==
  ASSUME Edits = "settled"
  PROVE  Spec => DataKept
<1>1. IInv /\ [Next]_vars => [\A d \in Live : d \in Live' \/ d.label \notin Named]_vars
  BY StepKeepsData
<1>. QED  BY <1>1, VolumesInv, PTL DEF Spec, DataKept

-----------------------------------------------------------------------------
(* Types, for any edits of the list: also the ones that do not keep the labels
   at their places *)

(* What a program names is a label within the slots. *)
LEMMA StepType ==
  ASSUME TypeOK, [Next]_vars
  PROVE  TypeOK'
<1>. USE DEF TypeOK, volumes, attachments
<1>0. DOMAIN specs \subseteq Slots /\ \A i \in DOMAIN specs : specs[i] \in Labels
  BY ProgramShape
<1>1. CASE EditProgram  BY <1>1 DEF EditProgram
<1>2. CASE StartUp \/ UpSucceeds \/ UpStops  BY <1>2 DEF StartUp, UpSucceeds, UpStops
<1>3. ASSUME NEW i \in Slots, ProvideVolume(i) PROVE TypeOK'
  <2>1. i \in DOMAIN specs /\ specs[i] \in Labels  BY <1>0, <1>3 DEF ProvideVolume
  <2>2. /\ volume' \in [Slots -> DiskOrNone] /\ legacyVolume' \in [Labels -> DiskOrNone]
        /\ made' \in [Labels -> Nat]
    <3>1. CASE KeepVolume(i)  BY <3>1 DEF KeepVolume
    <3>2. CASE AdoptVolume(i)
      <4>1. legacyVolume[specs[i]] \in DiskOrNone  BY <2>1
      <4>. QED  BY <3>2, <4>1 DEF AdoptVolume, DiskOrNone
    <3>3. CASE CreateVolume(i)
      <4>1. made[specs[i]] + 1 \in Nat  BY <2>1
      <4>2. [label |-> specs[i], n |-> made[specs[i]] + 1] \in DiskOrNone
        BY <2>1, <4>1, DiskIsNot DEF DiskOrNone
      <4>3. volume' \in [Slots -> DiskOrNone]  BY <3>3, <4>2 DEF CreateVolume
      <4>4. made' \in [Labels -> Nat]  BY <3>3, <2>1, <4>1 DEF CreateVolume
      <4>. QED  BY <3>3, <4>3, <4>4 DEF CreateVolume
    <3>. QED  BY <1>3, <3>1, <3>2, <3>3 DEF ProvideVolume
  <2>. QED  BY <1>3, <2>2 DEF ProvideVolume
<1>4. ASSUME NEW i \in Slots, Attach(i) PROVE TypeOK'
  <2>1. volume[i] \in DiskOrNone  OBVIOUS
  <2>2. attachment' \in [Slots -> DiskOrNone] /\ legacyAttachment' \in [Labels -> DiskOrNone]
    BY <1>4, <2>1 DEF Attach, DiskOrNone
  <2>. QED  BY <1>4, <2>2 DEF Attach
<1>5. CASE Detach
  <2>1. attachment' \in [Slots -> DiskOrNone] /\ legacyAttachment' \in [Labels -> DiskOrNone]
    BY <1>5 DEF Detach, DiskOrNone
  <2>. QED  BY <1>5, <2>1 DEF Detach
<1>6. CASE DeleteVolume
  <2>1. volume' \in [Slots -> DiskOrNone] /\ legacyVolume' \in [Labels -> DiskOrNone]
    BY <1>6 DEF DeleteVolume, DiskOrNone
  <2>. QED  BY <1>6, <2>1 DEF DeleteVolume
<1>7. CASE UNCHANGED vars  BY <1>7 DEF vars
<1>. QED  BY <1>1, <1>2, <1>3, <1>4, <1>5, <1>6, <1>7 DEF Next

(* Every variable keeps its type, whatever the edits. *)
THEOREM TypeCorrect == Spec => []TypeOK
<1>1. Init => TypeOK  BY InitInv DEF IInv
<1>2. TypeOK /\ [Next]_vars => TypeOK'  BY StepType
<1>. QED  BY <1>1, <1>2, PTL DEF Spec

-----------------------------------------------------------------------------
(* Attachments *)

(* No disk is older than the count of its label says. *)
Counted ==
  /\ \A i \in Slots : volume[i] # NoDisk => volume[i].n <= made[volume[i].label]
  /\ \A l \in Labels : legacyVolume[l] # NoDisk => legacyVolume[l].n <= made[legacyVolume[l].label]

(* No disk is under two names. *)
OneName ==
  /\ \A i, j \in Slots : volume[i] # NoDisk /\ volume[i] = volume[j] => i = j
  /\ \A i \in Slots, l \in Labels : volume[i] # NoDisk => volume[i] # legacyVolume[l]

(* An attachment is of the volume at its place. *)
OwnVolume == \A i \in Slots : attachment[i] # NoDisk => attachment[i] = volume[i]

(* An attachment under an old name is of the volume under this name, or of the
   one that was adopted from it and has no attachment of its own yet. *)
OldAttachment ==
  \A l \in Labels : legacyAttachment[l] # NoDisk =>
    \/ legacyAttachment[l] = legacyVolume[l]
    \/ \E i \in DOMAIN specs :
         specs[i] = l /\ volume[i] = legacyAttachment[l] /\ attachment[i] = NoDisk

(* What an update has attached is attached. *)
Fastened ==
  /\ phase # "edited" => \A i \in fastened : attachment[i] # NoDisk
  /\ phase = "settled" => fastened = DOMAIN specs

AttachInv == Counted /\ OneName /\ OwnVolume /\ OldAttachment /\ Fastened

(* The volumes of the version before the upgrade satisfy it. *)
LEMMA InitAttach == Init => AttachInv
<1>. SUFFICES ASSUME Init PROVE AttachInv  OBVIOUS
<1>. USE DEF Init
<1>1. PICK old \in SUBSET Labels :
        /\ legacyVolume = [l \in Labels |-> IF l \in old THEN [label |-> l, n |-> 1] ELSE NoDisk]
        /\ legacyAttachment = legacyVolume
        /\ made = [l \in Labels |-> IF l \in old THEN 1 ELSE 0]
  OBVIOUS
<1>2. Counted  BY <1>1 DEF Counted
<1>3. OneName /\ OwnVolume /\ OldAttachment /\ Fastened
  BY <1>1 DEF OneName, OwnVolume, OldAttachment, Fastened
<1>. QED  BY <1>2, <1>3 DEF AttachInv

(* Neither volumes nor attachments change. *)
LEMMA NothingMoves ==
  ASSUME IInv, AttachInv, Edits = "settled",
         EditProgram \/ StartUp \/ UpSucceeds \/ UpStops
  PROVE  AttachInv'
<1>. USE DEF IInv, AttachInv, volumes, attachments
<1>1. UNCHANGED <<volumes, attachments>>
  BY DEF EditProgram, StartUp, UpSucceeds, UpStops
<1>2. Counted' /\ OneName' /\ OwnVolume'
  BY <1>1 DEF Counted, OneName, OwnVolume
<1>3. OldAttachment'
  <2>1. CASE EditProgram
    <3>1. \A l \in Labels : legacyAttachment[l] = NoDisk
      BY <2>1 DEF EditProgram, Progress, Pruned
    <3>. QED  BY <1>1, <3>1 DEF OldAttachment
  <2>2. CASE specs' = specs  BY <1>1, <2>2 DEF OldAttachment
  <2>. QED  BY <2>1, <2>2 DEF StartUp, UpSucceeds, UpStops
<1>4. Fastened'
  BY <1>1 DEF EditProgram, StartUp, UpSucceeds, UpStops, Pruning, Fastened
<1>. QED  BY <1>2, <1>3, <1>4

(* An attachment takes over from the one under the old name. *)
LEMMA AttachKeeps ==
  ASSUME IInv, AttachInv, NEW i \in Slots, Attach(i)
  PROVE  AttachInv'
<1>. USE DEF IInv, AttachInv, volumes, attachments
<1>1. /\ phase = "up" /\ phase' = phase /\ specs' = specs /\ fastened' = fastened \cup {i}
      /\ volume' = volume /\ legacyVolume' = legacyVolume /\ made' = made
      /\ i \in DOMAIN specs /\ volume[i] # NoDisk
  BY DEF Attach, Progress
<1>2. /\ specs[i] \in Labels
      /\ \A j \in DOMAIN specs : j \in Slots /\ specs[j] \in Labels /\ (specs[j] = specs[i] => j = i)
  BY <1>1, ProgramShape DEF TypeOK
<1>3. attachment'[i] = volume[i] /\ \A j \in Slots : j # i => attachment'[j] = attachment[j]
  BY DEF Attach, TypeOK
<1>4. \A l \in Labels :
        legacyAttachment'[l] = IF attachment[i] = NoDisk /\ l = specs[i] THEN NoDisk
                                                                       ELSE legacyAttachment[l]
  BY DEF Attach, TypeOK
<1>5. Counted' /\ OneName'  BY <1>1 DEF Counted, OneName
<1>6. OwnVolume'  BY <1>1, <1>3 DEF OwnVolume
<1>7. OldAttachment'
  <2>. SUFFICES ASSUME NEW l \in Labels, legacyAttachment'[l] # NoDisk,
                       legacyAttachment[l] # legacyVolume[l]
                PROVE  \E j \in DOMAIN specs :
                         specs[j] = l /\ volume[j] = legacyAttachment[l] /\ attachment'[j] = NoDisk
    BY <1>1, <1>4 DEF OldAttachment
  <2>1. legacyAttachment[l] # NoDisk  BY <1>4
  <2>2. PICK j \in DOMAIN specs :
          specs[j] = l /\ volume[j] = legacyAttachment[l] /\ attachment[j] = NoDisk
    BY <2>1 DEF OldAttachment
  <2>3. j # i  BY <1>4, <2>2
  <2>. QED  BY <1>2, <1>3, <2>2, <2>3
<1>8. Fastened'
  <2>1. \A j \in fastened : j \in Slots  BY DEF TypeOK
  <2>. QED  BY <1>1, <1>3, <2>1 DEF Fastened
<1>. QED  BY <1>5, <1>6, <1>7, <1>8

(* What the program does not name loses its attachment. *)
LEMMA DetachKeeps ==
  ASSUME IInv, AttachInv, Detach
  PROVE  AttachInv'
<1>. USE DEF IInv, AttachInv, volumes, attachments
<1>1. /\ phase = "up" /\ phase' = phase /\ specs' = specs /\ fastened' = fastened
      /\ fastened = DOMAIN specs
      /\ volume' = volume /\ legacyVolume' = legacyVolume /\ made' = made
  BY DEF Detach, Pruning
<1>2. \A j \in DOMAIN specs : j \in Slots
  BY ProgramShape DEF TypeOK
<1>3. /\ \A j \in Slots : attachment'[j] = attachment[j] \/ (j \notin DOMAIN specs /\ attachment'[j] = NoDisk)
      /\ \A l \in Labels : legacyAttachment'[l] \in {legacyAttachment[l], NoDisk}
  BY DEF Detach, TypeOK
<1>4. Counted' /\ OneName' /\ OwnVolume'
  BY <1>1, <1>3 DEF Counted, OneName, OwnVolume
<1>5. OldAttachment'  BY <1>1, <1>2, <1>3 DEF OldAttachment
<1>6. Fastened'  BY <1>1, <1>2, <1>3 DEF Fastened
<1>. QED  BY <1>4, <1>5, <1>6

(* A deleted disk is attached nowhere. *)
LEMMA DeleteDetached ==
  ASSUME IInv, AttachInv, DeleteVolume
  PROVE  AttachInv'
<1>. USE DEF IInv, AttachInv, volumes, attachments
<1>1. /\ phase = "up" /\ phase' = phase /\ specs' = specs /\ fastened' = fastened
      /\ attachment' = attachment /\ legacyAttachment' = legacyAttachment /\ made' = made
  BY DEF DeleteVolume, Pruning
<1>2. \A j \in DOMAIN specs : j \in Slots
  BY ProgramShape DEF TypeOK
<1>3. /\ \A j \in Slots : volume'[j] = volume[j] \/ (volume'[j] = NoDisk /\ volume[j] \notin Attached)
      /\ \A l \in Labels : \/ legacyVolume'[l] = legacyVolume[l]
                           \/ legacyVolume'[l] = NoDisk /\ legacyVolume[l] \notin Attached
  BY DEF DeleteVolume, TypeOK
<1>4. /\ \A j \in Slots : attachment[j] # NoDisk => attachment[j] \in Attached
      /\ \A l \in Labels : legacyAttachment[l] # NoDisk => legacyAttachment[l] \in Attached
  BY DEF Attached
<1>5. Counted'  BY <1>1, <1>3 DEF Counted
<1>6. OneName'  BY <1>3 DEF OneName
<1>7. OwnVolume'  BY <1>1, <1>3, <1>4 DEF OwnVolume
<1>8. OldAttachment'  BY <1>1, <1>2, <1>3, <1>4 DEF OldAttachment
<1>9. Fastened'  BY <1>1 DEF Fastened
<1>. QED  BY <1>5, <1>6, <1>7, <1>8, <1>9

(* A volume that is kept, adopted or created has a name of its own. *)
LEMMA ProvideNames ==
  ASSUME IInv, AttachInv, NEW i \in Slots, ProvideVolume(i)
  PROVE  AttachInv'
<1>. DEFINE l == specs[i]
<1>. USE DEF IInv, AttachInv, volumes, attachments
<1>1. /\ phase = "up" /\ phase' = phase /\ specs' = specs /\ i \in DOMAIN specs
      /\ fastened' = fastened
      /\ attachment' = attachment /\ legacyAttachment' = legacyAttachment
  BY DEF ProvideVolume
<1>2. l \in Labels /\ \A j \in DOMAIN specs : j \in Slots /\ (specs[j] = l => j = i)
  BY <1>1, ProgramShape DEF TypeOK
<1>3. Fastened'  BY <1>1 DEF Fastened
<1>. HIDE DEF l
<1>4. CASE KeepVolume(i)
  <2>1. UNCHANGED volumes  BY <1>4 DEF KeepVolume
  <2>. QED  BY <1>1, <1>3, <2>1 DEF Counted, OneName, OwnVolume, OldAttachment
<1>5. CASE AdoptVolume(i)
  <2>1. /\ volume'[i] = legacyVolume[l] /\ legacyVolume'[l] = NoDisk
        /\ \A j \in Slots : j # i => volume'[j] = volume[j]
        /\ \A k \in Labels : k # l => legacyVolume'[k] = legacyVolume[k]
        /\ made' = made /\ volume[i] = NoDisk /\ legacyVolume[l] # NoDisk
    BY <1>2, <1>5 DEF AdoptVolume, TypeOK, l
  <2>2. Counted'  BY <1>2, <2>1 DEF Counted
  <2>3. OneName'
    <3>1. \A k \in Labels : k # l => legacyVolume[k] # legacyVolume[l]
      BY <1>2, <2>1 DEF LegacyNamed
    <3>. QED  BY <1>2, <2>1, <3>1 DEF OneName
  <2>4. attachment[i] = NoDisk  BY <2>1 DEF OwnVolume
  <2>5. OwnVolume'  BY <1>1, <2>1, <2>4 DEF OwnVolume
  <2>6. OldAttachment'
    <3>. SUFFICES ASSUME NEW k \in Labels, legacyAttachment[k] # NoDisk,
                         legacyAttachment[k] # legacyVolume'[k]
                  PROVE  \E j \in DOMAIN specs :
                           specs[j] = k /\ volume'[j] = legacyAttachment[k] /\ attachment[j] = NoDisk
      BY <1>1 DEF OldAttachment
    <3>1. CASE legacyAttachment[k] = legacyVolume[k]
      <4>1. k = l  BY <2>1, <3>1
      <4>. QED  BY <1>1, <2>1, <2>4, <3>1, <4>1 DEF l
    <3>2. CASE legacyAttachment[k] # legacyVolume[k]
      <4>1. PICK j \in DOMAIN specs :
              specs[j] = k /\ volume[j] = legacyAttachment[k] /\ attachment[j] = NoDisk
        BY <3>2 DEF OldAttachment
      <4>2. j \in Slots /\ j # i  BY <1>2, <2>1, <4>1
      <4>. QED  BY <2>1, <4>1, <4>2
    <3>. QED  BY <3>1, <3>2
  <2>. QED  BY <1>3, <2>2, <2>3, <2>5, <2>6
<1>6. CASE CreateVolume(i)
  <2>1. /\ volume'[i] = [label |-> l, n |-> made[l] + 1]
        /\ \A j \in Slots : j # i => volume'[j] = volume[j]
        /\ legacyVolume' = legacyVolume /\ volume[i] = NoDisk
        /\ made'[l] = made[l] + 1 /\ \A k \in Labels : k # l => made'[k] = made[k]
    BY <1>2, <1>6 DEF CreateVolume, TypeOK, l
  <2>2. made[l] \in Nat /\ \A k \in Labels : made[k] \in Nat  BY <1>2 DEF TypeOK
  <2>3. \A d \in Disk : d.label \in Labels /\ d.n \in Nat  BY DEF Disk
  <2>4. /\ \A j \in Slots : volume[j] # NoDisk => volume[j] \in Disk
        /\ \A k \in Labels : legacyVolume[k] # NoDisk => legacyVolume[k] \in Disk
    BY DEF TypeOK, DiskOrNone
  <2>5. \A d \in Disk : d.n <= made[d.label] => d # volume'[i] /\ d.n <= made'[d.label]
    BY <1>2, <2>1, <2>2, <2>3
  <2>6. volume'[i].n <= made'[volume'[i].label] /\ volume'[i] # NoDisk
    BY <1>2, <2>1, <2>2, DiskIsNot
  <2>7. Counted'  BY <2>1, <2>4, <2>5, <2>6 DEF Counted
  <2>8. OneName'
    <3>1. /\ \A j \in Slots : volume[j] # NoDisk => volume[j] # volume'[i]
          /\ \A k \in Labels : legacyVolume[k] # volume'[i]
      BY <2>4, <2>5, <2>6 DEF Counted
    <3>. QED  BY <2>1, <2>6, <3>1 DEF OneName
  <2>9. OwnVolume'  BY <1>1, <2>1 DEF OwnVolume
  <2>10. OldAttachment'
    <3>1. \A j \in DOMAIN specs : volume[j] # NoDisk => volume'[j] = volume[j]
      BY <1>2, <2>1
    <3>. QED  BY <1>1, <2>1, <3>1 DEF OldAttachment
  <2>. QED  BY <1>3, <2>7, <2>8, <2>9, <2>10
<1>. QED  BY <1>4, <1>5, <1>6 DEF ProvideVolume

(* Every step of an instance keeps it. *)
LEMMA StepAttach ==
  ASSUME Edits = "settled", IInv, AttachInv, [Next]_vars
  PROVE  AttachInv'
<1>1. CASE EditProgram \/ StartUp \/ UpSucceeds \/ UpStops  BY <1>1, NothingMoves
<1>2. ASSUME NEW i \in Slots, ProvideVolume(i) \/ Attach(i) PROVE AttachInv'
  BY <1>2, ProvideNames, AttachKeeps
<1>3. CASE Detach  BY <1>3, DetachKeeps
<1>4. CASE DeleteVolume  BY <1>4, DeleteDetached
<1>5. CASE UNCHANGED vars
  BY <1>5 DEF vars, volumes, attachments, AttachInv, Counted, OneName, OwnVolume, OldAttachment,
              Fastened
<1>. QED  BY <1>1, <1>2, <1>3, <1>4, <1>5 DEF Next

(* No disk is ever attached twice, no attachment outlives its disk, and a
   successful update leaves each volume of the program with its own one, however
   many updates stopped before. *)
THEOREM AttachmentsAlwaysMatch ==
  ASSUME Edits = "settled"
  PROVE  Spec => []AttachmentsMatch
<1>1. IInv /\ AttachInv => AttachmentsMatch
  <2>. SUFFICES ASSUME IInv, AttachInv PROVE AttachmentsMatch  OBVIOUS
  <2>. USE DEF IInv, AttachInv
  <2>0. \A j \in DOMAIN specs : j \in Slots  BY ProgramShape DEF TypeOK
  <2>1. Attached \subseteq Live
    <3>1. \A i \in Slots : attachment[i] # NoDisk => attachment[i] \in Live
      BY DEF OwnVolume, Live
    <3>2. \A l \in Labels : legacyAttachment[l] # NoDisk => legacyAttachment[l] \in Live
      BY <2>0 DEF OldAttachment, Live
    <3>. QED  BY <3>1, <3>2 DEF Attached
  <2>2. ASSUME NEW i \in Slots, NEW l \in Labels, attachment[i] # NoDisk
        PROVE  attachment[i] # legacyAttachment[l]
    <3>1. attachment[i] = volume[i] /\ volume[i] # NoDisk  BY <2>2 DEF OwnVolume
    <3>2. volume[i] # legacyVolume[l]  BY <3>1 DEF OneName
    <3>3. \A j \in DOMAIN specs : attachment[j] = NoDisk => volume[i] # volume[j]
      BY <2>0, <2>2, <3>1 DEF OneName
    <3>. QED  BY <3>1, <3>2, <3>3 DEF OldAttachment
  <2>3. \A i, j \in Slots : i # j /\ attachment[i] # NoDisk => attachment[i] # attachment[j]
    BY DEF OwnVolume, OneName
  <2>4. ASSUME phase = "settled", NEW i \in Slots
        PROVE  attachment[i] = volume[i] /\ (i \in DOMAIN specs <=> volume[i] # NoDisk)
    BY <2>4 DEF Fastened, OwnVolume, Progress, Pruned
  <2>. QED  BY <2>1, <2>2, <2>3, <2>4 DEF AttachmentsMatch
<1>2. IInv /\ AttachInv /\ [Next]_vars => AttachInv'  BY StepAttach
<1>. QED  BY <1>1, <1>2, InitAttach, VolumesInv, PTL DEF Spec
=============================================================================
