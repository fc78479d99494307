----------------------------- MODULE DataVolumes -----------------------------
(***************************************************************************)
(* The block volumes of a ComputeInstance across deployments               *)
(* (providers/oci/compute.py).                                             *)
(*                                                                         *)
(* A VolumeSpec is known to the program by its label and to Pulumi by its  *)
(* place in the list: the i-th volume is the resource vol-i, its           *)
(* attachment vol-attach-i.  Earlier versions of the spell put the label   *)
(* in the name; those names are aliases, so that an old deployment is      *)
(* adopted and not recreated.  The data of a volume must follow its label  *)
(* through edits of the list, through the adoption and through updates     *)
(* that stop half-way.                                                     *)
(*                                                                         *)
(* One pulumi up registers the volumes and attachments in the order the    *)
(* engine finds them ready and, when all are there, deletes what the       *)
(* program no longer names.                                                *)
(***************************************************************************)
EXTENDS Integers, Sequences, FiniteSets

CONSTANTS
  Labels,      \* labels of volumes
  MaxVolumes,  \* bound: length of a volumes list
  MaxMade,     \* bound: disks created for one label
  NoDisk,      \* marks a resource that does not exist
  Edits        \* "settled": the list grows or shrinks at its end, after the last
               \* update succeeded; "any": it changes at will

ASSUME BoundsAssumption == MaxVolumes \in Nat /\ MaxMade \in Nat
ASSUME EditsAssumption  == Edits \in {"settled", "any"}

Slots == 1..MaxVolumes

(* The n-th disk created for a label; its label is the one its tags had then. *)
Disk == [label : Labels, n : Nat]

ASSUME NoDiskAssumption == NoDisk \notin Disk

VARIABLES
  specs,           \* labels of volumes_spec, in order
  volume,          \* disk of resource vol-i in the Pulumi state
  legacyVolume,    \* disk of the resource named after a label
  attachment,      \* disk that vol-attach-i attaches
  legacyAttachment,
  made,            \* history: disks created for each label
  provided,        \* volumes the running update has registered
  fastened,        \* attachments it has registered
  phase            \* "settled" after a successful update, "up" during one, else "edited"

volumes     == <<volume, legacyVolume, made>>
attachments == <<attachment, legacyAttachment>>
vars        == <<specs, volumes, attachments, provided, fastened, phase>>

(* What the constructor takes: a list without duplicate labels, not empty. *)
Programs ==
  {s \in UNION {[1..n -> Labels] : n \in 1..MaxVolumes} :
     \A i, j \in DOMAIN s : s[i] = s[j] => i = j}

Named == {specs[i] : i \in DOMAIN specs}

Live == ({volume[i] : i \in Slots} \cup {legacyVolume[l] : l \in Labels}) \ {NoDisk}

(* The disks that some attachment is of. *)
Attached == ({attachment[i] : i \in Slots} \cup {legacyAttachment[l] : l \in Labels}) \ {NoDisk}

(* get_volume_id, get_disk_id, get_volume: the resource at the label's place. *)
VolumeOf(i) == volume[i]

-----------------------------------------------------------------------------

(* An instance that an earlier version deployed with some volumes, or a new
   one, and the program of this version. *)
Init ==
  /\ specs \in Programs
  /\ \E old \in SUBSET Labels :
       LET held == [l \in Labels |-> IF l \in old THEN [label |-> l, n |-> 1] ELSE NoDisk] IN
       /\ legacyVolume     = held
       /\ legacyAttachment = held
       /\ made = [l \in Labels |-> IF l \in old THEN 1 ELSE 0]
  /\ volume     = [i \in Slots |-> NoDisk]
  /\ attachment = [i \in Slots |-> NoDisk]
  /\ provided = {} /\ fastened = {}
  /\ phase = "edited"

Extends(long, short) ==
  DOMAIN short \subseteq DOMAIN long /\ \A i \in DOMAIN short : long[i] = short[i]

EditProgram ==
  /\ phase # "up"
  /\ \E new \in Programs \ {specs} :
       /\ Edits = "settled" => phase = "settled" /\ (Extends(new, specs) \/ Extends(specs, new))
       /\ specs' = new
  /\ phase' = "edited"
  /\ UNCHANGED <<volumes, attachments, provided, fastened>>

StartUp ==
  /\ phase # "up"
  /\ phase' = "up"
  /\ provided' = {} /\ fastened' = {}
  /\ UNCHANGED <<specs, volumes, attachments>>

(* The resource vol-i is in the state: it stays, with new tags. *)
KeepVolume(i) == volume[i] # NoDisk /\ UNCHANGED volumes

(* Fault: every volume has the alias of the first one. *)
AdoptFirstVolume(i) ==
  /\ volume[i] = NoDisk
  /\ legacyVolume[specs[1]] # NoDisk
  /\ volume' = [volume EXCEPT ![i] = legacyVolume[specs[1]]]
  /\ legacyVolume' = [legacyVolume EXCEPT ![specs[1]] = NoDisk]
  /\ UNCHANGED made

(* Fault: no alias, so that the label gets a new disk. *)
AdoptNoVolume(i) ==
  /\ volume[i] = NoDisk
  /\ made[specs[i]] \in 1..(MaxMade - 1)
  /\ made' = [made EXCEPT ![specs[i]] = @ + 1]
  /\ volume' = [volume EXCEPT ![i] = [label |-> specs[i], n |-> made[specs[i]] + 1]]
  /\ UNCHANGED legacyVolume

(* It is not, but its alias, the name with the label, is: the resource is
   renamed. *)
AdoptVolume(i) ==
  /\ volume[i] = NoDisk
  /\ legacyVolume[specs[i]] # NoDisk
  /\ volume' = [volume EXCEPT ![i] = legacyVolume[specs[i]]]
  /\ legacyVolume' = [legacyVolume EXCEPT ![specs[i]] = NoDisk]
  /\ UNCHANGED made

(* Neither is: a new disk. *)
CreateVolume(i) ==
  /\ volume[i] = NoDisk
  /\ legacyVolume[specs[i]] = NoDisk
  /\ made[specs[i]] < MaxMade
  /\ made' = [made EXCEPT ![specs[i]] = @ + 1]
  /\ volume' = [volume EXCEPT ![i] = [label |-> specs[i], n |-> made[specs[i]] + 1]]
  /\ UNCHANGED legacyVolume

ProvideVolume(i) ==
  /\ phase = "up"
  /\ i \in DOMAIN specs \ provided
  /\ KeepVolume(i) \/ AdoptVolume(i) \/ CreateVolume(i)
  /\ provided' = provided \cup {i}
  /\ UNCHANGED <<specs, attachments, fastened, phase>>

(* Fault: no alias, so a second attachment is made. *)
AttachAnew(i) ==
  /\ phase = "up"
  /\ i \in provided \ fastened
  /\ attachment' = [attachment EXCEPT ![i] = volume[i]]
  /\ UNCHANGED legacyAttachment
  /\ fastened' = fastened \cup {i}
  /\ UNCHANGED <<specs, volumes, provided, phase>>

(* Fault: the attachment does not wait for its volume. *)
AttachEarly(i) ==
  /\ phase = "up"
  /\ i \in DOMAIN specs \ fastened
  /\ attachment' = [attachment EXCEPT ![i] = volume[i]]
  /\ legacyAttachment' = IF attachment[i] = NoDisk
                         THEN [legacyAttachment EXCEPT ![specs[i]] = NoDisk]
                         ELSE legacyAttachment
  /\ fastened' = fastened \cup {i}
  /\ UNCHANGED <<specs, volumes, provided, phase>>

(* vol-attach-i, after its volume (depends_on): the resource in the state, or
   the one under the alias, which loses its old name.  An attachment of another
   disk is deleted, then created (delete_before_replace), in one step here. *)
Attach(i) ==
  /\ phase = "up"
  /\ i \in provided \ fastened
  /\ attachment' = [attachment EXCEPT ![i] = volume[i]]
  /\ legacyAttachment' = IF attachment[i] = NoDisk
                         THEN [legacyAttachment EXCEPT ![specs[i]] = NoDisk]
                         ELSE legacyAttachment
  /\ fastened' = fastened \cup {i}
  /\ UNCHANGED <<specs, volumes, provided, phase>>

(* The program has run and all it names is there. *)
Pruning == phase = "up" /\ fastened = DOMAIN specs

(* The engine deletes what the program no longer names, dependants first. *)
Detach ==
  /\ Pruning
  /\ \/ \E i \in Slots \ DOMAIN specs :
          /\ attachment[i] # NoDisk
          /\ attachment' = [attachment EXCEPT ![i] = NoDisk]
          /\ UNCHANGED legacyAttachment
     \/ \E l \in Labels :
          /\ legacyAttachment[l] # NoDisk
          /\ legacyAttachment' = [legacyAttachment EXCEPT ![l] = NoDisk]
          /\ UNCHANGED attachment
  /\ UNCHANGED <<specs, volumes, provided, fastened, phase>>

DeleteVolume ==
  /\ Pruning
  /\ \/ \E i \in Slots \ DOMAIN specs :
          /\ volume[i] # NoDisk /\ volume[i] \notin Attached
          /\ volume' = [volume EXCEPT ![i] = NoDisk]
          /\ UNCHANGED legacyVolume
     \/ \E l \in Labels :
          /\ legacyVolume[l] # NoDisk /\ legacyVolume[l] \notin Attached
          /\ legacyVolume' = [legacyVolume EXCEPT ![l] = NoDisk]
          /\ UNCHANGED volume
  /\ UNCHANGED <<specs, made, attachments, provided, fastened, phase>>

(* Nothing is left that the program does not name. *)
Pruned ==
  /\ \A i \in Slots \ DOMAIN specs : volume[i] = NoDisk /\ attachment[i] = NoDisk
  /\ \A l \in Labels : legacyVolume[l] = NoDisk /\ legacyAttachment[l] = NoDisk

UpSucceeds ==
  /\ Pruning
  /\ Pruned
  /\ phase' = "settled"
  /\ UNCHANGED <<specs, volumes, attachments, provided, fastened>>

(* A resource failed or the process was killed: what was done stays. *)
UpStops ==
  /\ phase = "up"
  /\ phase' = "edited"
  /\ UNCHANGED <<specs, volumes, attachments, provided, fastened>>

Next ==
  \/ EditProgram
  \/ StartUp
  \/ \E i \in Slots : ProvideVolume(i) \/ Attach(i)
  \/ Detach
  \/ DeleteVolume
  \/ UpSucceeds
  \/ UpStops

Spec == Init /\ [][Next]_vars

-----------------------------------------------------------------------------

DiskOrNone == Disk \cup {NoDisk}

(* Values of the variables. *)
TypeOK ==
  /\ specs \in Programs
  /\ volume \in [Slots -> DiskOrNone] /\ attachment \in [Slots -> DiskOrNone]
  /\ legacyVolume \in [Labels -> DiskOrNone] /\ legacyAttachment \in [Labels -> DiskOrNone]
  /\ made \in [Labels -> Nat]
  /\ provided \subseteq Slots /\ fastened \subseteq provided
  /\ phase \in {"settled", "edited", "up"}

(* get_volume_id(label) is "the OCID of the block volume with the given label"
   (compute.py): a resource that the update registers at a label's place is a
   disk created for this label, also while an old deployment is adopted and
   after updates that stopped. *)
LabelKeepsDisk ==
  phase # "edited" => \A i \in provided : VolumeOf(i).label = specs[i]

(* No step deletes the data of a label the program still names. *)
DataKept == [][\A d \in Live : d \in Live' \/ d.label \notin Named]_vars

(* Every attachment is of a disk that exists, no disk is attached twice (OCI
   refuses that), and after a successful update each volume of the program is
   attached by its own attachment, and nothing else is. *)
AttachmentsMatch ==
  /\ Attached \subseteq Live
  /\ \A i \in Slots, l \in Labels :
       attachment[i] # NoDisk => attachment[i] # legacyAttachment[l]
  /\ \A i, j \in Slots : i # j /\ attachment[i] # NoDisk => attachment[i] # attachment[j]
  /\ phase = "settled" =>
       \A i \in Slots : attachment[i] = volume[i] /\ (i \in DOMAIN specs <=> volume[i] # NoDisk)
=============================================================================
