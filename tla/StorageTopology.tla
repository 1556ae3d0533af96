--------------------------- MODULE StorageTopology ---------------------------
(***************************************************************************)
(* read_storage_topology() and its parser: lsblk, blkid and findmnt are    *)
(* run one after the other and merged into one StorageConfiguration, while *)
(* disks come and go and file systems are made, mounted and unmounted.     *)
(*                                                                         *)
(* A path is a directory and a name: <<"dev", "sda1">>, or                 *)
(* <<"mapper", "home">> for what the device mapper makes (an opened LUKS   *)
(* volume, an LVM volume, a multipath map) and lsblk calls "home".         *)
(*                                                                         *)
(* Simplifications: disks are in /dev itself; type, uuid and label of a    *)
(* file system are one value, and so are partuuid and parttype; sizes,     *)
(* models and serial numbers are copied and nothing else, and left out. An *)
(* entry below the top of a tree that is no object at all is not here but  *)
(* the "odd" tool of HostAdapters: it ends in an AttributeError.           *)
(***************************************************************************)
EXTENDS Integers, Sequences, FiniteSets, SequencesExt

CONSTANTS
  Machines,   \* the states the disks and mounts of a machine may pass through
  Versions,   \* what lsblk does: its booleans are texts in "2.31"
  MaxChanges, \* bound: changes during one read
  None        \* no value: null, or a key that is not there

\* A mount table is a tree as findmnt prints it, a function from addresses:
\* <<1, 2>> is the second child of the first. "within" tells a subvolume or a
\* bind mount, whose source is not the bare path of its device. What stands on
\* no device has a source of another shape, <<"tmpfs">>, or none at all.
MountTable(tree) ==
  /\ IsFiniteSet(DOMAIN tree)
  /\ \A a \in DOMAIN tree :
       /\ a \in Seq(Nat) /\ a # <<>> /\ (Len(a) > 1 => Front(a) \in DOMAIN tree)
       /\ DOMAIN tree[a] = {"device", "within", "target", "fstype", "options"}
       /\ tree[a].within \in BOOLEAN /\ tree[a].target # None
       /\ tree[a].within =>
            /\ tree[a].device \in Seq(STRING) /\ Len(tree[a].device) = 2
            /\ Append(tree[a].device, "[/]") # None

\* The devices that lsblk lists below the disks: <<i, j>> is the j-th child of
\* the i-th disk, <<i, j, k>> the k-th device that stands, deeper, on that one.
Places(m) ==
  UNION {UNION {{<<i, j>>} \union {<<i, j, k>> : k \in DOMAIN m.disks[i].children[j].below} :
                  j \in DOMAIN m.disks[i].children} : i \in DOMAIN m.disks}

At(m, place) ==
  LET child == m.disks[place[1]].children[place[2]]
  IN IF Len(place) = 2 THEN child ELSE child.below[place[3]]

Devices(m) == {At(m, place) : place \in Places(m)}

\* Partitions are numbered from 1, by those lsblk that give the number. What
\* stands on several disks, a RAID, is one device with one content.
ASSUME MachinesAreTyped ==
  \A m \in Machines :
    /\ MountTable(m.mounts)
    /\ m.disks \in Seq(ToSet(m.disks))
    /\ \A i \in DOMAIN m.disks :
         /\ DOMAIN m.disks[i] = {"name", "type", "removable", "readOnly", "children"}
         /\ m.disks[i].children \in Seq(ToSet(m.disks[i].children))
         /\ \A child \in ToSet(m.disks[i].children) :
              /\ child.partn = None \/ child.partn \in Nat \ {0}
              /\ child.below \in Seq(ToSet(child.below))
    /\ \A d \in Devices(m) : d.node \in {"dev", "mapper"}
    /\ \A c, d \in Devices(m) :
         c.name = d.name => c.node = d.node /\ c.fs = d.fs /\ c.partuuid = d.partuuid
    /\ \A d \in Devices(m), a \in DOMAIN m.mounts :
         m.mounts[a].device = <<"dev", d.name>> => d.node = "dev"
\* The absent value is no file system and no mount point.
ASSUME NoneIsNoFileSystem ==
  /\ None # "[SWAP]"
  /\ \A m \in Machines : \A c \in Devices(m) :
       /\ None # [fs |-> c.fs, mount |-> None, options |-> None]
       /\ \A a \in DOMAIN m.mounts :
            None # [fs |-> c.fs, mount |-> m.mounts[a].target, options |-> m.mounts[a].options]
ASSUME VersionsAreTyped == Versions \subseteq {"2.31", "2.37"}
ASSUME BoundIsNatural == MaxChanges \in Nat

VARIABLES
  machine,   \* the disks, mounts and active swaps as they are
  changes,   \* how often they changed
  version,   \* of util-linux
  step,      \* "lsblk", "blkid", "findmnt", "parse", "done", or "rest"
  seen,      \* the machine as each tool has found it: what is in its stdout
  garbled,   \* the tools whose stdout is not what they print by rights
  topology,  \* the StorageConfiguration
  outcome    \* "pending", "topology", "unparsed" (StorageParseError), "failed"

storageVars == <<machine, changes, version, step, seen, garbled, topology, outcome>>

-----------------------------------------------------------------------------
(* What the tools print of a machine *)

Preceded(a, b) ==
  \/ IsStrictPrefix(a, b)
  \/ \E i \in DOMAIN a \intersect DOMAIN b :
       a[i] < b[i] /\ SubSeq(a, 1, i - 1) = SubSeq(b, 1, i - 1)

\* Addresses in the order of the text
Listed(addresses) ==
  LET Rank(a) == Cardinality({b \in addresses : Preceded(b, a)})
  IN [i \in 1 .. Cardinality(addresses) |-> CHOOSE a \in addresses : Rank(a) = i - 1]

Path(device) == <<device.node, device.name>>

\* lsblk: the mount points of a device, subvolumes and bind mounts among them;
\* it prints "[SWAP]" for a swap space in use
Swap == "[SWAP]"

Points(m, path) ==
  LET of == Listed({a \in DOMAIN m.mounts : m.mounts[a].device = path})
  IN IF path \in m.swaps THEN <<Swap>> ELSE [i \in DOMAIN of |-> m.mounts[of[i]].target]

\* blkid: an entry for what has a file system or a place in a partition table
Probed(m) ==
  LET of == Listed({p \in Places(m) : At(m, p).fs # None \/ At(m, p).partuuid # None})
  IN [k \in DOMAIN of |-> At(m, of[k])]

\* findmnt
Source(mount) == IF mount.within THEN Append(mount.device, "[/]") ELSE mount.device

-----------------------------------------------------------------------------
(* _parse_lsblk *)

\* The parser puts /dev/ before every name that lsblk prints.
DevPath(name) == <<"dev", name>>

\* Only the key of older versions is read
MutantFirstPoint(points) == None

FirstPoint(points) == IF points = <<>> THEN None ELSE points[1]

\* What stands on a partition is not looked at.
ParsePartition(m, child, fallback) ==
  [name |-> child.name, number |-> IF child.partn # None THEN child.partn ELSE fallback,
   partuuid |-> None, filesystem |-> None, mount |-> FirstPoint(Points(m, Path(child)))]

\* Positions counted from 0
MutantParseDevice(m, disk) ==
  [name |-> disk.name, type |-> disk.type, removable |-> disk.removable, readOnly |-> disk.readOnly,
   mount |-> FirstPoint(Points(m, DevPath(disk.name))),
   partitions |-> [i \in DOMAIN disk.children |-> ParsePartition(m, disk.children[i], i - 1)]]

ParseDevice(m, disk) ==
  [name |-> disk.name, type |-> disk.type, removable |-> disk.removable, readOnly |-> disk.readOnly,
   mount |-> FirstPoint(Points(m, DevPath(disk.name))),
   partitions |-> [i \in DOMAIN disk.children |-> ParsePartition(m, disk.children[i], i)]]

ParseLsblk(m) == [i \in DOMAIN m.disks |-> ParseDevice(m, m.disks[i])]

\* _require_str and _require_bool; the models want numbers from 1 up, all
\* different on a disk, and disks by different names.
GoodDevice(device) ==
  /\ device.name # None /\ device.type # None
  /\ \A i \in DOMAIN device.partitions :
       device.partitions[i].name # None /\ device.partitions[i].number >= 1
  /\ \A i, j \in DOMAIN device.partitions :
       device.partitions[i].number = device.partitions[j].number => i = j

\* findmnt: _require_str
GoodMount(mount) == None \notin {mount.target, mount.source, mount.fstype, mount.options}

IsAcceptable(devices, mounts) ==
  /\ garbled = {}
  /\ devices # <<>> => version # "2.31"
  /\ \A i \in DOMAIN devices : GoodDevice(devices[i])
  /\ \A i, j \in DOMAIN devices : devices[i].name = devices[j].name => i = j
  /\ \A i \in DOMAIN mounts : GoodMount(mounts[i])

-----------------------------------------------------------------------------
(* _annotate_device_with_blkid *)

\* By path, as blkid prints it; the last entry of a path counts.
ParseBlkid(m) ==
  [path \in {Path(Probed(m)[i]) : i \in DOMAIN Probed(m)} |->
     LET last == SelectLastInSeq(Probed(m), LAMBDA c : Path(c) = path)
     IN [fs |-> Probed(m)[last].fs, partuuid |-> Probed(m)[last].partuuid]]

\* The facts of some entry, whatever its path
MutantWithFacts(partition, facts) ==
  IF DOMAIN facts = {} THEN partition
  ELSE [partition EXCEPT !.partuuid = facts[CHOOSE path \in DOMAIN facts : TRUE].partuuid]

WithFacts(partition, facts) ==
  LET path == DevPath(partition.name)
  IN IF path \notin DOMAIN facts THEN partition
     ELSE [partition EXCEPT
             !.partuuid = facts[path].partuuid,
             !.filesystem = IF facts[path].fs = None THEN None
                            ELSE [fs |-> facts[path].fs, mount |-> None, options |-> None]]

-----------------------------------------------------------------------------
(* _parse_findmnt, _annotate_device_with_mounts *)

\* The deepest mounts first
MutantParseFindmnt(tree) ==
  LET order == Reverse(Listed(DOMAIN tree))
  IN [i \in DOMAIN order |->
        [source |-> Source(tree[order[i]]), target |-> tree[order[i]].target,
         fstype |-> tree[order[i]].fstype, options |-> tree[order[i]].options,
         parent |-> IF Len(order[i]) = 1 THEN None ELSE tree[Front(order[i])].target]]

ParseFindmnt(tree) ==
  LET order == Listed(DOMAIN tree)
  IN [i \in DOMAIN order |->
        [source |-> Source(tree[order[i]]), target |-> tree[order[i]].target,
         fstype |-> tree[order[i]].fstype, options |-> tree[order[i]].options,
         parent |-> IF Len(order[i]) = 1 THEN None ELSE tree[Front(order[i])].target]]

MountsOf(mounts, name) == {i \in DOMAIN mounts : mounts[i].source = DevPath(name)}

\* mount_by_source: the last mount of a source counts.
LastMount(mounts, name) == mounts[Max(MountsOf(mounts, name))]

\* The options of the first mount, the target of the last
MutantWithMount(partition, mounts) ==
  IF MountsOf(mounts, partition.name) = {} THEN partition
  ELSE LET placed == [partition EXCEPT !.mount = LastMount(mounts, partition.name).target]
           first  == mounts[Min(MountsOf(mounts, partition.name))]
       IN IF partition.filesystem = None THEN placed
          ELSE [placed EXCEPT !.filesystem.mount = first.target, !.filesystem.options = first.options]

WithMount(partition, mounts) ==
  IF MountsOf(mounts, partition.name) = {} THEN partition
  ELSE LET last   == LastMount(mounts, partition.name)
           placed == [partition EXCEPT !.mount = last.target]
       IN IF partition.filesystem = None THEN placed
          ELSE [placed EXCEPT !.filesystem.mount = last.target, !.filesystem.options = last.options]

WholeMount(device, mounts) ==
  IF MountsOf(mounts, device.name) = {} THEN device.mount ELSE LastMount(mounts, device.name).target

\* parse_storage_topology
Merged(devices, facts, mounts) ==
  [devices |->
     [i \in DOMAIN devices |->
        [devices[i] EXCEPT
           !.mount = WholeMount(devices[i], mounts),
           !.partitions = [j \in DOMAIN devices[i].partitions |->
                             WithMount(WithFacts(devices[i].partitions[j], facts), mounts)]]],
   mounts |-> mounts]

-----------------------------------------------------------------------------
NoTopology == [devices |-> <<>>, mounts |-> <<>>]

StorageInit ==
  /\ machine \in Machines /\ version \in Versions
  /\ changes = 0 /\ step = "lsblk" /\ seen = <<>> /\ garbled = {}
  /\ topology = NoTopology /\ outcome = "pending"

\* A disk is plugged in or out, a file system made, mounted or unmounted.
Change ==
  /\ step \in {"lsblk", "blkid", "findmnt"}
  /\ changes < MaxChanges
  /\ machine' \in Machines \ {machine}
  /\ changes' = changes + 1
  /\ UNCHANGED <<version, step, seen, garbled, topology, outcome>>

\* The stdout of a tool may also be no JSON or have no array in it, an entry
\* without a name, children that are no list or a value of a wrong type.
Capture(tool, next) ==
  /\ step = tool
  /\ seen' = Append(seen, machine)
  /\ garbled' \in {garbled, garbled \union {tool}}
  /\ step' = next
  /\ UNCHANGED <<machine, changes, version, topology, outcome>>

RunLsblk == Capture("lsblk", "blkid")
RunBlkid == Capture("blkid", "findmnt")
RunFindmnt == Capture("findmnt", "parse")

\* The tools after it are not run.
ToolFails ==
  /\ step \in {"lsblk", "blkid", "findmnt"}
  /\ step' = "done" /\ outcome' = "failed"
  /\ UNCHANGED <<machine, changes, version, seen, garbled, topology>>

\* Whatever comes out is taken
MutantParse ==
  /\ step = "parse"
  /\ topology' = Merged(ParseLsblk(seen[1]), ParseBlkid(seen[2]), ParseFindmnt(seen[3].mounts))
  /\ outcome' = "topology"
  /\ step' = "done"
  /\ UNCHANGED <<machine, changes, version, seen, garbled>>

Parse ==
  /\ step = "parse"
  /\ \E devices \in {ParseLsblk(seen[1])}, mounts \in {ParseFindmnt(seen[3].mounts)} :
       IF IsAcceptable(devices, mounts)
       THEN /\ topology' = Merged(devices, ParseBlkid(seen[2]), mounts)
            /\ outcome' = "topology"
       ELSE outcome' = "unparsed" /\ UNCHANGED topology
  /\ step' = "done"
  /\ UNCHANGED <<machine, changes, version, seen, garbled>>

StorageNext ==
  Change \/ RunLsblk \/ RunBlkid \/ RunFindmnt \/ ToolFails \/ Parse

StorageSpec == StorageInit /\ [][StorageNext]_storageVars

-----------------------------------------------------------------------------
(* Properties *)

StorageTypeOK ==
  /\ machine \in Machines /\ version \in Versions /\ changes \in 0 .. MaxChanges
  /\ step \in {"lsblk", "blkid", "findmnt", "parse", "done", "rest"}
  /\ seen \in BoundedSeq(Machines, 3)
  /\ garbled \subseteq {"lsblk", "blkid", "findmnt"}
  /\ outcome \in {"pending", "topology", "unparsed", "failed"}
  /\ outcome # "topology" => topology = NoTopology
  /\ \A i \in DOMAIN topology.devices : GoodDevice(topology.devices[i])

Partitions == UNION {ToSet(topology.devices[i].partitions) : i \in DOMAIN topology.devices}

Mounted(m, path) == {m.mounts[a].target : a \in {b \in DOMAIN m.mounts : m.mounts[b].device = path}}

\* Where lsblk says that a device is in use
InUse(m, path) == IF path \in m.swaps THEN {Swap} ELSE Mounted(m, path)

\* "Observed facts only" (models.py:12, storage/parser.py:41): whatever happens
\* between the tools, each thing said of a partition was true of it when the
\* tool that says it ran; where the file system is mounted is never said of a
\* place where it was not, but of a swap space it is "[SWAP]".
EveryFactWasTrue ==
  \A p \in Partitions :
    LET Named(i) == {d \in Devices(seen[i]) : d.name = p.name}
        Blkids   == {d \in Named(2) : d.node = "dev"}
    IN /\ Named(1) # {}
       /\ p.partuuid # None => \E d \in Blkids : d.partuuid = p.partuuid
       /\ p.filesystem # None => \E d \in Blkids : d.fs = p.filesystem.fs
       /\ p.mount # None =>
            \/ p.mount \in Mounted(seen[3], DevPath(p.name))
            \/ \E d \in Named(1) : p.mount \in InUse(seen[1], Path(d))

\* storage/adapter.py:167: as long as nothing changes between the tools, what is
\* merged from them is the machine: every disk and what is right below it in
\* order, its file system, mounted or swapped to if and only if it is.  Two things
\* are missing although parser.py:139 on promises "every device/partition lsblk
\* reported, annotated with" the facts of blkid: a device of the device mapper has
\* no partuuid and no file system, for blkid calls it by another path than the
\* parser (194, 214), and what stands on a partition is in no list of partitions.
QuietReadIsTrue ==
  outcome = "topology" /\ seen[1] = seen[2] /\ seen[2] = seen[3] =>
    LET m == seen[1]
    IN /\ Len(topology.devices) = Len(m.disks) /\ Len(topology.mounts) = Cardinality(DOMAIN m.mounts)
       /\ \A i \in DOMAIN m.disks :
            LET parts == topology.devices[i].partitions
            IN /\ Len(parts) = Len(m.disks[i].children)
               /\ \A j \in DOMAIN parts :
                    LET child == m.disks[i].children[j]
                        found == child.node = "dev"
                    IN /\ parts[j].name = child.name
                       /\ parts[j].partuuid = IF found THEN child.partuuid ELSE None
                       /\ (parts[j].filesystem = None) = ~(found /\ child.fs # None)
                       /\ (parts[j].mount = None) = (InUse(m, Path(child)) = {})

\* _annotate_partition_with_mount: what a partition and its file system say of
\* where they are mounted is one mount of the list, and a mount point that is
\* not on the list comes from lsblk, before somebody unmounted it, or is no mount
\* point but lsblk's "[SWAP]".
MountsAgree ==
  \A p \in Partitions :
    /\ p.filesystem # None /\ p.filesystem.mount # None =>
         /\ p.filesystem.mount = p.mount
         /\ \E i \in DOMAIN topology.mounts :
              /\ topology.mounts[i].source = DevPath(p.name)
              /\ topology.mounts[i].target = p.mount
              /\ topology.mounts[i].options = p.filesystem.options
    /\ p.mount \notin {None, Swap} /\ seen[1].mounts = seen[3].mounts =>
         \E i \in DOMAIN topology.mounts : topology.mounts[i].target = p.mount

\* storage/parser.py:211: the whole read is lost to an output that is not what the
\* tool prints by rights, to a lsblk that prints its booleans as texts, to a name
\* or a type that is missing, to a name that is there twice, to a mount without a
\* source, a type or options, and to numbers that clash - which no disk has whose
\* partitions all give one, or none.
LostOnlyForCause ==
  LET Numbers(disk) == [i \in DOMAIN disk.children |-> disk.children[i].partn]
      Sound(disk) ==
        /\ None \notin {disk.name, disk.type} \union {c.name : c \in ToSet(disk.children)}
        /\ \/ ToSet(Numbers(disk)) \subseteq {None}
           \/ None \notin ToSet(Numbers(disk)) /\ IsInjective(Numbers(disk))
      names == [i \in DOMAIN seen[1].disks |-> seen[1].disks[i].name]
  IN outcome = "unparsed" =>
       \/ garbled # {}
       \/ version = "2.31"
       \/ ~IsInjective(names)
       \/ \E i \in DOMAIN seen[1].disks : ~Sound(seen[1].disks[i])
       \/ \E a \in DOMAIN seen[3].mounts :
            None \in {seen[3].mounts[a].device, seen[3].mounts[a].fstype, seen[3].mounts[a].options}

\* _parse_findmnt: a mount is on the list after the one it is in, so that a
\* reader who goes from front to back knows every parent.
ParentsFirst ==
  \A i \in DOMAIN topology.mounts :
    topology.mounts[i].parent # None =>
      \E j \in 1 .. i - 1 : topology.mounts[j].target = topology.mounts[i].parent
=============================================================================
