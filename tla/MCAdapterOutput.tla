--------------------------- MODULE MCAdapterOutput ---------------------------
(* The parsers of all five adapters: instances of StorageTopology and of      *)
(* ToolOutput, one of which runs while the other one rests.                   *)
EXTENDS StorageTopology, ToolOutput

\* --------------------------------------------------------------- storage
Part(name, partn, fs, partuuid) ==
  [name |-> name, node |-> "dev", partn |-> partn, fs |-> fs, partuuid |-> partuuid, below |-> <<>>]

Mapping(name, fs) == [Part(name, None, fs, None) EXCEPT !.node = "mapper"]

Disk(name, removable, children) ==
  [name |-> name, type |-> "disk", removable |-> removable, readOnly |-> FALSE, children |-> children]

Mount(device, within, target, options) ==
  [device |-> device, within |-> within, target |-> target, fstype |-> "type", options |-> options]

Dev(name) == <<"dev", name>>

Internal == Disk("sda", FALSE, <<Part("sda1", None, "esp", "u1"), Part("sda2", None, "root", "u2")>>)

\* An EFI partition, and a btrfs whose subvolumes are / and /home
System ==
  <<1>> :> Mount(Dev("sda2"), TRUE, "/", "rw") @@ <<1, 1>> :> Mount(Dev("sda1"), FALSE, "/boot/efi", "rw") @@
  <<1, 2>> :> Mount(<<"tmpfs">>, FALSE, "/run", "rw") @@ <<1, 3>> :> Mount(Dev("sda2"), TRUE, "/home", "rw")

\* A stick, mounted twice; another one in its place; one without partitions
Stick == Disk("sdb", TRUE, <<Part("sdb1", None, "backup", "u3")>>)
OtherStick == Disk("sdb", TRUE, <<Part("sdb1", None, None, "u4"), Part("sdb2", None, "data", "u5")>>)
WholeStick == Disk("sdb", TRUE, <<>>)

StickTwice ==
  <<1, 2, 1>> :> Mount(Dev("sdb1"), FALSE, "/run/media", "rw") @@
  <<1, 4>> :> Mount(Dev("sdb1"), FALSE, "/mnt", "ro") @@ System

\* A partition that gives its number, and a multipath map, which gives none
Numbered ==
  Disk("sda", FALSE, <<Part("sda2", 2, "root", "u2"), Mapping("mpatha", "data")>>)

\* A LUKS volume on a partition, opened, and a swap partition
Encrypted ==
  Disk("sda", FALSE, <<[Part("sda1", None, "luks", "u1") EXCEPT !.below = <<Mapping("home", "data")>>],
                       Part("sda2", None, "swap", "u2")>>)

\* Two LVM volumes on a disk without partitions
Volumes == Disk("sdb", FALSE, <<Mapping("vg-srv", "data"), Mapping("vg-swap", "swap")>>)

Drive == [Disk("sr0", TRUE, <<>>) EXCEPT !.type = None]

Machine(disks, mounts, swaps) == [disks |-> disks, mounts |-> mounts, swaps |-> swaps]

Root(device) == <<1>> :> Mount(device, FALSE, "/", "rw")

SomeMachines ==
  {Machine(<<>>, Root(<<"overlay">>), {}),
   Machine(<<Internal>>, System, {}),
   Machine(<<Internal, Stick>>, System, {}),
   Machine(<<Internal, Stick>>, StickTwice, {}),
   Machine(<<Internal, OtherStick>>, System, {}),
   Machine(<<Internal, OtherStick>>, <<1, 4>> :> Mount(Dev("sdb2"), FALSE, "/mnt", "ro") @@ System, {}),
   Machine(<<WholeStick, Internal>>, <<1, 4>> :> Mount(Dev("sdb"), FALSE, "/mnt", "ro") @@ System, {}),
   Machine(<<Numbered>>, Root(Dev("sda2")), {}),
   Machine(<<Disk("sda", FALSE, <<Part("md0", None, "data", None)>>),
             Disk("sdb", FALSE, <<Part("md0", None, "data", None)>>)>>, Root(Dev("md0")), {}),
   Machine(<<Internal, Drive>>, System, {}),
   Machine(<<Encrypted, Volumes>>,
           <<1, 1>> :> Mount(<<"mapper", "home">>, FALSE, "/home", "rw") @@
           <<1, 2>> :> Mount(<<"mapper", "vg-srv">>, FALSE, "/srv", "rw") @@ Root(<<"overlay">>),
           {Dev("sda2"), <<"mapper", "vg-swap">>}),
   Machine(<<Encrypted>>, <<1, 1>> :> Mount(None, FALSE, "/run", "rw") @@ Root(<<"overlay">>), {})}

\* ----------------------------------------------------------------- output
Inodes(i, bytes) ==
  <<"word", "word">> \o [n \in 1 .. 3 |-> i] \o [n \in 1 .. 3 |-> bytes] \o <<"word">>

DfLines ==
  {<<>>, <<"word", "word", "number">>, Inodes("word", "word"), Inodes("number", "number"),
   Inodes("dash", "number"), Inodes("dash", "dash"), [Inodes("number", "number") EXCEPT ![7] = "dash"]}

Line(is, value) == [is |-> is, value |-> value]

Ids == {"0000", "0001"}
EfiLines ==
  {Line("BootCurrent", v) : v \in {"0000", Absent, "junk"}} \union
  {Line("BootNext", v) : v \in {"0001", Absent, "junk"}} \union
  {Line("Timeout", v) : v \in {"digits", "junk"}} \union
  {Line("BootOrder", v) : v \in {<<>>, <<"0001", "0000">>, <<"0000", "junk">>}} \union
  {Line("entry", v) : v \in Ids} \union {Line("bare", "0001"), Line("other", Absent)}

MokLines ==
  {Line(k, v) : k \in {"SecureBoot", "SetupMode"}, v \in {"enabled", "disabled", "junk"}} \union
  {Line("other", Absent)}

Entry(name, flags, address, addresses) ==
  [name |-> name, flags |-> flags, address |-> address, addresses |-> addresses]

IpEntries ==
  {Entry("lo", {"LOOPBACK", "UP", "LOWER_UP"}, "00:00:00:00:00:00",
         <<[family |-> "inet", local |-> "127.0.0.1"]>>),
   Entry("eth0", {"UP"}, "mac", <<>>),
   Entry("eth0", {"UP", "LOWER_UP"}, "mac",
         <<[family |-> "inet", local |-> Absent], [family |-> "inet6", local |-> "fe80::1"],
           [family |-> "link", local |-> "x"]>>),
   Entry("tun0", {"UP", "LOWER_UP"}, Absent, <<>>),
   Entry("eth1", Absent, "mac", <<>>), Entry(Absent, {}, "mac", <<>>)}

AllItems == [df |-> DfLines, efibootmgr |-> EfiLines, mokutil |-> MokLines, ip |-> IpEntries]

\* ------------------------------------------------------------ composition
StorageRests ==
  /\ machine = CHOOSE m \in Machines : TRUE
  /\ version = "2.37" /\ changes = 0 /\ step = "rest" /\ seen = <<>> /\ garbled = {}
  /\ topology = NoTopology /\ outcome = "pending"

OutputRests ==
  tool = "none" /\ items = <<>> /\ number = 1 /\ result = Defaults["none"] /\ verdict = "parsed"

Init == (StorageInit /\ OutputRests) \/ (StorageRests /\ OutputInit)

Storage(action) == action /\ UNCHANGED outputVars
Output(action) == action /\ UNCHANGED storageVars

\* StorageNext or OutputNext
Next ==
  \/ Storage(Change)
  \/ Storage(RunLsblk)
  \/ Storage(RunBlkid)
  \/ Storage(RunFindmnt)
  \/ Storage(ToolFails)
  \/ Storage(Parse)
  \/ Output(DfSkips)
  \/ Output(DfTakes)
  \/ Output(DfRefuses)
  \/ Output(TakeCurrent)
  \/ Output(TakeTimeout)
  \/ Output(TakeOrder)
  \/ Output(TakeNext)
  \/ Output(TakeEntry)
  \/ Output(EfiSkips)
  \/ Output(EfiRefuses)
  \/ Output(TakeState)
  \/ Output(TakeSetup)
  \/ Output(MokSkips)
  \/ Output(MokRefuses)
  \/ Output(TakeInterface)
  \/ Output(IpRefuses)
  \/ Output(Finish)

Spec == Init /\ [][Next]_<<storageVars, outputVars>>
=============================================================================
