--------------------------- MODULE MCHostDiscovery ---------------------------
(* Instances of HostDiscovery small enough for TLC. *)
EXTENDS HostDiscovery

AllTools == {"efibootmgr", "lsblk", "blkid", "findmnt", "mokutil", "df", "ip"}

\* The adapters' defaults, in seconds.
Defaults ==
  [t \in AllTools |-> CASE t = "efibootmgr"         -> 30
                        [] t \in {"mokutil", "ip"} -> 5
                        [] OTHER                   -> 10]

\* Every mood on a tool where it makes a difference.
Troubles(t) ==
  CASE t = "efibootmgr" -> {"stuck"}
    [] t = "lsblk"      -> {"broken", "odd"}
    [] t = "blkid"      -> {"fails", "hangs"}
    [] t = "findmnt"    -> {"garbled", "slow"}
    [] t = "mokutil"    -> {"nothing"}
    [] t = "df"         -> {"refused", "partial"}
    [] t = "ip"         -> {"slow"}

Well == [t \in AllTools |-> "works"]

\* A PC with UEFI and one tool in any trouble, or with two tools missing or
\* hanging; a BIOS machine, whose firmware tools have nothing to say.
OneTrouble == {Well} \union
  UNION {{[Well EXCEPT ![t] = m] : m \in Troubles(t)} : t \in AllTools}

TwoTroubles == {[Well EXCEPT !["lsblk"] = "missing", !["ip"] = "hangs"],
                [Well EXCEPT !["df"] = "nothing", !["mokutil"] = "garbled"]}

OldFirmware == {[Well EXCEPT !["efibootmgr"] = "refused", !["mokutil"] = m] :
                  m \in {"refused", "missing"}}

\* Nothing on this machine ends by itself.
NothingAnswers == {[t \in AllTools |-> "hangs"]}

Sweep == OneTrouble \union TwoTroubles \union OldFirmware

Machine(uefi, secureBoot, devices, nics) ==
  [uefi |-> uefi, secureBoot |-> secureBoot, devices |-> devices, nics |-> nics]

\* Where the collectors see as much as the adapters, and where they do not.
Machines ==
  {Machine(TRUE, "enabled", {"nvme", "loop"}, {"up"}),
   Machine(TRUE, "disabled", {"sata"}, {"tun"}),
   Machine(FALSE, "unknown", {"loop"}, {"down"})}

Condition(esp, usb, tooling, root, config) ==
  [esp |-> esp, usb |-> usb, tooling |-> tooling, root |-> root, config |-> config]

Conditions ==
  {Condition(TRUE, FALSE, TRUE, TRUE, "none"),
   Condition(FALSE, TRUE, TRUE, FALSE, "override"),
   Condition(TRUE, TRUE, FALSE, FALSE, "undecodable")}

Doctor(checks, strict) == [checks |-> checks, strict |-> strict]

WaysToAsk ==
  {Doctor(<<>>, FALSE), Doctor(<<"network", "secure-boot">>, TRUE),
   Doctor(<<"typo">>, FALSE)}

NoBudget == {0}
HalfAMinute == {30}
=============================================================================
