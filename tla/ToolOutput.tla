------------------------------ MODULE ToolOutput ------------------------------
(***************************************************************************)
(* The parsers of the adapters that read one tool: df, efibootmgr,         *)
(* mokutil and ip. Each goes through the output item by item (ip: through  *)
(* the array), takes what it knows, passes over what it does not, and      *)
(* gives all of it up at the first item that is malformed.                 *)
(*                                                                         *)
(* Simplifications: of a line only its kind and its value are there; a df  *)
(* line is the kinds of its tokens; labels, device paths and the raw text  *)
(* are copied and nothing else, and left out.                              *)
(***************************************************************************)
EXTENDS Integers, Sequences, SequencesExt

CONSTANTS
  Items,    \* per tool the items its output may consist of
  MaxItems, \* bound: items in one output
  BootIds,  \* the values that are four hexadecimal digits
  Absent      \* no value

Tools == {"df", "efibootmgr", "mokutil", "ip"}

\* A df line is a sequence of tokens; a boot entry has four digits, or it is not
\* recognised as one.
ASSUME ItemsAreTyped ==
  /\ DOMAIN Items = Tools
  /\ \A line \in Items["df"] : line \in Seq({"number", "dash", "word"})
  /\ \A line \in Items["efibootmgr"] : line.is = "entry" => line.value \in BootIds
ASSUME LengthIsNatural == MaxItems \in Nat
ASSUME AbsentIsNoValue == Absent \notin BootIds /\ Absent \notin BOOLEAN

VARIABLES
  tool,     \* whose output is parsed, "none" if no parser runs
  items,    \* the output
  number,   \* the item that is next
  result,   \* the model as far as it has been filled
  verdict   \* "reading", "parsed", "malformed" (ValueError)

outputVars == <<tool, items, number, result, verdict>>

-----------------------------------------------------------------------------
(* The models, with the defaults of their fields *)

Defaults ==
  [df         |-> [filesystems |-> <<>>],
   efibootmgr |-> [current |-> Absent, timeout |-> Absent, order |-> <<>>, next |-> Absent, entries |-> <<>>],
   mokutil    |-> [state |-> "unknown", setup |-> Absent],
   ip         |-> [interfaces |-> <<>>],
   none       |-> [filesystems |-> <<>>]]

OutputInit ==
  /\ tool \in Tools
  /\ items \in BoundedSeq(Items[tool], MaxItems)
  /\ number = 1
  /\ result = Defaults[tool]
  /\ verdict = "reading"

Item == items[number]

Reading(t) == tool = t /\ verdict = "reading" /\ number <= Len(items)

\* The item is good, and this is the model with it.
Take(with) ==
  /\ result' = with
  /\ number' = number + 1
  /\ UNCHANGED <<tool, items, verdict>>

PassOver == Take(result)

Refuse == verdict' = "malformed" /\ UNCHANGED <<tool, items, number, result>>

-----------------------------------------------------------------------------
(* parse_filesystem_usage: a line is its tokens - source, fstype, three     *)
(* numbers of inodes, three of bytes, target - "number", "dash" or "word".  *)

Short(line) == Len(line) < 9

\* Where a number is wanted, and there is one; inodes may be unknown.
Numeric(line) ==
  {i \in DOMAIN line \intersect 3 .. 8 : line[i] = "number" \/ (i \in 3 .. 5 /\ line[i] = "dash")}

IsBlank == Item = <<>>
IsHeader == ~Short(Item) /\ Numeric(Item) = {}

DfSkips == Reading("df") /\ (IsBlank \/ IsHeader) /\ PassOver

\* A line with one bad number is taken for a header
MutantDfTakes ==
  /\ Reading("df") /\ ~IsBlank /\ ~Short(Item) /\ Numeric(Item) # {}
  /\ IF Numeric(Item) = 3 .. 8
     THEN Take([result EXCEPT !.filesystems = Append(@, [line |-> number, inodes |-> Item[3]])])
     ELSE PassOver

DfTakes ==
  /\ Reading("df") /\ ~IsBlank /\ ~Short(Item)
  /\ Numeric(Item) = 3 .. 8
  /\ Take([result EXCEPT !.filesystems = Append(@, [line |-> number, inodes |-> Item[3]])])

DfRefuses ==
  /\ Reading("df") /\ ~IsBlank /\ ~IsHeader
  /\ Short(Item) \/ Numeric(Item) # 3 .. 8
  /\ Refuse

-----------------------------------------------------------------------------
(* parse_firmware_boot_configuration: a line is a kind and a value; an      *)
(* entry without a label ("bare") is not even recognised.                   *)

IsOptionalId(value) == value \in BootIds \union {Absent}

EfiScalar(kind) == Reading("efibootmgr") /\ Item.is = kind

TakeCurrent ==
  /\ EfiScalar("BootCurrent") /\ IsOptionalId(Item.value)
  /\ Take([result EXCEPT !.current = Item.value])

TakeTimeout ==
  /\ EfiScalar("Timeout") /\ Item.value = "digits"
  /\ Take([result EXCEPT !.timeout = "digits"])

TakeOrder ==
  /\ EfiScalar("BootOrder") /\ ToSet(Item.value) \subseteq BootIds
  /\ Take([result EXCEPT !.order = Item.value])

\* An empty value is no value
MutantTakeNext ==
  /\ EfiScalar("BootNext") /\ IsOptionalId(Item.value)
  /\ IF Item.value = Absent THEN PassOver ELSE Take([result EXCEPT !.next = Item.value])

TakeNext ==
  /\ EfiScalar("BootNext") /\ IsOptionalId(Item.value)
  /\ Take([result EXCEPT !.next = Item.value])

TakeEntry ==
  /\ EfiScalar("entry")
  /\ Take([result EXCEPT !.entries = Append(@, [line |-> number, id |-> Item.value])])

EfiSkips == Reading("efibootmgr") /\ Item.is \in {"bare", "other"} /\ PassOver

EfiRefuses ==
  /\ \/ Reading("efibootmgr") /\ Item.is \in {"BootCurrent", "BootNext"} /\ ~IsOptionalId(Item.value)
     \/ EfiScalar("Timeout") /\ Item.value # "digits"
     \/ EfiScalar("BootOrder") /\ ~(ToSet(Item.value) \subseteq BootIds)
  /\ Refuse

-----------------------------------------------------------------------------
(* parse_secure_boot_status *)

Switch == {"enabled", "disabled"}

TakeState ==
  /\ Reading("mokutil") /\ Item.is = "SecureBoot" /\ Item.value \in Switch
  /\ Take([result EXCEPT !.state = Item.value])

TakeSetup ==
  /\ Reading("mokutil") /\ Item.is = "SetupMode" /\ Item.value \in Switch
  /\ Take([result EXCEPT !.setup = (Item.value = "enabled")])

MokSkips == Reading("mokutil") /\ Item.is = "other" /\ PassOver

MokRefuses ==
  /\ Reading("mokutil") /\ Item.is # "other" /\ Item.value \notin Switch
  /\ Refuse

-----------------------------------------------------------------------------
(* parse_network_interfaces: an entry is its name, its flags (Absent if they  *)
(* are no array), its address and the addresses on it.                      *)

NetworkInterface(entry) ==
  LET addresses == SelectSeq(entry.addresses, LAMBDA a : a.family \in {"inet", "inet6"} /\ a.local # Absent)
  IN [line |-> number,
      mac |-> IF entry.address = "00:00:00:00:00:00" THEN Absent ELSE entry.address,
      addresses |-> [i \in DOMAIN addresses |-> addresses[i].local],
      up |-> {"UP", "LOWER_UP"} \subseteq entry.flags,
      loopback |-> "LOOPBACK" \in entry.flags]

TakeInterface ==
  /\ Reading("ip") /\ Item.name # Absent /\ Item.flags # Absent
  /\ Take([result EXCEPT !.interfaces = Append(@, NetworkInterface(Item))])

IpRefuses == Reading("ip") /\ (Item.name = Absent \/ Item.flags = Absent) /\ Refuse

-----------------------------------------------------------------------------
\* The model is made: two entries with one boot number are refused after all.
MutantFinish ==
  /\ verdict = "reading" /\ number > Len(items)
  /\ verdict' = "parsed"
  /\ UNCHANGED <<tool, items, number, result>>

Finish ==
  /\ verdict = "reading" /\ number > Len(items)
  /\ LET IsTwice(id) == \E i, j \in DOMAIN result.entries :
                          i # j /\ result.entries[i].id = id /\ result.entries[j].id = id
     IN verdict' = IF tool = "efibootmgr" /\ \E id \in BootIds : IsTwice(id)
                   THEN "malformed" ELSE "parsed"
  /\ UNCHANGED <<tool, items, number, result>>

OutputNext ==
  \/ DfSkips \/ DfTakes \/ DfRefuses
  \/ TakeCurrent \/ TakeTimeout \/ TakeOrder \/ TakeNext \/ TakeEntry \/ EfiSkips \/ EfiRefuses
  \/ TakeState \/ TakeSetup \/ MokSkips \/ MokRefuses
  \/ TakeInterface \/ IpRefuses
  \/ Finish

OutputSpec == OutputInit /\ [][OutputNext]_outputVars

-----------------------------------------------------------------------------
(* Properties *)

OutputTypeOK ==
  /\ tool \in Tools \union {"none"}
  /\ number \in 1 .. Len(items) + 1
  /\ DOMAIN result = DOMAIN Defaults[tool]
  /\ verdict \in {"reading", "parsed", "malformed"}
  /\ tool = "efibootmgr" /\ verdict = "parsed" =>
       IsInjective([i \in DOMAIN result.entries |-> result.entries[i].id])

\* The rows of the model, and where in the output they come from
Kept ==
  CASE tool = "df"         -> result.filesystems
    [] tool = "efibootmgr" -> result.entries
    [] tool = "ip"         -> result.interfaces
    [] OTHER               -> <<>>

Rows == [i \in DOMAIN Kept |-> Kept[i].line]

\* The items that ought to have one
IsRow(item) ==
  CASE tool = "df"         -> \E i \in 3 .. 8 : i <= Len(item) /\ item[i] = "number"
    [] tool = "efibootmgr" -> item.is = "entry"
    [] tool = "ip"         -> TRUE
    [] OTHER               -> FALSE

\* filesystem/parser.py:51, efi/parser.py:28: a row is never dropped without a
\* word. Of an output that is accepted every line is in the model, in order,
\* that has a number where df has numbers, is a labelled boot entry, or an
\* interface.
NoRowIsDropped ==
  verdict = "parsed" =>
    /\ ToSet(Rows) = {i \in DOMAIN items : IsRow(items[i])}
    /\ \A i, j \in DOMAIN Rows : i < j => Rows[i] < Rows[j]

\* The value of the last line of a kind
Latest(kind, default) ==
  LET of == {i \in DOMAIN items : items[i].is = kind}
  IN IF of = {} THEN default
     ELSE items[CHOOSE i \in of : \A j \in of : j <= i].value

\* A later line of a kind takes the place of the earlier ones, also when it is
\* empty; what no line speaks of keeps its default.
LastLineCounts ==
  verdict = "parsed" =>
    /\ tool = "efibootmgr" =>
         /\ result.current = Latest("BootCurrent", Absent)
         /\ result.order = Latest("BootOrder", <<>>)
         /\ result.next = Latest("BootNext", Absent)
    /\ tool = "mokutil" =>
         /\ result.state = Latest("SecureBoot", "unknown")
         /\ (result.setup = TRUE) = (Latest("SetupMode", "disabled") = "enabled")
=============================================================================
