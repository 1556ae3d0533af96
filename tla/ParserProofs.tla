----------------------------- MODULE ParserProofs -----------------------------
(* What holds of the adapters' parsers on every output and every machine.     *)
EXTENDS StorageTopology, ToolOutput, FiniteSetTheorems, SequenceTheorems, WellFoundedInduction, TLAPS

-----------------------------------------------------------------------------
(* df, efibootmgr, mokutil and ip: the inductive invariant *)

\* The model has exactly the fields of the tool's model.
Shape == result = [f \in DOMAIN Defaults[tool] |-> result[f]]

Progress ==
  /\ tool \in Tools /\ number \in 1 .. Len(items) + 1
  /\ \E S : items \in Seq(S)
  /\ \A i \in 1 .. Len(items) : items[i] \in Items[tool]
  /\ verdict \in {"reading", "parsed", "malformed"}
  /\ verdict = "parsed" => number = Len(items) + 1

\* The rows so far are those of the items so far, in order.
Ranked ==
  /\ \E S : Kept \in Seq(S)
  /\ {Kept[k].line : k \in 1 .. Len(Kept)} = {i \in 1 .. number - 1 : IsRow(items[i])}
  /\ \A j, k \in 1 .. Len(Kept) : j < k => Kept[j].line < Kept[k].line

\* No two boot entries of an accepted output have the same number.
Distinct ==
  tool = "efibootmgr" =>
    /\ \A k \in 1 .. Len(result.entries) : result.entries[k].id \in BootIds
    /\ verdict = "parsed" => \A j, k \in 1 .. Len(result.entries) :
                               result.entries[j].id = result.entries[k].id => j = k

\* The value of the last line of a kind so far
LatestSoFar(kind, default) ==
  LET of == {i \in 1 .. number - 1 : items[i].is = kind}
  IN IF of = {} THEN default
     ELSE items[CHOOSE i \in of : \A j \in of : j <= i].value

Latests ==
  /\ tool = "efibootmgr" =>
       /\ result.current = LatestSoFar("BootCurrent", Absent)
       /\ result.order = LatestSoFar("BootOrder", <<>>)
       /\ result.next = LatestSoFar("BootNext", Absent)
  /\ tool = "mokutil" =>
       /\ result.state = LatestSoFar("SecureBoot", "unknown")
       /\ result.setup = Absent \/ result.setup \in BOOLEAN
       /\ (result.setup = TRUE) = (LatestSoFar("SetupMode", "disabled") = "enabled")

OutputInv == Progress /\ Shape /\ Ranked /\ Distinct /\ Latests

-----------------------------------------------------------------------------
(* What one more item changes *)

\* The item that is next is one of the tool's.
LEMMA ItemIsNext ==
  ASSUME Progress, number <= Len(items)
  PROVE  /\ number \in 1 .. Len(items) /\ Item \in Items[tool] /\ number \in Nat
         /\ Len(items) \in Nat /\ Item = items[number]
BY DEF Progress, Item

\* A line of the kind takes the place of the earlier ones, any other does not.
LEMMA LatestMoves ==
  ASSUME Progress, number <= Len(items), number' = number + 1, items' = items,
         NEW kind, NEW default
  PROVE  LatestSoFar(kind, default)' =
           IF Item.is = kind THEN Item.value ELSE LatestSoFar(kind, default)
<1> DEFINE of(n) == {i \in 1 .. n - 1 : items[i].is = kind}
<1>1. number \in Nat \ {0} /\ Item = items[number] BY ItemIsNext
<1>2. CASE Item.is = kind
  <2>1. number \in of(number + 1) /\ \A j \in of(number + 1) : j <= number
    BY <1>1, <1>2
  <2>2. \A i \in of(number + 1) : (\A j \in of(number + 1) : j <= i) => i = number
    BY <1>1, <2>1
  <2>3. (CHOOSE i \in of(number + 1) : \A j \in of(number + 1) : j <= i) = number
    BY <2>1, <2>2
  <2> QED BY <1>1, <1>2, <2>1, <2>3 DEF LatestSoFar
<1>3. CASE Item.is # kind
  <2>1. of(number + 1) = of(number) BY <1>1, <1>3
  <2>2. LatestSoFar(kind, default)' =
          IF of(number + 1) = {} THEN default
          ELSE items[CHOOSE i \in of(number + 1) : \A j \in of(number + 1) : j <= i].value
    BY DEF LatestSoFar
  <2>3. LatestSoFar(kind, default) =
          IF of(number) = {} THEN default
          ELSE items[CHOOSE i \in of(number) : \A j \in of(number) : j <= i].value
    BY DEF LatestSoFar
  <2> HIDE DEF of
  <2> QED BY <1>3, <2>1, <2>2, <2>3
<1> QED BY <1>2, <1>3

\* An item that is no row is passed over.
LEMMA RowsStay ==
  ASSUME Progress, Ranked, number <= Len(items), number' = number + 1, items' = items,
         tool' = tool, Kept' = Kept, ~ IsRow(Item)
  PROVE  Ranked'
<1>1. number \in Nat \ {0} /\ Item = items[number] BY ItemIsNext
<1>2. {i \in 1 .. number : IsRow(items[i])} = {i \in 1 .. number - 1 : IsRow(items[i])}
  BY <1>1
<1>3. \A i : IsRow(items[i])' <=> IsRow(items[i]) BY DEF IsRow
<1> QED BY <1>1, <1>2, <1>3 DEF Ranked

\* An item that is a row is appended.
LEMMA RowsGrow ==
  ASSUME Progress, Ranked, number <= Len(items), number' = number + 1, items' = items,
         tool' = tool, NEW row, Kept' = Append(Kept, row), row.line = number, IsRow(Item)
  PROVE  Ranked'
<1>1. number \in Nat \ {0} /\ Item = items[number] BY ItemIsNext
<1>2. PICK S : Kept \in Seq(S) BY DEF Ranked
<1>3. Kept \in Seq(S \union {row}) BY <1>2, SeqMonotonic
<1>4. /\ Kept' \in Seq(S \union {row}) /\ Len(Kept') = Len(Kept) + 1 /\ Len(Kept) \in Nat
      /\ \A k \in 1 .. Len(Kept) : Kept'[k] = Kept[k]
      /\ Kept'[Len(Kept) + 1] = row
  BY <1>3, AppendProperties
<1>5. \A i : IsRow(items[i])' <=> IsRow(items[i]) BY DEF IsRow
<1>6. \A k \in 1 .. Len(Kept) : Kept[k].line \in 1 .. number - 1 BY DEF Ranked
<1>7. {Kept'[k].line : k \in 1 .. Len(Kept')} = {Kept[k].line : k \in 1 .. Len(Kept)} \union {number}
  BY <1>4
<1>8. {i \in 1 .. number : IsRow(items[i])} = {i \in 1 .. number - 1 : IsRow(items[i])} \union {number}
  BY <1>1
<1>9. {Kept'[k].line : k \in 1 .. Len(Kept')} = {i \in 1 .. number' - 1 : IsRow(items[i])'}
  <2>1. number' - 1 = number BY <1>1
  <2>2. {i \in 1 .. number' - 1 : IsRow(items[i])'} = {i \in 1 .. number : IsRow(items[i])}
    BY <1>5, <2>1
  <2>3. {Kept[k].line : k \in 1 .. Len(Kept)} = {i \in 1 .. number - 1 : IsRow(items[i])}
    BY DEF Ranked
  <2> QED BY <1>7, <1>8, <2>2, <2>3
<1>10. \A j, k \in 1 .. Len(Kept') : j < k => Kept'[j].line < Kept'[k].line
  <2>1. SUFFICES ASSUME NEW j \in 1 .. Len(Kept) + 1, NEW k \in 1 .. Len(Kept) + 1, j < k
                 PROVE  Kept'[j].line < Kept'[k].line
    BY <1>4
  <2>2. j \in 1 .. Len(Kept) /\ Kept'[j].line = Kept[j].line BY <1>4, <2>1
  <2>3. CASE k = Len(Kept) + 1 BY <1>1, <1>4, <1>6, <2>2, <2>3
  <2>4. CASE k \in 1 .. Len(Kept) BY <1>4, <2>1, <2>2, <2>4 DEF Ranked
  <2> QED BY <1>4, <2>3, <2>4
<1>11. (\E T : Kept \in Seq(T))' BY <1>4
<1> QED BY <1>9, <1>10, <1>11 DEF Ranked

-----------------------------------------------------------------------------
(* Every step keeps the invariant *)

LEMMA FieldsOfTheModels ==
  /\ Defaults["df"] = [filesystems |-> <<>>]
  /\ Defaults["efibootmgr"] =
       [current |-> Absent, timeout |-> Absent, order |-> <<>>, next |-> Absent, entries |-> <<>>]
  /\ Defaults["mokutil"] = [state |-> "unknown", setup |-> Absent]
  /\ Defaults["ip"] = [interfaces |-> <<>>]
BY DEF Defaults

\* The next item, whatever is made of it, is one step onwards.
LEMMA OneItemOn ==
  ASSUME Progress, verdict = "reading", number <= Len(items), NEW with, Take(with)
  PROVE  /\ Progress'
         /\ number' = number + 1 /\ items' = items /\ tool' = tool /\ result' = with
         /\ verdict' = "reading"
<1>1. /\ number' = number + 1 /\ items' = items /\ tool' = tool /\ result' = with
      /\ verdict' = "reading"
  BY DEF Take
<1>2. number' \in 1 .. Len(items) + 1 BY <1>1, ItemIsNext
<1> QED BY <1>1, <1>2 DEF Progress

LEMMA DfKeepsIt ==
  ASSUME OutputInv, DfSkips \/ DfTakes
  PROVE  OutputInv'
<1>1. tool = "df" /\ verdict = "reading" /\ number <= Len(items) BY DEF DfSkips, DfTakes, Reading
<1>2. /\ number \in 1 .. Len(items) /\ Item \in Items["df"] /\ Item = items[number]
      /\ Item \in Seq({"number", "dash", "word"})
  BY <1>1, ItemIsNext, ItemsAreTyped DEF OutputInv
<1>3. DOMAIN Item = 1 .. Len(Item) /\ Len(Item) \in Nat BY <1>2
<1>4. CASE DfSkips
  <2>1. Progress' /\ number' = number + 1 /\ items' = items /\ tool' = tool /\ result' = result
    BY <1>1, <1>4, OneItemOn DEF OutputInv, DfSkips, PassOver
  <2>2. Kept' = Kept BY <2>1 DEF Kept
  <2>3. ~ IsRow(Item)
    <3>1. CASE IsBlank BY <1>1, <3>1 DEF IsBlank, IsRow
    <3>2. CASE IsHeader BY <1>1, <1>3, <3>2 DEF IsHeader, IsRow, Numeric, Short
    <3> QED BY <1>4, <3>1, <3>2 DEF DfSkips
  <2>4. Ranked' BY <1>1, <2>1, <2>2, <2>3, RowsStay DEF OutputInv
  <2> QED BY <1>1, <2>1, <2>4 DEF OutputInv, Shape, Distinct, Latests
<1>5. CASE DfTakes
  <2> DEFINE row == [line |-> number, inodes |-> Item[3]]
  <2>1. /\ Progress' /\ number' = number + 1 /\ items' = items /\ tool' = tool
        /\ result' = [result EXCEPT !.filesystems = Append(@, row)]
    BY <1>1, <1>5, OneItemOn DEF OutputInv, DfTakes
  <2>2. result = [f \in {"filesystems"} |-> result[f]]
    BY <1>1, FieldsOfTheModels DEF OutputInv, Shape
  <2>3. Shape'
    <3>1. result' = [f \in {"filesystems"} |-> result'[f]] BY <2>1, <2>2
    <3> QED BY <1>1, <2>1, <3>1, FieldsOfTheModels DEF Shape
  <2>4. Kept' = Append(Kept, row) BY <1>1, <2>1, <2>2 DEF Kept
  <2>5. IsRow(Item)
    <3>1. 6 \in Numeric(Item) /\ ~ Short(Item) BY <1>5 DEF DfTakes
    <3>2. Item[6] = "number" /\ 6 <= Len(Item) BY <1>3, <3>1 DEF Numeric, Short
    <3> QED BY <1>1, <3>2 DEF IsRow
  <2>6. row.line = number OBVIOUS
  <2> HIDE DEF row
  <2>7. Ranked' BY <1>1, <2>1, <2>4, <2>5, <2>6, RowsGrow DEF OutputInv
  <2> QED BY <1>1, <2>1, <2>3, <2>7 DEF OutputInv, Distinct, Latests
<1> QED BY <1>4, <1>5

LEMMA IpKeepsIt ==
  ASSUME OutputInv, TakeInterface
  PROVE  OutputInv'
<1>1. tool = "ip" /\ verdict = "reading" /\ number <= Len(items) BY DEF TakeInterface, Reading
<1> DEFINE row == NetworkInterface(Item)
<1>2. /\ Progress' /\ number' = number + 1 /\ items' = items /\ tool' = tool
      /\ result' = [result EXCEPT !.interfaces = Append(@, row)]
  BY <1>1, OneItemOn DEF OutputInv, TakeInterface
<1>3. result = [f \in {"interfaces"} |-> result[f]]
  BY <1>1, FieldsOfTheModels DEF OutputInv, Shape
<1>4. Shape'
  <2>1. result' = [f \in {"interfaces"} |-> result'[f]] BY <1>2, <1>3
  <2> QED BY <1>1, <1>2, <2>1, FieldsOfTheModels DEF Shape
<1>5. Kept' = Append(Kept, row) BY <1>1, <1>2, <1>3 DEF Kept
<1>6. IsRow(Item) BY <1>1 DEF IsRow
<1>7. row.line = number BY DEF NetworkInterface
<1> HIDE DEF row
<1>8. Ranked' BY <1>1, <1>2, <1>5, <1>6, <1>7, RowsGrow DEF OutputInv
<1> QED BY <1>1, <1>2, <1>4, <1>8 DEF OutputInv, Distinct, Latests

LEMMA MokKeepsIt ==
  ASSUME OutputInv, TakeState \/ TakeSetup \/ MokSkips
  PROVE  OutputInv'
<1>1. tool = "mokutil" /\ verdict = "reading" /\ number <= Len(items)
  BY DEF TakeState, TakeSetup, MokSkips, Reading
<1>2. PICK with :
        /\ Take(with)
        /\ \/ Item.is = "other" /\ with = result
           \/ Item.is = "SecureBoot" /\ Item.value \in Switch /\ with = [result EXCEPT !.state = Item.value]
           \/ /\ Item.is = "SetupMode" /\ Item.value \in Switch
              /\ with = [result EXCEPT !.setup = (Item.value = "enabled")]
  BY DEF TakeState, TakeSetup, MokSkips, PassOver
<1>3. /\ Progress' /\ number' = number + 1 /\ items' = items /\ tool' = tool /\ result' = with
  BY <1>1, <1>2, OneItemOn DEF OutputInv
<1>4. result = [f \in {"state", "setup"} |-> result[f]]
  BY <1>1, FieldsOfTheModels DEF OutputInv, Shape
<1>5. Shape'
  <2>1. result' = [f \in {"state", "setup"} |-> result'[f]] BY <1>2, <1>3, <1>4
  <2> QED BY <1>1, <1>3, <2>1, FieldsOfTheModels DEF Shape
<1>6. Ranked'
  <2>1. Kept' = Kept BY <1>1, <1>3 DEF Kept
  <2>2. ~ IsRow(Item) BY <1>1 DEF IsRow
  <2> QED BY <1>1, <1>3, <2>1, <2>2, RowsStay DEF OutputInv
<1>7. /\ LatestSoFar("SecureBoot", "unknown")' =
           IF Item.is = "SecureBoot" THEN Item.value ELSE LatestSoFar("SecureBoot", "unknown")
      /\ LatestSoFar("SetupMode", "disabled")' =
           IF Item.is = "SetupMode" THEN Item.value ELSE LatestSoFar("SetupMode", "disabled")
  BY <1>1, <1>3, LatestMoves DEF OutputInv
<1>8. /\ result.state = LatestSoFar("SecureBoot", "unknown")
      /\ result.setup = Absent \/ result.setup \in BOOLEAN
      /\ (result.setup = TRUE) = (LatestSoFar("SetupMode", "disabled") = "enabled")
  BY <1>1 DEF OutputInv, Latests
<1>9. Latests'
  <2>1. result'.state = IF Item.is = "SecureBoot" THEN Item.value ELSE result.state
    BY <1>2, <1>3, <1>4
  <2>2. result'.setup = IF Item.is = "SetupMode" THEN (Item.value = "enabled") ELSE result.setup
    BY <1>2, <1>3, <1>4
  <2>3. result'.state = LatestSoFar("SecureBoot", "unknown")' BY <1>7, <1>8, <2>1
  <2>4. result'.setup = Absent \/ result'.setup \in BOOLEAN BY <1>8, <2>2
  <2>5. (result'.setup = TRUE) = (LatestSoFar("SetupMode", "disabled")' = "enabled")
    BY <1>7, <1>8, <2>2
  <2> QED BY <1>1, <1>3, <2>3, <2>4, <2>5 DEF Latests
<1> QED BY <1>1, <1>3, <1>5, <1>6, <1>9 DEF OutputInv, Distinct

\* One line of efibootmgr changes one field of the model, if any.
LEMMA EfiLine ==
  ASSUME TakeCurrent \/ TakeTimeout \/ TakeOrder \/ TakeNext \/ TakeEntry \/ EfiSkips
  PROVE  \E with :
           /\ Take(with)
           /\ \/ Item.is \in {"bare", "other"} /\ with = result
              \/ Item.is = "BootCurrent" /\ with = [result EXCEPT !.current = Item.value]
              \/ Item.is = "Timeout" /\ with = [result EXCEPT !.timeout = "digits"]
              \/ Item.is = "BootOrder" /\ with = [result EXCEPT !.order = Item.value]
              \/ Item.is = "BootNext" /\ with = [result EXCEPT !.next = Item.value]
              \/ /\ Item.is = "entry"
                 /\ with = [result EXCEPT !.entries = Append(@, [line |-> number, id |-> Item.value])]
<1>1. CASE TakeCurrent BY <1>1 DEF TakeCurrent, EfiScalar
<1>2. CASE TakeTimeout BY <1>2 DEF TakeTimeout, EfiScalar
<1>3. CASE TakeOrder BY <1>3 DEF TakeOrder, EfiScalar
<1>4. CASE TakeNext BY <1>4 DEF TakeNext, EfiScalar
<1>5. CASE TakeEntry BY <1>5 DEF TakeEntry, EfiScalar
<1>6. CASE EfiSkips BY <1>6 DEF EfiSkips, PassOver
<1> QED BY <1>1, <1>2, <1>3, <1>4, <1>5, <1>6

LEMMA EfiKeepsIt ==
  ASSUME OutputInv, TakeCurrent \/ TakeTimeout \/ TakeOrder \/ TakeNext \/ TakeEntry \/ EfiSkips
  PROVE  OutputInv'
<1>1. tool = "efibootmgr" /\ verdict = "reading" /\ number <= Len(items)
  BY DEF TakeCurrent, TakeTimeout, TakeOrder, TakeNext, TakeEntry, EfiSkips, EfiScalar, Reading
<1> DEFINE row == [line |-> number, id |-> Item.value]
           entries == IF Item.is = "entry" THEN Append(result.entries, row) ELSE result.entries
<1>2. PICK with :
        /\ Take(with)
        /\ \/ Item.is \in {"bare", "other"} /\ with = result
           \/ Item.is = "BootCurrent" /\ with = [result EXCEPT !.current = Item.value]
           \/ Item.is = "Timeout" /\ with = [result EXCEPT !.timeout = "digits"]
           \/ Item.is = "BootOrder" /\ with = [result EXCEPT !.order = Item.value]
           \/ Item.is = "BootNext" /\ with = [result EXCEPT !.next = Item.value]
           \/ Item.is = "entry" /\ with = [result EXCEPT !.entries = Append(@, row)]
  BY EfiLine
<1>3. /\ Progress' /\ number' = number + 1 /\ items' = items /\ tool' = tool /\ result' = with
      /\ verdict' = "reading"
  BY <1>1, <1>2, OneItemOn DEF OutputInv
<1>4. result = [f \in {"current", "timeout", "order", "next", "entries"} |-> result[f]]
  <2>1. DOMAIN Defaults[tool] = {"current", "timeout", "order", "next", "entries"}
    BY <1>1, FieldsOfTheModels
  <2> QED BY <2>1 DEF OutputInv, Shape
<1>5. /\ result' = [f \in {"current", "timeout", "order", "next", "entries"} |-> result'[f]]
      /\ result'.current = IF Item.is = "BootCurrent" THEN Item.value ELSE result.current
      /\ result'.order = IF Item.is = "BootOrder" THEN Item.value ELSE result.order
      /\ result'.next = IF Item.is = "BootNext" THEN Item.value ELSE result.next
      /\ result'.entries = entries
  <2> HIDE DEF row
  <2>1. CASE Item.is \in {"bare", "other"} /\ with = result BY <1>3, <1>4, <2>1
  <2>2. CASE Item.is = "BootCurrent" /\ with = [result EXCEPT !.current = Item.value]
    BY <1>3, <1>4, <2>2
  <2>3. CASE Item.is = "Timeout" /\ with = [result EXCEPT !.timeout = "digits"]
    BY <1>3, <1>4, <2>3
  <2>4. CASE Item.is = "BootOrder" /\ with = [result EXCEPT !.order = Item.value]
    BY <1>3, <1>4, <2>4
  <2>5. CASE Item.is = "BootNext" /\ with = [result EXCEPT !.next = Item.value]
    BY <1>3, <1>4, <2>5
  <2>6. CASE Item.is = "entry" /\ with = [result EXCEPT !.entries = Append(@, row)]
    BY <1>3, <1>4, <2>6
  <2> QED BY <1>2, <2>1, <2>2, <2>3, <2>4, <2>5, <2>6
<1>6. Shape'
  <2>1. DOMAIN Defaults[tool] = {"current", "timeout", "order", "next", "entries"}
    BY <1>1, FieldsOfTheModels
  <2> QED BY <1>3, <1>5, <2>1 DEF Shape
<1>7. Kept = result.entries /\ Kept' = entries BY <1>1, <1>3, <1>5 DEF Kept
<1>8. IsRow(Item) <=> Item.is = "entry" BY <1>1 DEF IsRow
<1>9. row.line = number /\ row.id = Item.value OBVIOUS
<1>10. Item.is = "entry" => Item.value \in BootIds
  BY <1>1, ItemIsNext, ItemsAreTyped DEF OutputInv
<1>11. Ranked'
  <2>1. CASE Item.is = "entry"
    <3> HIDE DEF row
    <3>1. Kept' = Append(Kept, row) BY <1>7, <2>1
    <3> QED BY <1>1, <1>3, <1>8, <1>9, <2>1, <3>1, RowsGrow DEF OutputInv
  <2>2. CASE Item.is # "entry"
    <3>1. Kept' = Kept BY <1>7, <2>2
    <3> QED BY <1>1, <1>3, <1>8, <2>2, <3>1, RowsStay DEF OutputInv
  <2> QED BY <2>1, <2>2
<1>12. Distinct'
  <2>1. \A k \in 1 .. Len(result.entries) : result.entries[k].id \in BootIds
    BY <1>1 DEF OutputInv, Distinct
  <2>2. \A k \in 1 .. Len(entries) : entries[k].id \in BootIds
    <3> HIDE DEF row
    <3>1. PICK S : result.entries \in Seq(S) BY <1>7 DEF OutputInv, Ranked
    <3>2. result.entries \in Seq(S \union {row}) BY <3>1, SeqMonotonic
    <3>3. /\ Len(Append(result.entries, row)) = Len(result.entries) + 1 /\ Len(result.entries) \in Nat
          /\ \A k \in 1 .. Len(result.entries) : Append(result.entries, row)[k] = result.entries[k]
          /\ Append(result.entries, row)[Len(result.entries) + 1] = row
      BY <3>2, AppendProperties
    <3> QED BY <1>9, <1>10, <2>1, <3>3
  <2> QED BY <1>3, <1>5, <2>2 DEF Distinct
<1>13. Latests'
  <2>1. /\ LatestSoFar("BootCurrent", Absent)' =
             IF Item.is = "BootCurrent" THEN Item.value ELSE LatestSoFar("BootCurrent", Absent)
        /\ LatestSoFar("BootOrder", <<>>)' =
             IF Item.is = "BootOrder" THEN Item.value ELSE LatestSoFar("BootOrder", <<>>)
        /\ LatestSoFar("BootNext", Absent)' =
             IF Item.is = "BootNext" THEN Item.value ELSE LatestSoFar("BootNext", Absent)
    BY <1>1, <1>3, LatestMoves DEF OutputInv
  <2>2. /\ result.current = LatestSoFar("BootCurrent", Absent)
        /\ result.order = LatestSoFar("BootOrder", <<>>)
        /\ result.next = LatestSoFar("BootNext", Absent)
    BY <1>1 DEF OutputInv, Latests
  <2>3. /\ result'.current = LatestSoFar("BootCurrent", Absent)'
        /\ result'.order = LatestSoFar("BootOrder", <<>>)'
        /\ result'.next = LatestSoFar("BootNext", Absent)'
    BY <1>5, <2>1, <2>2
  <2> QED BY <1>1, <1>3, <2>3 DEF Latests
<1> QED BY <1>3, <1>6, <1>11, <1>12, <1>13 DEF OutputInv

LEMMA RefusalKeepsIt ==
  ASSUME OutputInv, Refuse
  PROVE  OutputInv'
<1>1. tool' = tool /\ items' = items /\ number' = number /\ result' = result /\ verdict' = "malformed"
  BY DEF Refuse
<1>2. Kept' = Kept /\ (\A i : IsRow(items[i])' <=> IsRow(items[i]))
      /\ (\A kind, default : LatestSoFar(kind, default)' = LatestSoFar(kind, default))
  BY <1>1 DEF Kept, IsRow, LatestSoFar
<1>3. Progress' /\ Shape' BY <1>1 DEF OutputInv, Progress, Shape
<1>4. Ranked' BY <1>1, <1>2 DEF OutputInv, Ranked
<1>5. Distinct' BY <1>1 DEF OutputInv, Distinct
<1>6. Latests' BY <1>1, <1>2 DEF OutputInv, Latests
<1> QED BY <1>3, <1>4, <1>5, <1>6 DEF OutputInv

LEMMA FinishKeepsIt ==
  ASSUME OutputInv, Finish
  PROVE  OutputInv'
<1>1. /\ tool' = tool /\ items' = items /\ number' = number /\ result' = result
      /\ verdict' \in {"parsed", "malformed"} /\ number > Len(items)
  BY DEF Finish
<1>2. Kept' = Kept /\ (\A i : IsRow(items[i])' <=> IsRow(items[i]))
      /\ (\A kind, default : LatestSoFar(kind, default)' = LatestSoFar(kind, default))
  BY <1>1 DEF Kept, IsRow, LatestSoFar
<1>3. Progress'
  <2>1. number = Len(items) + 1 BY <1>1 DEF OutputInv, Progress
  <2> QED BY <1>1, <2>1 DEF OutputInv, Progress
<1>4. Shape' BY <1>1 DEF OutputInv, Shape
<1>5. Ranked' BY <1>1, <1>2 DEF OutputInv, Ranked
<1>6. Latests' BY <1>1, <1>2 DEF OutputInv, Latests
<1>7. Distinct'
  <2>1. SUFFICES ASSUME tool = "efibootmgr"
                 PROVE  Distinct'
    BY <1>1 DEF Distinct
  <2>2. /\ \A k \in 1 .. Len(result.entries) : result.entries[k].id \in BootIds
        /\ DOMAIN result.entries = 1 .. Len(result.entries)
    BY <2>1 DEF OutputInv, Distinct, Ranked, Kept
  <2>3. ASSUME verdict' = "parsed",
               NEW j \in 1 .. Len(result.entries), NEW k \in 1 .. Len(result.entries),
               result.entries[j].id = result.entries[k].id
        PROVE  j = k
    BY <2>1, <2>2, <2>3 DEF Finish
  <2> QED BY <1>1, <2>2, <2>3 DEF Distinct
<1> QED BY <1>3, <1>4, <1>5, <1>6, <1>7 DEF OutputInv

LEMMA OutputStarts ==
  ASSUME OutputInit
  PROVE  OutputInv
<1>1. tool \in Tools /\ number = 1 /\ result = Defaults[tool] /\ verdict = "reading"
  BY DEF OutputInit
<1>2. items \in Seq(Items[tool])
  <2>1. PICK m \in 0 .. MaxItems : items \in [1 .. m -> Items[tool]]
    BY DEF OutputInit, BoundedSeq, SeqOf
  <2>2. m \in Nat BY LengthIsNatural
  <2>3. [1 .. m -> Items[tool]] \in {[1 .. n -> Items[tool]] : n \in Nat} BY <2>2
  <2> QED BY <2>1, <2>3, SeqDef
<1>3. Progress
  <2>1. number \in 1 .. Len(items) + 1 BY <1>1, <1>2
  <2>2. \A i \in 1 .. Len(items) : items[i] \in Items[tool] BY <1>2, ElementOfSeq
  <2> QED BY <1>1, <1>2, <2>1, <2>2 DEF Progress
<1>4. Shape
  <2>1. CASE tool = "df" BY <1>1, <2>1, FieldsOfTheModels DEF Shape
  <2>2. CASE tool = "efibootmgr" BY <1>1, <2>2, FieldsOfTheModels DEF Shape
  <2>3. CASE tool = "mokutil" BY <1>1, <2>3, FieldsOfTheModels DEF Shape
  <2>4. CASE tool = "ip" BY <1>1, <2>4, FieldsOfTheModels DEF Shape
  <2> QED BY <1>1, <2>1, <2>2, <2>3, <2>4 DEF Tools
<1>5. Kept = <<>>
  <2>1. CASE tool = "df" BY <1>1, <2>1, FieldsOfTheModels DEF Kept
  <2>2. CASE tool = "efibootmgr" BY <1>1, <2>2, FieldsOfTheModels DEF Kept
  <2>3. CASE tool = "mokutil" BY <1>1, <2>3, FieldsOfTheModels DEF Kept
  <2>4. CASE tool = "ip" BY <1>1, <2>4, FieldsOfTheModels DEF Kept
  <2> QED BY <1>1, <2>1, <2>2, <2>3, <2>4 DEF Tools
<1>6. Ranked
  <2>1. Len(Kept) = 0 /\ Kept \in Seq({}) BY <1>5
  <2>2. number - 1 = 0 BY <1>1
  <2> QED BY <2>1, <2>2 DEF Ranked
<1>7. Distinct
  <2>1. tool = "efibootmgr" => Len(result.entries) = 0 BY <1>1, FieldsOfTheModels
  <2> QED BY <1>1, <2>1 DEF Distinct
<1>8. Latests
  <2>1. \A kind, default : LatestSoFar(kind, default) = default
    <3>1. number - 1 = 0 BY <1>1
    <3> QED BY <3>1 DEF LatestSoFar
  <2>2. CASE tool = "efibootmgr" BY <1>1, <2>1, <2>2, FieldsOfTheModels DEF Latests
  <2>3. CASE tool = "mokutil"
    <3>1. result.state = "unknown" /\ result.setup = Absent BY <1>1, <2>3, FieldsOfTheModels
    <3>2. (Absent = TRUE) = ("disabled" = "enabled") BY AbsentIsNoValue
    <3>3. (result.setup = TRUE) = (LatestSoFar("SetupMode", "disabled") = "enabled")
      BY <2>1, <3>1, <3>2
    <3> QED BY <2>1, <2>3, <3>1, <3>3 DEF Latests
  <2> QED BY <2>2, <2>3 DEF Latests
<1> QED BY <1>3, <1>4, <1>6, <1>7, <1>8 DEF OutputInv

LEMMA OutputInvHolds == OutputSpec => []OutputInv
<1>1. OutputInit => OutputInv BY OutputStarts
<1>2. ASSUME OutputInv, [OutputNext]_outputVars
      PROVE  OutputInv'
  <2>1. CASE DfSkips \/ DfTakes BY <1>2, <2>1, DfKeepsIt
  <2>2. CASE DfRefuses BY <1>2, <2>2, RefusalKeepsIt DEF DfRefuses
  <2>3. CASE TakeCurrent \/ TakeTimeout \/ TakeOrder \/ TakeNext \/ TakeEntry \/ EfiSkips
    BY <1>2, <2>3, EfiKeepsIt
  <2>4. CASE EfiRefuses BY <1>2, <2>4, RefusalKeepsIt DEF EfiRefuses
  <2>5. CASE TakeState \/ TakeSetup \/ MokSkips BY <1>2, <2>5, MokKeepsIt
  <2>6. CASE MokRefuses BY <1>2, <2>6, RefusalKeepsIt DEF MokRefuses
  <2>7. CASE TakeInterface BY <1>2, <2>7, IpKeepsIt
  <2>8. CASE IpRefuses BY <1>2, <2>8, RefusalKeepsIt DEF IpRefuses
  <2>9. CASE Finish BY <1>2, <2>9, FinishKeepsIt
  <2>10. CASE UNCHANGED outputVars
    <3>1. UNCHANGED <<tool, items, number, result, verdict>> BY <2>10 DEF outputVars
    <3>2. Kept' = Kept /\ (\A i : IsRow(items[i])' <=> IsRow(items[i]))
          /\ (\A kind, default : LatestSoFar(kind, default)' = LatestSoFar(kind, default))
      BY <3>1 DEF Kept, IsRow, LatestSoFar
    <3>3. Progress' /\ Shape' /\ Distinct'
      BY <1>2, <3>1 DEF OutputInv, Progress, Shape, Distinct
    <3>4. Ranked' BY <1>2, <3>1, <3>2 DEF OutputInv, Ranked
    <3>5. Latests' BY <1>2, <3>1, <3>2 DEF OutputInv, Latests
    <3> QED BY <3>3, <3>4, <3>5 DEF OutputInv
  <2> QED BY <1>2, <2>1, <2>2, <2>3, <2>4, <2>5, <2>6, <2>7, <2>8, <2>9, <2>10 DEF OutputNext
<1> QED BY <1>1, <1>2, PTL DEF OutputSpec

-----------------------------------------------------------------------------
\* OutputTypeOK: the model has the fields of its tool at every moment, and in one
\* that is handed out no two boot entries share a number - the last line of the
\* parser, "duplicate boot entry", is reached with every other one behind it.
THEOREM ParsedModelsAreWellFormed == OutputSpec => []OutputTypeOK
<1>1. OutputInv => OutputTypeOK
  <2> SUFFICES ASSUME OutputInv
               PROVE  OutputTypeOK
    OBVIOUS
  <2>1. DOMAIN result = DOMAIN Defaults[tool] BY DEF OutputInv, Shape
  <2>2. ASSUME tool = "efibootmgr", verdict = "parsed"
        PROVE  IsInjective([i \in DOMAIN result.entries |-> result.entries[i].id])
    <3>1. DOMAIN result.entries = 1 .. Len(result.entries)
      BY <2>2 DEF OutputInv, Ranked, Kept
    <3> QED BY <2>2, <3>1 DEF OutputInv, Distinct, IsInjective
  <2> QED BY <2>1, <2>2 DEF OutputTypeOK, OutputInv, Progress
<1> QED BY <1>1, OutputInvHolds, PTL

\* NoRowIsDropped: of any output, however long, that is accepted every line that
\* ought to have a row has one, in the order of the lines, and nothing else has.
THEOREM EveryRowIsKept == OutputSpec => []NoRowIsDropped
<1>1. OutputInv => NoRowIsDropped
  <2> SUFFICES ASSUME OutputInv, verdict = "parsed"
               PROVE  /\ ToSet(Rows) = {i \in DOMAIN items : IsRow(items[i])}
                      /\ \A i, j \in DOMAIN Rows : i < j => Rows[i] < Rows[j]
    BY DEF NoRowIsDropped
  <2>1. number - 1 = Len(items) /\ DOMAIN items = 1 .. Len(items) BY DEF OutputInv, Progress
  <2>2. DOMAIN Kept = 1 .. Len(Kept) BY DEF OutputInv, Ranked
  <2>3. ToSet(Rows) = {Kept[k].line : k \in 1 .. Len(Kept)} BY <2>2 DEF ToSet, Rows
  <2>4. \A i, j \in DOMAIN Rows : i < j => Rows[i] < Rows[j]
    BY <2>2 DEF OutputInv, Ranked, Rows
  <2> QED BY <2>1, <2>3, <2>4 DEF OutputInv, Ranked
<1> QED BY <1>1, OutputInvHolds, PTL

\* LastLineCounts: whatever the lines of efibootmgr and mokutil and their order,
\* a later line of a kind takes the place of the earlier ones.
THEOREM TheLastLineCounts == OutputSpec => []LastLineCounts
<1>1. OutputInv => LastLineCounts
  <2> SUFFICES ASSUME OutputInv, verdict = "parsed"
               PROVE  LastLineCounts
    BY DEF LastLineCounts
  <2>1. number - 1 = Len(items) /\ DOMAIN items = 1 .. Len(items) BY DEF OutputInv, Progress
  <2>2. \A kind, default : Latest(kind, default) = LatestSoFar(kind, default)
    <3>1. SUFFICES ASSUME NEW kind, NEW default
                   PROVE  Latest(kind, default) = LatestSoFar(kind, default)
      OBVIOUS
    <3> DEFINE of == {i \in DOMAIN items : items[i].is = kind}
               before == {i \in 1 .. number - 1 : items[i].is = kind}
               Value(set) == IF set = {} THEN default
                             ELSE items[CHOOSE i \in set : \A j \in set : j <= i].value
    <3>2. of = before BY <2>1
    <3>3. Latest(kind, default) = Value(of) BY DEF Latest
    <3>4. LatestSoFar(kind, default) = Value(before) BY DEF LatestSoFar
    <3> HIDE DEF of, before, Value
    <3> QED BY <3>2, <3>3, <3>4
  <2> QED BY <2>2 DEF LastLineCounts, OutputInv, Latests
<1> QED BY <1>1, OutputInvHolds, PTL

-----------------------------------------------------------------------------
(* lsblk, blkid and findmnt: the inductive invariant *)

Heard ==
  /\ machine \in Machines /\ version \in Versions /\ changes \in 0 .. MaxChanges
  /\ step \in {"lsblk", "blkid", "findmnt", "parse", "done"}
  /\ seen \in Seq(Machines) /\ Len(seen) <= 3
  /\ step = "lsblk" => Len(seen) = 0
  /\ step = "blkid" => Len(seen) = 1
  /\ step = "findmnt" => Len(seen) = 2
  /\ step = "parse" => Len(seen) = 3
  /\ garbled \subseteq {"lsblk", "blkid", "findmnt"}

Accepted == IsAcceptable(ParseLsblk(seen[1]), ParseFindmnt(seen[3].mounts))

\* What the parser makes of the three texts, and when it makes nothing of them
Told ==
  /\ outcome \in {"pending", "topology", "unparsed", "failed"}
  /\ outcome # "topology" => topology = NoTopology
  /\ outcome # "pending" => step = "done"
  /\ outcome = "topology" =>
       /\ Len(seen) = 3 /\ Accepted
       /\ topology = Merged(ParseLsblk(seen[1]), ParseBlkid(seen[2]), ParseFindmnt(seen[3].mounts))
  /\ outcome = "unparsed" => Len(seen) = 3 /\ ~ Accepted

StorageInv == Heard /\ Told

LEMMA CaptureKeepsIt ==
  ASSUME StorageInv, NEW name, NEW next,
         \/ name = "lsblk" /\ next = "blkid"
         \/ name = "blkid" /\ next = "findmnt"
         \/ name = "findmnt" /\ next = "parse",
         Capture(name, next)
  PROVE  StorageInv'
<1>1. /\ step = name /\ step' = next /\ seen' = Append(seen, machine)
      /\ UNCHANGED <<machine, changes, version, topology, outcome>>
  BY DEF Capture
<1>2. machine \in Machines /\ seen \in Seq(Machines) BY DEF StorageInv, Heard
<1>3. seen' \in Seq(Machines) /\ Len(seen') = Len(seen) + 1 BY <1>1, <1>2, AppendProperties
<1>a. garbled' \subseteq {"lsblk", "blkid", "findmnt"} BY DEF Capture, StorageInv, Heard
<1>4. Heard' BY <1>1, <1>3, <1>a DEF StorageInv, Heard
<1>5. Len(seen) < 3 BY <1>1 DEF StorageInv, Heard
<1>6. Told' BY <1>1, <1>5 DEF StorageInv, Told, NoTopology
<1> QED BY <1>4, <1>6 DEF StorageInv

LEMMA StorageInvHolds == StorageSpec => []StorageInv
<1>1. StorageInit => StorageInv
  BY BoundIsNatural DEF StorageInit, StorageInv, Heard, Told
<1>2. ASSUME StorageInv, [StorageNext]_storageVars
      PROVE  StorageInv'
  <2>1. CASE Change
    <3>1. /\ machine' \in Machines /\ changes' = changes + 1 /\ changes < MaxChanges
          /\ UNCHANGED <<version, step, seen, garbled, topology, outcome>>
      BY <2>1 DEF Change
    <3>2. Heard' BY <1>2, <3>1, BoundIsNatural DEF StorageInv, Heard
    <3>3. Told'
      BY <1>2, <3>1 DEF StorageInv, Told, Accepted, IsAcceptable, NoTopology
    <3> QED BY <3>2, <3>3 DEF StorageInv
  <2>2. CASE RunLsblk BY <1>2, <2>2, CaptureKeepsIt DEF RunLsblk
  <2>3. CASE RunBlkid BY <1>2, <2>3, CaptureKeepsIt DEF RunBlkid
  <2>4. CASE RunFindmnt BY <1>2, <2>4, CaptureKeepsIt DEF RunFindmnt
  <2>5. CASE ToolFails
    <3>1. /\ step' = "done" /\ outcome' = "failed"
          /\ step \in {"lsblk", "blkid", "findmnt"}
          /\ UNCHANGED <<machine, changes, version, seen, garbled, topology>>
      BY <2>5 DEF ToolFails
    <3>2. Heard' BY <1>2, <3>1 DEF StorageInv, Heard
    <3>3. outcome # "topology" BY <1>2, <3>1 DEF StorageInv, Heard, Told
    <3>4. Told' BY <1>2, <3>1, <3>3 DEF StorageInv, Told, NoTopology
    <3> QED BY <3>2, <3>4 DEF StorageInv
  <2>6. CASE Parse
    <3>1. step = "parse" /\ step' = "done" /\ UNCHANGED <<machine, changes, version, seen, garbled>>
      BY <2>6 DEF Parse
    <3>2. Heard' /\ Len(seen) = 3 BY <1>2, <3>1 DEF StorageInv, Heard
    <3>3. outcome # "topology" BY <1>2, <3>1 DEF StorageInv, Heard, Told
    <3>4. \/ /\ Accepted /\ outcome' = "topology"
             /\ topology' = Merged(ParseLsblk(seen[1]), ParseBlkid(seen[2]), ParseFindmnt(seen[3].mounts))
          \/ ~ Accepted /\ outcome' = "unparsed" /\ topology' = topology
      BY <2>6 DEF Parse, Accepted
    <3>5. Accepted' <=> Accepted BY <3>1 DEF Accepted, IsAcceptable
    <3>6. Told' BY <1>2, <3>1, <3>2, <3>3, <3>4, <3>5 DEF StorageInv, Told, NoTopology
    <3> QED BY <3>2, <3>6 DEF StorageInv
  <2>7. CASE UNCHANGED storageVars
    BY <1>2, <2>7 DEF storageVars, StorageInv, Heard, Told, Accepted, IsAcceptable, NoTopology
  <2> QED BY <1>2, <2>1, <2>2, <2>3, <2>4, <2>5, <2>6, <2>7 DEF StorageNext
<1> QED BY <1>1, <1>2, PTL DEF StorageSpec

-----------------------------------------------------------------------------
(* The order of a text *)

LEMMA LeastNumber ==
  ASSUME NEW S \in SUBSET Nat, S # {}
  PROVE  \E m \in S : \A n \in S : m <= n
<1> DEFINE R == {ss \in Nat \X Nat : ss[1] < ss[2]}
<1>1. IsWellFoundedOn(R, Nat) BY NatLessThanWellFounded DEF OpToRel
<1>2. \E m \in S : \A n \in S : ~ (<<n, m>> \in R)
  <2> HIDE DEF R
  <2> QED BY <1>1, WFMin
<1>3. \A m, n \in Nat : <<n, m>> \notin R => m <= n OBVIOUS
<1> QED
  <2> HIDE DEF R
  <2> QED BY <1>2, <1>3

\* Two addresses part where they first differ, or the shorter one is a parent.
Agree(a, b, n) == \A k \in 1 .. n : a[k] = b[k]
Parents(a, b) == Len(a) < Len(b) /\ Agree(a, b, Len(a))
PartsAt(a, b, i) == i \in 1 .. Len(a) /\ i \in 1 .. Len(b) /\ a[i] < b[i] /\ Agree(a, b, i - 1)

LEMMA AgreeingStarts ==
  ASSUME NEW a \in Seq(Nat), NEW b \in Seq(Nat), NEW n \in Nat, n <= Len(a), n <= Len(b)
  PROVE  SubSeq(a, 1, n) = SubSeq(b, 1, n) <=> Agree(a, b, n)
<1> DEFINE s == SubSeq(a, 1, n)
           t == SubSeq(b, 1, n)
<1>1. (\A k \in 1 .. n : a[k] \in Nat) /\ (\A k \in 1 .. n : b[k] \in Nat)
  <2>1. \A k \in 1 .. n : k \in 1 .. Len(a) /\ k \in 1 .. Len(b)
    <3> DEFINE p == Len(a)
               q == Len(b)
    <3>1. p \in Nat /\ q \in Nat /\ n <= p /\ n <= q OBVIOUS
    <3> HIDE DEF p, q
    <3>2. \A k \in 1 .. n : k \in 1 .. p /\ k \in 1 .. q BY <3>1
    <3> QED BY <3>2 DEF p, q
  <2> QED BY <2>1, ElementOfSeq
<1>2. 1 \in Int /\ n \in Int /\ n - 1 + 1 = n /\ (IF 1 <= n THEN n - 1 + 1 ELSE 0) = n OBVIOUS
<1>3. s \in Seq(Nat) /\ Len(s) = n /\ \A k \in 1 .. n : s[k] = a[k]
  <2>1. /\ s \in Seq(Nat) /\ Len(s) = IF 1 <= n THEN n - 1 + 1 ELSE 0
        /\ \A k \in 1 .. n - 1 + 1 : s[k] = a[1 + k - 1]
    BY <1>1, <1>2, SubSeqProperties
  <2>2. \A k \in 1 .. n : 1 + k - 1 = k OBVIOUS
  <2> HIDE DEF s
  <2> QED BY <1>2, <2>1, <2>2
<1>4. t \in Seq(Nat) /\ Len(t) = n /\ \A k \in 1 .. n : t[k] = b[k]
  <2>1. /\ t \in Seq(Nat) /\ Len(t) = IF 1 <= n THEN n - 1 + 1 ELSE 0
        /\ \A k \in 1 .. n - 1 + 1 : t[k] = b[1 + k - 1]
    BY <1>1, <1>2, SubSeqProperties
  <2>2. \A k \in 1 .. n : 1 + k - 1 = k OBVIOUS
  <2> HIDE DEF t
  <2> QED BY <1>2, <2>1, <2>2
<1>5. ASSUME Agree(a, b, n)
      PROVE  s = t
  <2>1. \A k \in 1 .. n : s[k] = t[k] BY <1>3, <1>4, <1>5 DEF Agree
  <2> HIDE DEF s, t
  <2> QED BY <1>3, <1>4, <2>1, SeqEqual
<1>6. ASSUME s = t
      PROVE  Agree(a, b, n)
  <2> HIDE DEF s, t
  <2> QED BY <1>3, <1>4, <1>6 DEF Agree
<1> QED BY <1>5, <1>6

LEMMA WhatPrecedes ==
  ASSUME NEW a \in Seq(Nat), NEW b \in Seq(Nat)
  PROVE  Preceded(a, b) <=> Parents(a, b) \/ \E i \in 1 .. Len(a) : PartsAt(a, b, i)
<1> DEFINE p == Len(a)
           q == Len(b)
<1>1. p \in Nat /\ q \in Nat /\ DOMAIN a = 1 .. p /\ DOMAIN b = 1 .. q BY LenProperties
<1> HIDE DEF p, q
<1>2. IsStrictPrefix(a, b) <=> Parents(a, b)
  <2>1. ASSUME p <= q
        PROVE  SubSeq(a, 1, p) = SubSeq(b, 1, p) <=> Agree(a, b, p)
    <3>1. p \in Nat /\ p <= p BY <1>1
    <3> QED BY <2>1, <3>1, AgreeingStarts DEF p, q
  <2>2. ASSUME p = q, Agree(a, b, p)
        PROVE  a = b
    BY <2>2, SeqEqual DEF p, q, Agree
  <2>3. a = b => p = q BY DEF p, q
  <2>4. IsStrictPrefix(a, b) <=> p <= q /\ SubSeq(a, 1, p) = SubSeq(b, 1, p) /\ a # b
    BY DEF IsStrictPrefix, IsPrefix, p, q
  <2>5. Parents(a, b) <=> p < q /\ Agree(a, b, p) BY DEF Parents, p, q
  <2> QED BY <1>1, <2>1, <2>2, <2>3, <2>4, <2>5
<1>3. ASSUME NEW i \in 1 .. p, i \in 1 .. q
      PROVE  SubSeq(a, 1, i - 1) = SubSeq(b, 1, i - 1) <=> Agree(a, b, i - 1)
  <2>1. i - 1 \in Nat /\ i - 1 <= p /\ i - 1 <= q BY <1>1, <1>3
  <2> QED BY <2>1, AgreeingStarts DEF p, q
<1>4. Preceded(a, b) <=> \/ IsStrictPrefix(a, b)
                         \/ \E i \in 1 .. p : /\ i \in 1 .. q /\ a[i] < b[i]
                                              /\ SubSeq(a, 1, i - 1) = SubSeq(b, 1, i - 1)
  BY <1>1 DEF Preceded
<1>5. (\E i \in 1 .. p : PartsAt(a, b, i)) <=>
        \E i \in 1 .. p : /\ i \in 1 .. q /\ a[i] < b[i]
                          /\ SubSeq(a, 1, i - 1) = SubSeq(b, 1, i - 1)
  BY <1>3 DEF PartsAt, p, q
<1> QED BY <1>2, <1>4, <1>5 DEF p

\* It is the order of a book: strict and total.
LEMMA PrecededIsStrict ==
  ASSUME NEW a \in Seq(Nat)
  PROVE  ~ Preceded(a, a)
<1>1. Len(a) \in Nat /\ \A k \in 1 .. Len(a) : a[k] \in Nat BY ElementOfSeq
<1> QED BY <1>1, WhatPrecedes DEF Parents, PartsAt

LEMMA PrecededIsTransitive ==
  ASSUME NEW a \in Seq(Nat), NEW b \in Seq(Nat), NEW c \in Seq(Nat),
         Preceded(a, b), Preceded(b, c)
  PROVE  Preceded(a, c)
<1> DEFINE p == Len(a)
           q == Len(b)
           r == Len(c)
<1>1. /\ p \in Nat /\ q \in Nat /\ r \in Nat
      /\ \A k \in 1 .. p : a[k] \in Nat
      /\ \A k \in 1 .. q : b[k] \in Nat
      /\ \A k \in 1 .. r : c[k] \in Nat
  BY ElementOfSeq
<1>2. /\ Parents(a, b) \/ \E i \in 1 .. p : PartsAt(a, b, i)
      /\ Parents(b, c) \/ \E i \in 1 .. q : PartsAt(b, c, i)
  BY WhatPrecedes
<1>3. Parents(a, c) \/ (\E i \in 1 .. p : PartsAt(a, c, i)) => Preceded(a, c) BY WhatPrecedes
<1>4. /\ \A i : PartsAt(a, b, i) <=> i \in 1 .. p /\ i \in 1 .. q /\ a[i] < b[i] /\ Agree(a, b, i - 1)
      /\ \A i : PartsAt(b, c, i) <=> i \in 1 .. q /\ i \in 1 .. r /\ b[i] < c[i] /\ Agree(b, c, i - 1)
      /\ \A i : PartsAt(a, c, i) <=> i \in 1 .. p /\ i \in 1 .. r /\ a[i] < c[i] /\ Agree(a, c, i - 1)
      /\ Parents(a, b) <=> p < q /\ Agree(a, b, p)
      /\ Parents(b, c) <=> q < r /\ Agree(b, c, q)
      /\ Parents(a, c) <=> p < r /\ Agree(a, c, p)
  BY DEF PartsAt, Parents
<1> HIDE DEF p, q, r
<1>5. \A m, n, l \in Int : l <= m /\ l <= n /\ Agree(a, b, m) /\ Agree(b, c, n) => Agree(a, c, l)
  BY DEF Agree
<1>6. CASE Parents(a, b) /\ Parents(b, c)
  <2>1. Agree(a, c, p) /\ p < r BY <1>1, <1>4, <1>5, <1>6
  <2> QED BY <1>3, <1>4, <2>1
<1>7. CASE Parents(a, b) /\ \E i \in 1 .. q : PartsAt(b, c, i)
  <2>1. PICK i \in 1 .. q : PartsAt(b, c, i) BY <1>7
  <2>2. i \in Int /\ i >= 1 /\ i <= q /\ i <= r /\ b[i] < c[i] /\ Agree(b, c, i - 1)
        /\ p < q /\ Agree(a, b, p)
    BY <1>1, <1>4, <1>7, <2>1
  <2>3. CASE i <= p
    <3>1. Agree(a, c, i - 1) BY <1>1, <1>5, <2>2, <2>3
    <3>2. i \in 1 .. p /\ i \in 1 .. r BY <1>1, <2>2, <2>3
    <3>3. a[i] = b[i] BY <2>2, <3>2 DEF Agree
    <3> QED BY <1>3, <1>4, <2>2, <3>1, <3>2, <3>3
  <2>4. CASE ~ i <= p
    <3>1. Agree(a, c, p) /\ p < r BY <1>1, <1>5, <2>2, <2>4
    <3> QED BY <1>3, <1>4, <3>1
  <2> QED BY <2>3, <2>4
<1>8. CASE (\E i \in 1 .. p : PartsAt(a, b, i)) /\ Parents(b, c)
  <2>1. PICK i \in 1 .. p : PartsAt(a, b, i) BY <1>8
  <2>2. i \in Int /\ i >= 1 /\ i <= p /\ i <= q /\ a[i] < b[i] /\ Agree(a, b, i - 1)
        /\ q < r /\ Agree(b, c, q)
    BY <1>1, <1>4, <1>8, <2>1
  <2>3. Agree(a, c, i - 1) BY <1>1, <1>5, <2>2
  <2>4. i \in 1 .. q /\ i \in 1 .. r BY <1>1, <2>2
  <2>5. b[i] = c[i] BY <2>2, <2>4 DEF Agree
  <2> QED BY <1>3, <1>4, <2>1, <2>2, <2>3, <2>4, <2>5
<1>9. CASE (\E i \in 1 .. p : PartsAt(a, b, i)) /\ \E i \in 1 .. q : PartsAt(b, c, i)
  <2>1. PICK i \in 1 .. p : PartsAt(a, b, i) BY <1>9
  <2>2. PICK j \in 1 .. q : PartsAt(b, c, j) BY <1>9
  <2>3. /\ i \in Int /\ i >= 1 /\ i <= p /\ i <= q /\ a[i] < b[i] /\ Agree(a, b, i - 1)
        /\ j \in Int /\ j >= 1 /\ j <= q /\ j <= r /\ b[j] < c[j] /\ Agree(b, c, j - 1)
    BY <1>1, <1>4, <2>1, <2>2
  <2>4. CASE i < j
    <3>1. Agree(a, c, i - 1) BY <1>5, <2>3, <2>4
    <3>2. i \in 1 .. j - 1 /\ i \in 1 .. r BY <1>1, <2>3, <2>4
    <3>3. b[i] = c[i] BY <2>3, <3>2 DEF Agree
    <3> QED BY <1>3, <1>4, <2>1, <2>3, <3>1, <3>2, <3>3
  <2>5. CASE i = j
    <3>1. Agree(a, c, i - 1) BY <1>5, <2>3, <2>5
    <3>2. i \in 1 .. p /\ i \in 1 .. q /\ i \in 1 .. r BY <1>1, <2>3, <2>5
    <3>3. a[i] < c[i]
      <4>1. a[i] \in Nat /\ b[i] \in Nat /\ c[i] \in Nat BY <1>1, <3>2
      <4> QED BY <2>3, <2>5, <4>1
    <3> QED BY <1>3, <1>4, <3>1, <3>2, <3>3
  <2>6. CASE j < i
    <3>1. Agree(a, c, j - 1) BY <1>5, <2>3, <2>6
    <3>2. j \in 1 .. i - 1 /\ j \in 1 .. p /\ j \in 1 .. r BY <1>1, <2>3, <2>6
    <3>3. a[j] = b[j] BY <2>3, <3>2 DEF Agree
    <3> QED BY <1>3, <1>4, <2>3, <3>1, <3>2, <3>3
  <2> QED BY <2>3, <2>4, <2>5, <2>6
<1> QED BY <1>2, <1>6, <1>7, <1>8, <1>9

LEMMA PrecededIsTotal ==
  ASSUME NEW a \in Seq(Nat), NEW b \in Seq(Nat), a # b
  PROVE  Preceded(a, b) \/ Preceded(b, a)
<1> DEFINE p == Len(a)
           q == Len(b)
           D == {k \in Nat : k \in 1 .. p /\ k \in 1 .. q /\ a[k] # b[k]}
<1>1. /\ p \in Nat /\ q \in Nat
      /\ \A k \in 1 .. p : a[k] \in Nat
      /\ \A k \in 1 .. q : b[k] \in Nat
  BY ElementOfSeq
<1>2. /\ Parents(a, b) <=> p < q /\ Agree(a, b, p)
      /\ Parents(b, a) <=> q < p /\ Agree(b, a, q)
      /\ \A i : PartsAt(a, b, i) <=> i \in 1 .. p /\ i \in 1 .. q /\ a[i] < b[i] /\ Agree(a, b, i - 1)
      /\ \A i : PartsAt(b, a, i) <=> i \in 1 .. q /\ i \in 1 .. p /\ b[i] < a[i] /\ Agree(b, a, i - 1)
  BY DEF Parents, PartsAt
<1>3. /\ Parents(a, b) \/ (\E i \in 1 .. p : PartsAt(a, b, i)) => Preceded(a, b)
      /\ Parents(b, a) \/ (\E i \in 1 .. q : PartsAt(b, a, i)) => Preceded(b, a)
  BY WhatPrecedes
<1>4. p = q /\ Agree(a, b, p) => a = b BY SeqEqual DEF Agree
<1> HIDE DEF p, q
<1>5. CASE D = {}
  <2>1. \A k \in Nat : k \in 1 .. p /\ k \in 1 .. q => a[k] = b[k] BY <1>5
  <2>2. p <= q => Agree(a, b, p) BY <1>1, <2>1 DEF Agree
  <2>3. q <= p => Agree(b, a, q) BY <1>1, <2>1 DEF Agree
  <2> QED BY <1>1, <1>2, <1>3, <1>4, <2>2, <2>3
<1>6. CASE D # {}
  <2>1. PICK i \in D : \A k \in D : i <= k
    <3>1. D \in SUBSET Nat OBVIOUS
    <3> HIDE DEF D
    <3> QED BY <1>6, <3>1, LeastNumber
  <2>2. i \in Nat /\ i \in 1 .. p /\ i \in 1 .. q /\ a[i] # b[i] OBVIOUS
  <2>3. \A k \in 1 .. i - 1 : a[k] = b[k]
    <3>1. \A k \in 1 .. i - 1 : k \in Nat /\ k \in 1 .. p /\ k \in 1 .. q /\ ~ i <= k BY <1>1, <2>2
    <3> QED BY <2>1, <3>1
  <2>4. a[i] < b[i] \/ b[i] < a[i]
    <3>1. a[i] \in Nat /\ b[i] \in Nat BY <1>1, <2>2
    <3> QED BY <2>2, <3>1
  <2>5. Agree(a, b, i - 1) /\ Agree(b, a, i - 1) BY <2>3 DEF Agree
  <2> QED BY <1>2, <1>3, <2>2, <2>4, <2>5
<1> QED BY <1>5, <1>6

\* A text lists each of its addresses once, in their order.
LEMMA ListedIsTheOrder ==
  ASSUME NEW S \in SUBSET Seq(Nat), IsFiniteSet(S)
  PROVE  LET order == Listed(S)
             n == Cardinality(S)
         IN /\ n \in Nat /\ DOMAIN order = 1 .. n
            /\ \A i \in 1 .. n : order[i] \in S
            /\ \A a \in S : \E i \in 1 .. n : order[i] = a
            /\ \A i, j \in 1 .. n : Preceded(order[i], order[j]) => i < j
            /\ \A i, j \in 1 .. n : order[i] = order[j] => i = j
<1> DEFINE n == Cardinality(S)
           Before(a) == {b \in S : Preceded(b, a)}
           Rank(a) == Cardinality(Before(a))
           order == Listed(S)
           T == 0 .. n - 1
           f == [a \in S |-> Rank(a)]
<1>1. n \in Nat BY FS_CardinalityType
<1>2. \A a \in S : IsFiniteSet(Before(a)) /\ Rank(a) \in Nat
  <2> TAKE a \in S
  <2>1. IsFiniteSet(Before(a)) BY FS_Subset
  <2> QED BY <2>1, FS_CardinalityType
<1>3. ASSUME NEW a \in S
      PROVE  Rank(a) \in T
  <2>1. Before(a) \in SUBSET S /\ a \notin Before(a) BY PrecededIsStrict
  <2> HIDE DEF Before
  <2>2. Rank(a) <= n /\ (n = Rank(a) => S = Before(a)) BY <2>1, FS_Subset
  <2>3. Rank(a) # n BY <2>1, <2>2
  <2>4. Rank(a) \in Nat BY <1>2
  <2> HIDE DEF n, Rank
  <2> QED BY <1>1, <2>2, <2>3, <2>4
<1>4. ASSUME NEW a \in S, NEW b \in S, Preceded(a, b)
      PROVE  Rank(a) < Rank(b)
  <2>1. Before(a) \in SUBSET Before(b) /\ a \in Before(b) /\ a \notin Before(a)
    <3>1. a \notin Before(a) BY PrecededIsStrict
    <3>2. \A c \in S : Preceded(c, a) => Preceded(c, b) BY <1>4, PrecededIsTransitive
    <3> QED BY <1>4, <3>1, <3>2
  <2>2. IsFiniteSet(Before(b)) /\ Rank(a) \in Nat /\ Rank(b) \in Nat BY <1>2
  <2> HIDE DEF Before
  <2>3. Rank(a) <= Rank(b) /\ (Rank(b) = Rank(a) => Before(b) = Before(a)) BY <2>1, <2>2, FS_Subset
  <2>4. Rank(a) # Rank(b) BY <2>1, <2>3
  <2> HIDE DEF Rank
  <2> QED BY <2>2, <2>3, <2>4
<1>5. \A a, b \in S : Rank(a) = Rank(b) => a = b
  <2> SUFFICES ASSUME NEW a \in S, NEW b \in S, Rank(a) = Rank(b), a # b
               PROVE  FALSE
    OBVIOUS
  <2>1. Preceded(a, b) \/ Preceded(b, a) BY PrecededIsTotal
  <2>2. Rank(a) \in Nat /\ Rank(b) \in Nat BY <1>2
  <2> HIDE DEF Rank
  <2> QED BY <1>4, <2>1, <2>2
<1>6. \A t \in T : \E a \in S : Rank(a) = t
  <2>1. f \in [S -> T] /\ \A a, b \in S : f[a] = f[b] => a = b
    <3>1. \A a \in S : f[a] = Rank(a) OBVIOUS
    <3>2. f = [a \in S |-> f[a]] BY <3>1
    <3> HIDE DEF f, Rank, T
    <3> QED BY <1>3, <1>5, <3>1, <3>2
  <2>2. IsFiniteSet(T) /\ Cardinality(T) = n
    <3>1. 0 \in Int /\ n - 1 \in Int BY <1>1
    <3>2. IsFiniteSet(0 .. n - 1) /\ Cardinality(0 .. n - 1) = IF 0 > n - 1 THEN 0 ELSE (n - 1) - 0 + 1
      BY <3>1, FS_Interval
    <3>3. (IF 0 > n - 1 THEN 0 ELSE (n - 1) - 0 + 1) = n
      <4> HIDE DEF n
      <4> QED BY <1>1
    <3> QED BY <3>2, <3>3
  <2> HIDE DEF f, T, Rank
  <2>3. f \in Injection(S, T) BY <2>1 DEF Injection, IsInjective
  <2>4. f \in Surjection(S, T) BY <2>2, <2>3, FS_Injection
  <2>5. \A t \in T : \E a \in S : f[a] = t BY <2>4 DEF Surjection
  <2> QED BY <2>5 DEF f
<1>7. /\ DOMAIN order = 1 .. n
      /\ \A i \in 1 .. n : order[i] = CHOOSE a \in S : Rank(a) = i - 1
  BY DEF Listed
<1>8. \A i \in 1 .. n : order[i] \in S /\ Rank(order[i]) = i - 1
  <2> TAKE i \in 1 .. n
  <2>1. i - 1 \in T
    <3> HIDE DEF n
    <3> QED BY <1>1
  <2>2. \E a \in S : Rank(a) = i - 1 BY <1>6, <2>1
  <2>3. order[i] = CHOOSE a \in S : Rank(a) = i - 1 BY <1>7
  <2> HIDE DEF Rank, order, n
  <2> QED BY <2>2, <2>3
<1>9. ASSUME NEW a \in S
      PROVE  \E i \in 1 .. n : order[i] = a
  <2>1. Rank(a) \in T BY <1>3
  <2>2. Rank(a) + 1 \in 1 .. n /\ (Rank(a) + 1) - 1 = Rank(a)
    <3> HIDE DEF n, Rank
    <3> QED BY <1>1, <2>1
  <2>3. order[Rank(a) + 1] \in S /\ Rank(order[Rank(a) + 1]) = Rank(a)
    <3> DEFINE i == Rank(a) + 1
    <3>1. i \in 1 .. n /\ i - 1 = Rank(a) BY <2>2
    <3> HIDE DEF i, order, Rank, n
    <3>2. order[i] \in S /\ Rank(order[i]) = Rank(a) BY <1>8, <3>1
    <3> QED BY <3>2 DEF i
  <2> HIDE DEF Rank, order, n
  <2> QED BY <1>5, <2>2, <2>3
<1>10. ASSUME NEW i \in 1 .. n, NEW j \in 1 .. n
       PROVE  /\ Preceded(order[i], order[j]) => i < j
              /\ order[i] = order[j] => i = j
  <2>1. /\ order[i] \in S /\ Rank(order[i]) = i - 1
        /\ order[j] \in S /\ Rank(order[j]) = j - 1
    BY <1>8
  <2>2. Preceded(order[i], order[j]) => Rank(order[i]) < Rank(order[j])
    <3> HIDE DEF Rank, order
    <3> QED BY <1>4, <2>1
  <2>3. i \in Int /\ j \in Int BY <1>1
  <2> HIDE DEF Rank, order, n
  <2> QED BY <2>1, <2>2, <2>3
<1> HIDE DEF order, n
<1>11. LET o == order
           k == n
       IN /\ k \in Nat /\ DOMAIN o = 1 .. k
          /\ \A i \in 1 .. k : o[i] \in S
          /\ \A a \in S : \E i \in 1 .. k : o[i] = a
          /\ \A i, j \in 1 .. k : Preceded(o[i], o[j]) => i < j
          /\ \A i, j \in 1 .. k : o[i] = o[j] => i = j
  BY <1>1, <1>7, <1>8, <1>9, <1>10
<1> QED BY <1>11 DEF order, n

-----------------------------------------------------------------------------
(* What findmnt's text says *)

\* findmnt's list names every mount of the table once, in the order of the text.
LEMMA FindmntsList ==
  ASSUME NEW m \in Machines
  PROVE  LET tree == m.mounts
             order == Listed(DOMAIN tree)
             n == Cardinality(DOMAIN tree)
             list == ParseFindmnt(tree)
         IN /\ n \in Nat /\ DOMAIN list = 1 .. n
            /\ \A i \in 1 .. n :
                 /\ order[i] \in DOMAIN tree /\ list[i].source = Source(tree[order[i]])
                 /\ list[i].target = tree[order[i]].target
                 /\ list[i].fstype = tree[order[i]].fstype
                 /\ list[i].options = tree[order[i]].options
                 /\ list[i].parent = IF Len(order[i]) = 1 THEN None ELSE tree[Front(order[i])].target
            /\ \A a \in DOMAIN tree : \E i \in 1 .. n : order[i] = a
            /\ \A i, j \in 1 .. n : Preceded(order[i], order[j]) => i < j
<1> DEFINE tree == m.mounts
           order == Listed(DOMAIN tree)
           n == Cardinality(DOMAIN tree)
           list == ParseFindmnt(tree)
<1>1. IsFiniteSet(DOMAIN tree) /\ DOMAIN tree \in SUBSET Seq(Nat)
  BY MachinesAreTyped DEF MountTable
<1>2. /\ n \in Nat /\ DOMAIN order = 1 .. n
      /\ \A i \in 1 .. n : order[i] \in DOMAIN tree
      /\ \A a \in DOMAIN tree : \E i \in 1 .. n : order[i] = a
      /\ \A i, j \in 1 .. n : Preceded(order[i], order[j]) => i < j
  BY <1>1, ListedIsTheOrder
<1>3. list = [i \in DOMAIN order |->
                [source |-> Source(tree[order[i]]), target |-> tree[order[i]].target,
                 fstype |-> tree[order[i]].fstype, options |-> tree[order[i]].options,
                 parent |-> IF Len(order[i]) = 1 THEN None ELSE tree[Front(order[i])].target]]
  BY DEF ParseFindmnt
<1> HIDE DEF order, n, list, tree
<1>4. DOMAIN list = 1 .. n /\
      \A i \in 1 .. n :
        /\ list[i].source = Source(tree[order[i]])
        /\ list[i].target = tree[order[i]].target
        /\ list[i].fstype = tree[order[i]].fstype
        /\ list[i].options = tree[order[i]].options
        /\ list[i].parent = IF Len(order[i]) = 1 THEN None ELSE tree[Front(order[i])].target
  BY <1>2, <1>3
<1>5. LET t == tree
          o == order
          k == n
          l == list
      IN /\ k \in Nat /\ DOMAIN l = 1 .. k
         /\ \A i \in 1 .. k :
              /\ o[i] \in DOMAIN t /\ l[i].source = Source(t[o[i]])
              /\ l[i].target = t[o[i]].target
              /\ l[i].fstype = t[o[i]].fstype
              /\ l[i].options = t[o[i]].options
              /\ l[i].parent = IF Len(o[i]) = 1 THEN None ELSE t[Front(o[i])].target
         /\ \A a \in DOMAIN t : \E i \in 1 .. k : o[i] = a
         /\ \A i, j \in 1 .. k : Preceded(o[i], o[j]) => i < j
  BY <1>2, <1>4
<1> QED BY <1>5 DEF order, n, list, tree

-----------------------------------------------------------------------------
(* What the merge leaves as lsblk said it *)

IsPartition(p) ==
  p = [name |-> p.name, number |-> p.number, partuuid |-> p.partuuid, filesystem |-> p.filesystem,
       mount |-> p.mount]

LEMMA FactsKeepTheNumber ==
  ASSUME NEW p, NEW facts, IsPartition(p)
  PROVE  /\ IsPartition(WithFacts(p, facts))
         /\ WithFacts(p, facts).name = p.name /\ WithFacts(p, facts).number = p.number
<1> DEFINE path == DevPath(p.name)
<1>1. CASE path \notin DOMAIN facts BY <1>1 DEF WithFacts
<1>2. CASE path \in DOMAIN facts
  <2> DEFINE file == IF facts[path].fs = None THEN None
                     ELSE [fs |-> facts[path].fs, mount |-> None, options |-> None]
             id == facts[path].partuuid
  <2>1. WithFacts(p, facts) = [p EXCEPT !.partuuid = id, !.filesystem = file] BY <1>2 DEF WithFacts
  <2> HIDE DEF file, id
  <2>2. WithFacts(p, facts) =
          [name |-> p.name, number |-> p.number, partuuid |-> id, filesystem |-> file, mount |-> p.mount]
    BY <2>1 DEF IsPartition
  <2> QED BY <2>2 DEF IsPartition
<1> QED BY <1>1, <1>2

LEMMA MountsKeepTheNumber ==
  ASSUME NEW p, NEW mounts, IsPartition(p)
  PROVE  WithMount(p, mounts).name = p.name /\ WithMount(p, mounts).number = p.number
<1> DEFINE target == LastMount(mounts, p.name).target
           options == LastMount(mounts, p.name).options
           placed == [p EXCEPT !.mount = target]
<1>1. placed = [name |-> p.name, number |-> p.number, partuuid |-> p.partuuid,
                filesystem |-> p.filesystem, mount |-> target]
  <2> HIDE DEF target
  <2> QED BY DEF IsPartition
<1>2. CASE MountsOf(mounts, p.name) = {} BY <1>2 DEF WithMount
<1>3. CASE MountsOf(mounts, p.name) # {}
  <2>1. WithMount(p, mounts) =
          IF p.filesystem = None THEN placed
          ELSE [placed EXCEPT !.filesystem.mount = target, !.filesystem.options = options]
    BY <1>3 DEF WithMount
  <2> HIDE DEF placed, target, options
  <2> QED BY <1>1, <2>1
<1> QED BY <1>2, <1>3

LEMMA MergeKeepsDevicesGood ==
  ASSUME NEW m, NEW facts, NEW mounts, NEW i \in DOMAIN m.disks,
         GoodDevice(ParseLsblk(m)[i])
  PROVE  /\ DOMAIN Merged(ParseLsblk(m), facts, mounts).devices = DOMAIN m.disks
         /\ GoodDevice(Merged(ParseLsblk(m), facts, mounts).devices[i])
<1> DEFINE old == ParseLsblk(m)[i]
           new == Merged(ParseLsblk(m), facts, mounts).devices[i]
           disk == m.disks[i]
           Part(j) == ParsePartition(m, disk.children[j], j)
           at == WholeMount(old, mounts)
<1>1. DOMAIN Merged(ParseLsblk(m), facts, mounts).devices = DOMAIN m.disks
  BY DEF Merged, ParseLsblk
<1>2. /\ old = [name |-> disk.name, type |-> disk.type, removable |-> disk.removable,
                readOnly |-> disk.readOnly, mount |-> FirstPoint(Points(m, DevPath(disk.name))),
                partitions |-> [j \in DOMAIN disk.children |-> Part(j)]]
      /\ DOMAIN ParseLsblk(m) = DOMAIN m.disks
  BY DEF ParseLsblk, ParseDevice
<1> DEFINE parts == [j \in DOMAIN old.partitions |-> WithMount(WithFacts(old.partitions[j], facts), mounts)]
<1>3. new = [old EXCEPT !.mount = at, !.partitions = parts] BY <1>2 DEF Merged
<1>4. \A j \in DOMAIN old.partitions :
        /\ parts[j].name = old.partitions[j].name
        /\ parts[j].number = old.partitions[j].number
  <2>1. SUFFICES ASSUME NEW j \in DOMAIN old.partitions
                 PROVE  /\ parts[j].name = old.partitions[j].name
                        /\ parts[j].number = old.partitions[j].number
    OBVIOUS
  <2>2. old.partitions[j] = Part(j) BY <1>2
  <2>3. IsPartition(Part(j)) BY DEF ParsePartition, IsPartition
  <2>4. parts[j] = WithMount(WithFacts(Part(j), facts), mounts) BY <2>2
  <2> HIDE DEF Part, parts, old
  <2> QED BY <2>2, <2>3, <2>4, FactsKeepTheNumber, MountsKeepTheNumber
<1>5. DOMAIN parts = DOMAIN old.partitions OBVIOUS
<1>6. new.name = old.name /\ new.type = old.type /\ new.partitions = parts
  <2> HIDE DEF parts, at, new, Part
  <2> QED BY <1>2, <1>3
<1> HIDE DEF parts, new, old
<1>7. GoodDevice(old) BY DEF old
<1>8. GoodDevice(new) BY <1>4, <1>5, <1>6, <1>7 DEF GoodDevice
<1> QED BY <1>1, <1>8 DEF new

\* A row of findmnt is good if the mount has a source, a type and options.
LEMMA SoundMountsAreGood ==
  ASSUME NEW m \in Machines,
         \A a \in DOMAIN m.mounts :
           None \notin {m.mounts[a].device, m.mounts[a].fstype, m.mounts[a].options},
         NEW i \in DOMAIN ParseFindmnt(m.mounts)
  PROVE  GoodMount(ParseFindmnt(m.mounts)[i])
<1> DEFINE tree == m.mounts
           order == Listed(DOMAIN tree)
           n == Cardinality(DOMAIN tree)
           list == ParseFindmnt(tree)
<1>1. /\ DOMAIN list = 1 .. n
      /\ \A k \in 1 .. n :
           /\ order[k] \in DOMAIN tree /\ list[k].source = Source(tree[order[k]])
           /\ list[k].target = tree[order[k]].target
           /\ list[k].fstype = tree[order[k]].fstype
           /\ list[k].options = tree[order[k]].options
  BY FindmntsList
<1>2. \A a \in DOMAIN tree : /\ tree[a].target # None
                             /\ tree[a].within => Append(tree[a].device, "[/]") # None
  BY MachinesAreTyped DEF MountTable
<1>3. \A a \in DOMAIN tree : tree[a].device # None /\ tree[a].fstype # None /\ tree[a].options # None
  OBVIOUS
<1>4. \A a \in DOMAIN tree : Source(tree[a]) # None BY <1>2, <1>3 DEF Source
<1>5. i \in DOMAIN list OBVIOUS
<1> HIDE DEF list, n, order, tree
<1>6. order[i] \in DOMAIN tree BY <1>1, <1>5
<1>7. /\ list[i].source # None /\ list[i].target # None
      /\ list[i].fstype # None /\ list[i].options # None
  BY <1>1, <1>2, <1>3, <1>4, <1>5, <1>6
<1>8. GoodMount(list[i]) BY <1>7 DEF GoodMount
<1> QED BY <1>8 DEF list, tree

\* The parser refuses what the tools print only where a disk is unsound, two have
\* one name, the booleans are texts, or a mount lacks something.
LEMMA SoundDisksAreAccepted ==
  ASSUME NEW m \in Machines, NEW l \in Machines, garbled = {}, version # "2.31",
         \A a \in DOMAIN l.mounts :
           None \notin {l.mounts[a].device, l.mounts[a].fstype, l.mounts[a].options},
         IsInjective([i \in DOMAIN m.disks |-> m.disks[i].name]),
         \A i \in DOMAIN m.disks :
           LET disk == m.disks[i]
               Numbers == [j \in DOMAIN disk.children |-> disk.children[j].partn]
           IN /\ None \notin {disk.name, disk.type} \union {c.name : c \in ToSet(disk.children)}
              /\ \/ ToSet(Numbers) \subseteq {None}
                 \/ None \notin ToSet(Numbers) /\ IsInjective(Numbers)
  PROVE  IsAcceptable(ParseLsblk(m), ParseFindmnt(l.mounts))
<1> DEFINE devices == ParseLsblk(m)
<1>1. DOMAIN devices = DOMAIN m.disks /\ (\A i \in DOMAIN m.disks : devices[i] = ParseDevice(m, m.disks[i]))
  BY DEF ParseLsblk
<1> HIDE DEF devices
<1>2. \A d : /\ ParseDevice(m, d).name = d.name /\ ParseDevice(m, d).type = d.type
             /\ ParseDevice(m, d).partitions =
                  [j \in DOMAIN d.children |-> ParsePartition(m, d.children[j], j)]
  BY DEF ParseDevice
<1>3. \A c, n : /\ ParsePartition(m, c, n).name = c.name
                /\ ParsePartition(m, c, n).number = IF c.partn # None THEN c.partn ELSE n
  BY DEF ParsePartition
<1>4. \A i \in DOMAIN devices : devices[i].name = m.disks[i].name BY <1>1, <1>2
<1>5. \A i, j \in DOMAIN devices : devices[i].name = devices[j].name => i = j
  BY <1>1, <1>4 DEF IsInjective
<1>6. ASSUME NEW i \in DOMAIN m.disks
      PROVE  GoodDevice(devices[i])
  <2> DEFINE disk == m.disks[i]
             Number(j) == IF disk.children[j].partn # None THEN disk.children[j].partn ELSE j
             Numbers == [j \in DOMAIN disk.children |-> disk.children[j].partn]
             parts == devices[i].partitions
  <2>1. /\ devices[i].name = disk.name /\ devices[i].type = disk.type
        /\ parts = [j \in DOMAIN disk.children |-> ParsePartition(m, disk.children[j], j)]
    BY <1>1, <1>2
  <2>2. DOMAIN parts = DOMAIN disk.children
        /\ (\A j \in DOMAIN disk.children :
              parts[j].name = disk.children[j].name /\ parts[j].number = Number(j))
    BY <2>1, <1>3
  <2>3. \A j \in DOMAIN disk.children :
          /\ j \in Nat \ {0} /\ disk.children[j] \in ToSet(disk.children)
          /\ disk.children[j].partn = None \/ disk.children[j].partn \in Nat \ {0}
    <3>1. /\ disk.children \in Seq(ToSet(disk.children))
          /\ \A child \in ToSet(disk.children) : child.partn = None \/ child.partn \in Nat \ {0}
      BY <1>6, MachinesAreTyped
    <3>2. \A j \in DOMAIN disk.children : disk.children[j] \in ToSet(disk.children) BY DEF ToSet
    <3>3. \A j \in DOMAIN disk.children : j \in Nat \ {0} BY <3>1, LenProperties
    <3> QED BY <3>1, <3>2, <3>3
  <2>4. \A j \in DOMAIN Numbers : Numbers[j] \in ToSet(Numbers) BY DEF ToSet
  <2>5. /\ None \notin {disk.name, disk.type} \union {c.name : c \in ToSet(disk.children)}
        /\ \/ ToSet(Numbers) \subseteq {None}
           \/ None \notin ToSet(Numbers) /\ IsInjective(Numbers)
    BY <1>6
  <2>6. \A j \in DOMAIN disk.children : Number(j) >= 1 BY <2>3
  <2>7. \A j, k \in DOMAIN disk.children : Number(j) = Number(k) => j = k
    <3>1. CASE ToSet(Numbers) \subseteq {None} BY <2>4, <3>1
    <3>2. CASE None \notin ToSet(Numbers) /\ IsInjective(Numbers)
      <4>1. \A j \in DOMAIN disk.children : Numbers[j] # None /\ Number(j) = Numbers[j]
        BY <2>4, <3>2
      <4>2. \A j, k \in DOMAIN disk.children : Numbers[j] = Numbers[k] => j = k
        BY <3>2 DEF IsInjective
      <4> HIDE DEF Number, Numbers, disk
      <4> QED BY <4>1, <4>2
    <3> QED BY <2>5, <3>1, <3>2
  <2>8. /\ devices[i].name # None /\ devices[i].type # None
        /\ \A j \in DOMAIN parts : parts[j].name # None
    <3>1. None # disk.name /\ None # disk.type BY <2>5
    <3>2. \A c \in ToSet(disk.children) : None # c.name BY <2>5
    <3>3. \A j \in DOMAIN disk.children : None # disk.children[j].name BY <2>3, <3>2
    <3>4. \A j \in DOMAIN parts : parts[j].name # None
      <4> HIDE DEF parts, disk
      <4> QED BY <2>2, <3>3
    <3> QED BY <2>1, <3>1, <3>4
  <2>9. /\ \A j \in DOMAIN parts : parts[j].number >= 1
        /\ \A j, k \in DOMAIN parts : parts[j].number = parts[k].number => j = k
    BY <2>2, <2>6, <2>7
  <2> QED BY <2>8, <2>9 DEF GoodDevice
<1>7. \A i \in DOMAIN devices : GoodDevice(devices[i]) BY <1>1, <1>6
<1> DEFINE mounts == ParseFindmnt(l.mounts)
<1>8. \A i \in DOMAIN mounts : GoodMount(mounts[i]) BY SoundMountsAreGood
<1> HIDE DEF mounts
<1>9. IsAcceptable(devices, mounts) BY <1>5, <1>7, <1>8 DEF IsAcceptable
<1> QED BY <1>9 DEF devices, mounts

-----------------------------------------------------------------------------
\* StorageTypeOK: a topology is handed out if and only if the read is a success,
\* and whatever blkid and findmnt add, every disk in it has a name, a type, and
\* partitions whose numbers are positive and differ - which only lsblk's own
\* output has been checked for.
THEOREM TopologiesAreWellFormed == StorageSpec => []StorageTypeOK
<1>1. StorageInv => StorageTypeOK
  <2> SUFFICES ASSUME StorageInv
               PROVE  StorageTypeOK
    OBVIOUS
  <2>1. seen \in BoundedSeq(Machines, 3)
    <3>1. seen \in Seq(Machines) /\ Len(seen) <= 3 BY DEF StorageInv, Heard
    <3>2. Len(seen) \in 0 .. 3
      <4> DEFINE n == Len(seen)
      <4>1. n \in Nat /\ n <= 3 BY <3>1
      <4> HIDE DEF n
      <4>2. n \in 0 .. 3 BY <4>1
      <4> QED BY <4>2 DEF n
    <3>3. seen \in [1 .. Len(seen) -> Machines] BY <3>1
    <3> QED BY <3>2, <3>3 DEF BoundedSeq, SeqOf
  <2>2. \A i \in DOMAIN topology.devices : GoodDevice(topology.devices[i])
    <3>1. CASE outcome # "topology" BY <3>1 DEF StorageInv, Told, NoTopology
    <3>2. CASE outcome = "topology"
      <4> DEFINE m == seen[1]
                 facts == ParseBlkid(seen[2])
                 mounts == ParseFindmnt(seen[3].mounts)
      <4>1. IsAcceptable(ParseLsblk(m), mounts) /\ topology = Merged(ParseLsblk(m), facts, mounts)
        BY <3>2 DEF StorageInv, Told, Accepted
      <4>2. DOMAIN ParseLsblk(m) = DOMAIN m.disks BY DEF ParseLsblk
      <4>3. DOMAIN topology.devices = DOMAIN m.disks BY <4>1, <4>2 DEF Merged
      <4> HIDE DEF m, facts, mounts
      <4>4. \A i \in DOMAIN m.disks : GoodDevice(ParseLsblk(m)[i])
        BY <4>1, <4>2 DEF IsAcceptable
      <4> QED BY <4>1, <4>3, <4>4, MergeKeepsDevicesGood
    <3> QED BY <3>1, <3>2
  <2> QED BY <2>1, <2>2 DEF StorageTypeOK, StorageInv, Heard, Told
<1> QED BY <1>1, StorageInvHolds, PTL

\* LostOnlyForCause: whatever the disks, and whatever changes between the tools,
\* a read that the parser gives up has one of the causes that are listed there, in
\* the very output of the tool that it concerns: no disk or mount whose facts are
\* complete and consistent makes the parser lose the others.
THEOREM NoReadIsLostWithoutCause == StorageSpec => []LostOnlyForCause
<1>1. StorageInv => LostOnlyForCause
  <2> SUFFICES ASSUME StorageInv, outcome = "unparsed", version # "2.31", garbled = {},
                      \A a \in DOMAIN seen[3].mounts :
                        None \notin {seen[3].mounts[a].device, seen[3].mounts[a].fstype,
                                     seen[3].mounts[a].options}
               PROVE  LostOnlyForCause
    BY DEF LostOnlyForCause
  <2>1. /\ seen[1] \in Machines /\ seen[3] \in Machines
        /\ ~ IsAcceptable(ParseLsblk(seen[1]), ParseFindmnt(seen[3].mounts))
    <3>1. /\ seen \in Seq(Machines) /\ Len(seen) = 3
          /\ ~ IsAcceptable(ParseLsblk(seen[1]), ParseFindmnt(seen[3].mounts))
      BY DEF StorageInv, Heard, Told, Accepted
    <3>2. 1 \in 1 .. Len(seen) /\ 3 \in 1 .. Len(seen) BY <3>1
    <3> QED BY <3>1, <3>2, ElementOfSeq
  <2> QED BY <2>1, SoundDisksAreAccepted DEF LostOnlyForCause
<1> QED BY <1>1, StorageInvHolds, PTL


-----------------------------------------------------------------------------
(* The order of findmnt's list *)

LEMMA FrontPrecedes ==
  ASSUME NEW a \in Seq(Nat), Len(a) > 1
  PROVE  Front(a) \in Seq(Nat) /\ Preceded(Front(a), a)
<1> DEFINE p == Len(a)
           f == SubSeq(a, 1, p - 1)
<1>1. p \in Nat /\ p > 1 /\ (\A k \in 1 .. p : a[k] \in Nat) BY ElementOfSeq
<1>2. 1 \in Int /\ p - 1 \in Int /\ (\A k \in 1 .. p - 1 : a[k] \in Nat)
  <2> HIDE DEF p
  <2> QED BY <1>1
<1>3. /\ f \in Seq(Nat) /\ Len(f) = IF 1 <= p - 1 THEN (p - 1) - 1 + 1 ELSE 0
      /\ \A k \in 1 .. (p - 1) - 1 + 1 : f[k] = a[1 + k - 1]
  <2> HIDE DEF p
  <2> QED BY <1>2, SubSeqProperties
<1>4. Len(f) = p - 1 /\ (\A k \in 1 .. p - 1 : f[k] = a[k]) /\ p - 1 < p
  <2> HIDE DEF p, f
  <2>1. \A k \in 1 .. p - 1 : 1 + k - 1 = k /\ k \in 1 .. (p - 1) - 1 + 1 BY <1>1
  <2>2. (IF 1 <= p - 1 THEN (p - 1) - 1 + 1 ELSE 0) = p - 1 /\ p - 1 < p BY <1>1
  <2> QED BY <1>3, <2>1, <2>2
<1> HIDE DEF f
<1>5. Agree(f, a, Len(f)) BY <1>4 DEF Agree
<1>6. Parents(f, a) BY <1>4, <1>5 DEF Parents
<1> QED BY <1>3, <1>6, WhatPrecedes DEF Front, f

\* ParentsFirst of the list itself
LEMMA ParentsComeFirst ==
  ASSUME NEW m \in Machines, NEW i \in DOMAIN ParseFindmnt(m.mounts),
         ParseFindmnt(m.mounts)[i].parent # None
  PROVE  \E j \in 1 .. i - 1 :
           ParseFindmnt(m.mounts)[j].target = ParseFindmnt(m.mounts)[i].parent
<1> DEFINE tree == m.mounts
           order == Listed(DOMAIN tree)
           n == Cardinality(DOMAIN tree)
           list == ParseFindmnt(tree)
<1>1. /\ n \in Nat /\ DOMAIN list = 1 .. n
      /\ \A k \in 1 .. n :
           /\ order[k] \in DOMAIN tree
           /\ list[k].target = tree[order[k]].target
           /\ list[k].parent = IF Len(order[k]) = 1 THEN None ELSE tree[Front(order[k])].target
      /\ \A a \in DOMAIN tree : \E k \in 1 .. n : order[k] = a
      /\ \A k, l \in 1 .. n : Preceded(order[k], order[l]) => k < l
  BY FindmntsList
<1>2. \A a \in DOMAIN tree : a \in Seq(Nat) /\ a # <<>> /\ (Len(a) > 1 => Front(a) \in DOMAIN tree)
  BY MachinesAreTyped DEF MountTable
<1> HIDE DEF order, n, tree
<1>3. i \in 1 .. n /\ list[i].parent # None BY <1>1 DEF tree
<1> HIDE DEF list
<1>4. PICK a \in DOMAIN tree : a = order[i] BY <1>1, <1>3
<1>5. a \in Seq(Nat) /\ a # <<>> /\ Len(a) # 1 /\ list[i].parent = tree[Front(a)].target
  BY <1>1, <1>2, <1>3, <1>4
<1>6. Len(a) > 1
  <2> DEFINE p == Len(a)
  <2>1. p \in Nat /\ p # 0 /\ p # 1 BY <1>5, EmptySeq
  <2> HIDE DEF p
  <2>2. p > 1 BY <2>1
  <2> QED BY <2>2 DEF p
<1>7. Front(a) \in DOMAIN tree /\ Preceded(Front(a), a) BY <1>2, <1>5, <1>6, FrontPrecedes
<1>8. PICK j \in 1 .. n : order[j] = Front(a) BY <1>1, <1>7
<1>9. j < i BY <1>1, <1>3, <1>4, <1>7, <1>8
<1>10. j \in 1 .. i - 1 BY <1>1, <1>3, <1>9
<1>11. list[j].target = list[i].parent BY <1>1, <1>5, <1>8
<1> QED BY <1>10, <1>11 DEF list, tree

\* ParentsFirst: whatever is mounted where, and however deep, findmnt's list, and
\* the topology's, names what a mount stands in before the mount.
THEOREM MountsFollowTheirParents == StorageSpec => []ParentsFirst
<1>1. StorageInv => ParentsFirst
  <2> SUFFICES ASSUME StorageInv
               PROVE  ParentsFirst
    OBVIOUS
  <2>1. CASE outcome # "topology" BY <2>1 DEF StorageInv, Told, NoTopology, ParentsFirst
  <2>2. CASE outcome = "topology"
    <3>1. topology.mounts = ParseFindmnt(seen[3].mounts) /\ seen[3] \in Machines
      <4>1. /\ seen \in Seq(Machines) /\ Len(seen) = 3
            /\ topology = Merged(ParseLsblk(seen[1]), ParseBlkid(seen[2]), ParseFindmnt(seen[3].mounts))
        BY <2>2 DEF StorageInv, Heard, Told
      <4>2. 3 \in 1 .. Len(seen) BY <4>1
      <4> QED BY <4>1, <4>2, ElementOfSeq DEF Merged
    <3> QED BY <3>1, ParentsComeFirst DEF ParentsFirst
  <2> QED BY <2>1, <2>2
<1> QED BY <1>1, StorageInvHolds, PTL

-----------------------------------------------------------------------------
(* What the merge says of a partition *)

LEMMA GreatestOf ==
  ASSUME NEW n \in Nat, NEW S \in SUBSET (1 .. n), S # {}
  PROVE  \E m \in S : \A k \in S : m >= k
<1> DEFINE T == {n - k : k \in S}
<1>1. T \in SUBSET Nat /\ T # {}
  <2>1. \A k \in S : n - k \in Nat OBVIOUS
  <2> QED BY <2>1
<1>2. PICK t \in T : \A u \in T : t <= u
  <2> HIDE DEF T
  <2> QED BY <1>1, LeastNumber
<1>3. PICK m \in S : t = n - m OBVIOUS
<1>4. ASSUME NEW k \in S
      PROVE  m >= k
  <2>1. t <= n - k BY <1>2
  <2>2. m \in Int /\ k \in Int OBVIOUS
  <2> HIDE DEF T
  <2> QED BY <1>3, <2>1, <2>2
<1> QED BY <1>4

\* The last mount of a source is one of its mounts.
LEMMA LastMountIsAMount ==
  ASSUME NEW m \in Machines, NEW name, MountsOf(ParseFindmnt(m.mounts), name) # {}
  PROVE  \E i \in MountsOf(ParseFindmnt(m.mounts), name) :
           LastMount(ParseFindmnt(m.mounts), name) = ParseFindmnt(m.mounts)[i]
<1> DEFINE n == Cardinality(DOMAIN m.mounts)
           list == ParseFindmnt(m.mounts)
           S == MountsOf(list, name)
<1>1. n \in Nat /\ DOMAIN list = 1 .. n BY FindmntsList
<1>2. S \in SUBSET (1 .. n) /\ S # {} BY <1>1 DEF MountsOf
<1> HIDE DEF n, list, S
<1>3. \E i \in S : \A k \in S : i >= k BY <1>1, <1>2, GreatestOf
<1>4. Max(S) \in S BY <1>3 DEF Max
<1>5. LastMount(list, name) = list[Max(S)] BY DEF LastMount, S
<1> QED BY <1>4, <1>5 DEF list, S

\* lsblk's mount point of a device is the target of a mount from it, or "[SWAP]".
LEMMA PointsAreTargets ==
  ASSUME NEW m \in Machines, NEW path
  PROVE  /\ FirstPoint(Points(m, path)) # None => FirstPoint(Points(m, path)) \in InUse(m, path)
         /\ FirstPoint(Points(m, path)) = None => InUse(m, path) = {}
<1> DEFINE S == {a \in DOMAIN m.mounts : m.mounts[a].device = path}
           of == Listed(S)
           n == Cardinality(S)
           points == Points(m, path)
<1>a. CASE path \in m.swaps
  <2>1. points = <<Swap>> /\ InUse(m, path) = {Swap} BY <1>a DEF Points, InUse
  <2>2. points # <<>> /\ points[1] = Swap BY <2>1
  <2>3. FirstPoint(points) = Swap BY <2>2 DEF FirstPoint
  <2>4. Swap # None BY NoneIsNoFileSystem DEF Swap
  <2> QED BY <2>1, <2>3, <2>4
<1>b. CASE path \notin m.swaps
  <2> SUFFICES /\ FirstPoint(points) # None => FirstPoint(points) \in Mounted(m, path)
               /\ FirstPoint(points) = None => Mounted(m, path) = {}
    BY <1>b DEF InUse
  <2>1. IsFiniteSet(S) /\ S \in SUBSET Seq(Nat)
    <3>1. IsFiniteSet(DOMAIN m.mounts) /\ DOMAIN m.mounts \in SUBSET Seq(Nat)
      BY MachinesAreTyped DEF MountTable
    <3> QED BY <3>1, FS_Subset
  <2>2. /\ n \in Nat /\ DOMAIN of = 1 .. n
        /\ \A i \in 1 .. n : of[i] \in S
        /\ \A a \in S : \E i \in 1 .. n : of[i] = a
    BY <2>1, ListedIsTheOrder
  <2>3. points = [i \in DOMAIN of |-> m.mounts[of[i]].target] BY <1>b DEF Points
  <2>4. \A a \in S : m.mounts[a].target # None BY MachinesAreTyped DEF MountTable
  <2>5. Mounted(m, path) = {m.mounts[a].target : a \in S} BY DEF Mounted
  <2> HIDE DEF S, of, n, points
  <2>6. CASE S = {}
    <3>1. points = <<>>
      <4>1. DOMAIN of = {} BY <2>2, <2>6
      <4> QED BY <2>3, <4>1
    <3> QED BY <2>5, <2>6, <3>1 DEF FirstPoint
  <2>7. CASE S # {}
    <3>1. 1 \in 1 .. n BY <2>2, <2>7
    <3>2. 1 \in DOMAIN points /\ points[1] = m.mounts[of[1]].target BY <2>2, <2>3, <3>1
    <3>3. points # <<>> BY <3>2, EmptySeq
    <3>4. points[1] # None /\ points[1] \in Mounted(m, path) BY <2>2, <2>4, <2>5, <3>1, <3>2
    <3> QED BY <3>3, <3>4 DEF FirstPoint
  <2> QED BY <2>6, <2>7
<1> QED BY <1>a, <1>b

\* An EXCEPT on one that is known by its fields
LEMMA FactsOfAPartition ==
  ASSUME NEW m, NEW child, NEW n, NEW facts
  PROVE  LET q == WithFacts(ParsePartition(m, child, n), facts)
             path == DevPath(child.name)
             known == path \in DOMAIN facts
             fs == facts[path].fs
         IN q = [name |-> child.name, number |-> q.number,
                 partuuid |-> IF known THEN facts[path].partuuid ELSE None,
                 filesystem |-> IF known /\ fs # None THEN [fs |-> fs, mount |-> None, options |-> None]
                                ELSE None,
                 mount |-> FirstPoint(Points(m, Path(child)))]
<1> DEFINE p == ParsePartition(m, child, n)
           path == DevPath(child.name)
           known == path \in DOMAIN facts
           fs == facts[path].fs
           id == facts[path].partuuid
           file == IF fs = None THEN None ELSE [fs |-> fs, mount |-> None, options |-> None]
           q == WithFacts(p, facts)
           point == FirstPoint(Points(m, Path(child)))
           given == IF child.partn # None THEN child.partn ELSE n
<1>1. p = [name |-> child.name, number |-> given, partuuid |-> None, filesystem |-> None, mount |-> point]
  BY DEF ParsePartition
<1>2. q = IF DevPath(p.name) \notin DOMAIN facts THEN p
          ELSE [p EXCEPT !.partuuid = facts[DevPath(p.name)].partuuid,
                         !.filesystem = IF facts[DevPath(p.name)].fs = None THEN None
                                        ELSE [fs |-> facts[DevPath(p.name)].fs,
                                              mount |-> None, options |-> None]]
  BY DEF WithFacts
<1>3. p.name = child.name BY <1>1
<1>4. q = IF known THEN [p EXCEPT !.partuuid = id, !.filesystem = file] ELSE p
  <2> HIDE DEF p, q
  <2> QED BY <1>2, <1>3
<1>5. file = IF fs # None THEN [fs |-> fs, mount |-> None, options |-> None] ELSE None OBVIOUS
<1> HIDE DEF p, q, id, file, point, given, known, fs
<1>6. CASE known
  <2>1. q = [name |-> child.name, number |-> given, partuuid |-> id, filesystem |-> file, mount |-> point]
    BY <1>1, <1>4, <1>6
  <2>2. q.number = given BY <2>1
  <2> QED BY <1>5, <1>6, <2>1, <2>2 DEF p, q, id, point, known, fs
<1>7. CASE ~ known
  <2>1. q = [name |-> child.name, number |-> given, partuuid |-> None, filesystem |-> None, mount |-> point]
    BY <1>1, <1>4, <1>7
  <2>2. q.number = given BY <2>1
  <2> QED BY <1>7, <2>1, <2>2 DEF p, q, point, known, fs
<1> QED BY <1>6, <1>7

LEMMA MountOfAPartition ==
  ASSUME NEW q, NEW mounts, IsPartition(q), NEW fs,
         q.filesystem # None => q.filesystem = [fs |-> fs, mount |-> None, options |-> None]
  PROVE  LET r == WithMount(q, mounts)
             last == LastMount(mounts, q.name)
             found == MountsOf(mounts, q.name) # {}
         IN /\ r.name = q.name /\ r.partuuid = q.partuuid
            /\ r.mount = IF found THEN last.target ELSE q.mount
            /\ r.filesystem = IF q.filesystem # None /\ found
                              THEN [fs |-> fs, mount |-> last.target, options |-> last.options]
                              ELSE q.filesystem
<1> DEFINE r == WithMount(q, mounts)
           target == LastMount(mounts, q.name).target
           options == LastMount(mounts, q.name).options
           found == MountsOf(mounts, q.name) # {}
           placed == [q EXCEPT !.mount = target]
           blank == [fs |-> fs, mount |-> None, options |-> None]
<1>1. r = IF ~ found THEN q
          ELSE IF q.filesystem = None THEN placed
          ELSE [placed EXCEPT !.filesystem.mount = target, !.filesystem.options = options]
  BY DEF WithMount
<1>2. placed = [name |-> q.name, number |-> q.number, partuuid |-> q.partuuid,
                filesystem |-> q.filesystem, mount |-> target]
  <2> HIDE DEF target
  <2> QED BY DEF IsPartition
<1> HIDE DEF r, target, options, found, placed, blank
<1>4. CASE ~ found BY <1>1, <1>4 DEF r, found, target, options
<1>5. CASE found /\ q.filesystem = None
  <2>1. r = placed BY <1>1, <1>5
  <2> QED BY <1>2, <1>5, <2>1 DEF r, found, target, options
<1>6. CASE found /\ q.filesystem # None
  <2>1. r = [placed EXCEPT !.filesystem.mount = target, !.filesystem.options = options] BY <1>1, <1>6
  <2>2. q.filesystem = blank BY <1>6 DEF blank
  <2>3. r = [name |-> q.name, number |-> q.number, partuuid |-> q.partuuid,
             filesystem |-> [blank EXCEPT !.mount = target, !.options = options], mount |-> target]
    BY <1>2, <2>1, <2>2
  <2>4. r.name = q.name /\ r.partuuid = q.partuuid /\ r.mount = target
        /\ r.filesystem = [blank EXCEPT !.mount = target, !.options = options]
    BY <2>3
  <2>5. blank = [fs |-> fs, mount |-> None, options |-> None] BY DEF blank
  <2>6. r.filesystem = [fs |-> fs, mount |-> target, options |-> options] BY <2>4, <2>5
  <2> QED BY <1>6, <2>4, <2>6 DEF r, found, target, options
<1> QED BY <1>4, <1>5, <1>6

\* The partitions of the topology are the children of lsblk's disks, in order.
LEMMA PartitionsAreTheChildren ==
  ASSUME NEW m, NEW facts, NEW mounts, NEW i \in DOMAIN m.disks
  PROVE  LET devices == Merged(ParseLsblk(m), facts, mounts).devices
             children == m.disks[i].children
             parts == devices[i].partitions
         IN /\ DOMAIN devices = DOMAIN m.disks /\ DOMAIN parts = DOMAIN children
            /\ \A j \in DOMAIN children :
                 parts[j] = WithMount(WithFacts(ParsePartition(m, children[j], j), facts), mounts)
<1> DEFINE devices == Merged(ParseLsblk(m), facts, mounts).devices
           old == ParseLsblk(m)[i]
           disk == m.disks[i]
           at == WholeMount(old, mounts)
           listed == [j \in DOMAIN disk.children |-> ParsePartition(m, disk.children[j], j)]
           point == FirstPoint(Points(m, DevPath(disk.name)))
           parts == [j \in DOMAIN old.partitions |-> WithMount(WithFacts(old.partitions[j], facts), mounts)]
<1>1. DOMAIN ParseLsblk(m) = DOMAIN m.disks BY DEF ParseLsblk
<1>2. old = [name |-> disk.name, type |-> disk.type, removable |-> disk.removable,
             readOnly |-> disk.readOnly, mount |-> point, partitions |-> listed]
  BY DEF ParseLsblk, ParseDevice
<1>3. DOMAIN devices = DOMAIN m.disks /\ devices[i] = [old EXCEPT !.mount = at, !.partitions = parts]
  BY <1>1 DEF Merged
<1>4. devices[i].partitions = parts
  <2> HIDE DEF devices, old, at, listed, point, parts
  <2> QED BY <1>2, <1>3
<1>5. old.partitions = listed
  <2> HIDE DEF old, listed, point
  <2> QED BY <1>2
<1>6. DOMAIN parts = DOMAIN disk.children
      /\ \A j \in DOMAIN disk.children :
           parts[j] = WithMount(WithFacts(ParsePartition(m, disk.children[j], j), facts), mounts)
  <2> HIDE DEF old
  <2> QED BY <1>5
<1> HIDE DEF parts
<1> QED BY <1>3, <1>4, <1>6

\* What lsblk, blkid and findmnt each contribute to a partition
Said(p, m, child, facts, mounts) ==
  LET name == child.name
      path == DevPath(name)
      known == path \in DOMAIN facts
      fs == facts[path].fs
      blank == [fs |-> fs, mount |-> None, options |-> None]
      found == MountsOf(mounts, name) # {}
      last == LastMount(mounts, name)
      full == [fs |-> fs, mount |-> last.target, options |-> last.options]
  IN /\ p.name = name
     /\ p.partuuid = IF known THEN facts[path].partuuid ELSE None
     /\ p.filesystem = IF known /\ fs # None /\ blank # None
                       THEN IF found THEN full ELSE blank ELSE None
     /\ p.mount = IF found THEN last.target ELSE FirstPoint(Points(m, Path(child)))

LEMMA WhatIsSaid ==
  ASSUME NEW m, NEW child, NEW n, NEW facts, NEW mounts
  PROVE  Said(WithMount(WithFacts(ParsePartition(m, child, n), facts), mounts), m, child, facts, mounts)
<1> DEFINE q == WithFacts(ParsePartition(m, child, n), facts)
           r == WithMount(q, mounts)
           path == DevPath(child.name)
           known == path \in DOMAIN facts
           fs == facts[path].fs
           id == facts[path].partuuid
           blank == [fs |-> fs, mount |-> None, options |-> None]
           point == FirstPoint(Points(m, Path(child)))
           last == LastMount(mounts, child.name)
           found == MountsOf(mounts, child.name) # {}
<1>1. q = [name |-> child.name, number |-> q.number, partuuid |-> IF known THEN id ELSE None,
           filesystem |-> IF known /\ fs # None THEN blank ELSE None, mount |-> point]
  BY FactsOfAPartition
<1>2. /\ q.name = child.name /\ q.mount = point
      /\ q.partuuid = (IF known THEN id ELSE None)
      /\ q.filesystem = (IF known /\ fs # None THEN blank ELSE None)
      /\ IsPartition(q)
  <2> HIDE DEF q, id, blank, point, known, fs
  <2> QED BY <1>1 DEF IsPartition
<1>3. q.filesystem # None => q.filesystem = [fs |-> fs, mount |-> None, options |-> None]
  <2> HIDE DEF q, fs, known
  <2> QED BY <1>2
<1>4. /\ r.name = q.name /\ r.partuuid = q.partuuid
      /\ r.mount = IF found THEN last.target ELSE q.mount
      /\ r.filesystem = IF q.filesystem # None /\ found
                        THEN [fs |-> fs, mount |-> last.target, options |-> last.options]
                        ELSE q.filesystem
  <2>1. LET s == WithMount(q, mounts)
            end == LastMount(mounts, q.name)
            some == MountsOf(mounts, q.name) # {}
        IN /\ s.name = q.name /\ s.partuuid = q.partuuid
           /\ s.mount = IF some THEN end.target ELSE q.mount
           /\ s.filesystem = IF q.filesystem # None /\ some
                             THEN [fs |-> fs, mount |-> end.target, options |-> end.options]
                             ELSE q.filesystem
    <3> HIDE DEF q, fs
    <3> QED BY <1>2, <1>3, MountOfAPartition
  <2> HIDE DEF q, fs
  <2> QED BY <1>2, <2>1
<1>5. LET s == r
          k == known
          f == fs
          b == blank
          some == found
          l == last
      IN /\ s.name = child.name
         /\ s.partuuid = IF k THEN id ELSE None
         /\ s.filesystem = IF k /\ f # None /\ b # None
                           THEN IF some THEN [fs |-> f, mount |-> l.target, options |-> l.options] ELSE b
                           ELSE None
         /\ s.mount = IF some THEN l.target ELSE point
  <2> DEFINE full == [fs |-> fs, mount |-> last.target, options |-> last.options]
  <2>1. r.filesystem = IF q.filesystem # None /\ found THEN full ELSE q.filesystem BY <1>4
  <2> HIDE DEF q, r, known, fs, id, blank, found, last, point, full
  <2> QED BY <1>2, <1>4, <2>1 DEF full
<1> QED BY <1>5 DEF Said

-----------------------------------------------------------------------------
(* What blkid's text says *)

LEMMA NumberedIsASequence ==
  ASSUME NEW n \in Nat, NEW f, f = [i \in 1 .. n |-> f[i]]
  PROVE  Len(f) = n
<1> DEFINE T == {f[i] : i \in 1 .. n}
<1>1. f \in [1 .. n -> T]
  <2>1. \A i \in 1 .. n : f[i] \in T OBVIOUS
  <2> HIDE DEF T
  <2> QED BY <2>1
<1> HIDE DEF T
<1>2. f \in Seq(T) BY <1>1
<1> QED BY <1>1, <1>2, LenProperties

LEMMA PicturesAreFinite ==
  ASSUME NEW D, IsFiniteSet(D), NEW f, DOMAIN f = D
  PROVE  IsFiniteSet({f[d] : d \in D})
<1> DEFINE g == [d \in D |-> f[d]]
           T == {f[d] : d \in D}
<1>1. g \in Surjection(D, T) BY DEF Surjection
<1> HIDE DEF g, T
<1>2. IsFiniteSet(T) BY <1>1, FS_Surjection
<1> QED BY <1>2 DEF T

LEMMA NumberedUnionsAreFinite ==
  ASSUME NEW n \in Nat, NEW S, NEW f, DOMAIN f = 1 .. n,
         \A i \in 1 .. n : IsFiniteSet(f[i]) /\ f[i] \in SUBSET S
  PROVE  IsFiniteSet(UNION {f[i] : i \in 1 .. n}) /\ UNION {f[i] : i \in 1 .. n} \in SUBSET S
<1>1. IsFiniteSet(1 .. n)
  <2>1. 1 \in Int /\ n \in Int OBVIOUS
  <2> QED BY <2>1, FS_Interval
<1>2. IsFiniteSet({f[i] : i \in 1 .. n}) BY <1>1, PicturesAreFinite
<1>3. \A T \in {f[i] : i \in 1 .. n} : IsFiniteSet(T) /\ T \in SUBSET S OBVIOUS
<1> QED BY <1>2, <1>3, FS_UNION

LEMMA CellsAreFinite ==
  ASSUME NEW i \in Nat, NEW j \in Nat, NEW n \in Nat
  PROVE  LET cell == {<<i, j>>} \union {<<i, j, k>> : k \in 1 .. n}
         IN IsFiniteSet(cell) /\ cell \in SUBSET Seq(Nat)
<1> DEFINE f == [k \in 1 .. n |-> <<i, j, k>>]
           deep == {<<i, j, k>> : k \in 1 .. n}
           pictures == {f[k] : k \in 1 .. n}
<1>1. IsFiniteSet(1 .. n)
  <2>1. 1 \in Int /\ n \in Int OBVIOUS
  <2> QED BY <2>1, FS_Interval
<1>2. DOMAIN f = 1 .. n /\ \A k \in 1 .. n : f[k] = <<i, j, k>> OBVIOUS
<1>3. deep = pictures
  <2> HIDE DEF f
  <2> QED BY <1>2
<1>4. IsFiniteSet(pictures)
  <2> HIDE DEF f
  <2> QED BY <1>1, <1>2, PicturesAreFinite
<1>5. IsFiniteSet({<<i, j>>}) BY FS_Singleton
<1>6. \A k \in 1 .. n : <<i, j, k>> \in Seq(Nat)
  <2>1. \A k \in 1 .. n : k \in Nat OBVIOUS
  <2> QED BY <2>1
<1>7. <<i, j>> \in Seq(Nat) OBVIOUS
<1>8. IsFiniteSet({<<i, j>>} \union deep)
  <2> HIDE DEF deep, pictures
  <2> QED BY <1>3, <1>4, <1>5, FS_Union
<1> QED BY <1>6, <1>7, <1>8

LEMMA PlacesAreFinite ==
  ASSUME NEW m \in Machines
  PROVE  IsFiniteSet(Places(m)) /\ Places(m) \in SUBSET Seq(Nat)
<1> DEFINE n == Len(m.disks)
           Cell(i, j) == {<<i, j>>} \union {<<i, j, k>> : k \in DOMAIN m.disks[i].children[j].below}
           Row(i) == UNION {Cell(i, j) : j \in DOMAIN m.disks[i].children}
           rows == [i \in 1 .. n |-> Row(i)]
<1>1. n \in Nat /\ DOMAIN m.disks = 1 .. n BY MachinesAreTyped, LenProperties
<1>2. ASSUME NEW i \in 1 .. n
      PROVE  IsFiniteSet(Row(i)) /\ Row(i) \in SUBSET Seq(Nat)
  <2> DEFINE c == m.disks[i].children
             k == Len(c)
             f == [j \in 1 .. k |-> Cell(i, j)]
  <2>1. /\ k \in Nat /\ DOMAIN c = 1 .. k
        /\ \A child \in ToSet(c) : child.below \in Seq(ToSet(child.below))
    <3>1. /\ c \in Seq(ToSet(c))
          /\ \A child \in ToSet(c) : child.below \in Seq(ToSet(child.below))
      BY <1>1, MachinesAreTyped
    <3> QED BY <3>1, LenProperties
  <2>2. i \in Nat
    <3> HIDE DEF n
    <3> QED BY <1>1
  <2>3. ASSUME NEW j \in 1 .. k
        PROVE  IsFiniteSet(Cell(i, j)) /\ Cell(i, j) \in SUBSET Seq(Nat)
    <3> DEFINE b == c[j].below
               l == Len(b)
    <3>1. j \in Nat
      <4> HIDE DEF k
      <4> QED BY <2>1
    <3>2. c[j] \in ToSet(c) BY <2>1 DEF ToSet
    <3>3. b \in Seq(ToSet(b)) BY <2>1, <3>2
    <3>4. l \in Nat /\ DOMAIN b = 1 .. l
      <4> HIDE DEF b
      <4> QED BY <3>3, LenProperties
    <3>5. Cell(i, j) = {<<i, j>>} \union {<<i, j, p>> : p \in 1 .. l} BY <3>4
    <3> HIDE DEF Cell, l, b
    <3> QED BY <2>2, <3>1, <3>4, <3>5, CellsAreFinite
  <2>4. DOMAIN f = 1 .. k /\ \A j \in 1 .. k : f[j] = Cell(i, j) OBVIOUS
  <2>5. Row(i) = UNION {f[j] : j \in 1 .. k}
    <3>1. Row(i) = UNION {Cell(i, j) : j \in 1 .. k} BY <2>1
    <3>2. {Cell(i, j) : j \in 1 .. k} = {f[j] : j \in 1 .. k}
      <4> HIDE DEF f, Cell, k
      <4> QED BY <2>4
    <3> HIDE DEF f, Cell, k, Row
    <3> QED BY <3>1, <3>2
  <2> HIDE DEF f, Cell, k, Row
  <2>6. \A j \in 1 .. k : IsFiniteSet(f[j]) /\ f[j] \in SUBSET Seq(Nat) BY <2>3, <2>4
  <2>7. k \in Nat /\ DOMAIN f = 1 .. k BY <2>1, <2>4
  <2>8. IsFiniteSet(UNION {f[j] : j \in 1 .. k}) /\ UNION {f[j] : j \in 1 .. k} \in SUBSET Seq(Nat)
    BY <2>6, <2>7, NumberedUnionsAreFinite, ZenonT(30)
  <2> QED BY <2>5, <2>8
<1>3. Places(m) = UNION {rows[i] : i \in 1 .. n}
  <2>1. Places(m) = UNION {Row(i) : i \in 1 .. n} BY <1>1 DEF Places
  <2>2. \A i \in 1 .. n : rows[i] = Row(i) OBVIOUS
  <2>3. {Row(i) : i \in 1 .. n} = {rows[i] : i \in 1 .. n}
    <3> HIDE DEF rows, Row, n
    <3> QED BY <2>2
  <2> HIDE DEF rows, Row, n
  <2> QED BY <2>1, <2>3
<1>4. DOMAIN rows = 1 .. n /\ \A i \in 1 .. n : rows[i] = Row(i) OBVIOUS
<1> HIDE DEF rows, n, Row
<1>5. \A i \in 1 .. n : IsFiniteSet(rows[i]) /\ rows[i] \in SUBSET Seq(Nat) BY <1>2, <1>4
<1>6. n \in Nat /\ DOMAIN rows = 1 .. n BY <1>1, <1>4
<1>7. IsFiniteSet(UNION {rows[i] : i \in 1 .. n}) /\ UNION {rows[i] : i \in 1 .. n} \in SUBSET Seq(Nat)
  BY <1>5, <1>6, NumberedUnionsAreFinite
<1> QED BY <1>3, <1>7

HasEntry(c) == c.fs # None \/ c.partuuid # None

\* blkid says of a path what it has found of some device by that path, and says
\* something of each device that has anything to say of.
LEMMA BlkidsFacts ==
  ASSUME NEW m \in Machines
  PROVE  LET facts == ParseBlkid(m)
         IN /\ \A path \in DOMAIN facts : \E p \in Places(m) :
                 /\ Path(At(m, p)) = path
                 /\ facts[path].fs = At(m, p).fs /\ facts[path].partuuid = At(m, p).partuuid
            /\ \A p \in Places(m) : HasEntry(At(m, p)) => Path(At(m, p)) \in DOMAIN facts
<1> DEFINE S == {p \in Places(m) : At(m, p).fs # None \/ At(m, p).partuuid # None}
           of == Listed(S)
           n == Cardinality(S)
           probed == Probed(m)
           paths == {Path(probed[i]) : i \in DOMAIN probed}
           End(path) == SelectLastInSeq(probed, LAMBDA c : Path(c) = path)
           facts == ParseBlkid(m)
<1>1. IsFiniteSet(S) /\ S \in SUBSET Seq(Nat) BY PlacesAreFinite, FS_Subset
<1>2. /\ n \in Nat /\ DOMAIN of = 1 .. n
      /\ \A i \in 1 .. n : of[i] \in S
      /\ \A a \in S : \E i \in 1 .. n : of[i] = a
  <2> HIDE DEF S
  <2> QED BY <1>1, ListedIsTheOrder
<1>3. probed = [k \in 1 .. n |-> At(m, of[k])]
  <2>1. probed = [k \in DOMAIN of |-> At(m, of[k])] BY DEF Probed
  <2> HIDE DEF of, n, probed
  <2> QED BY <1>2, <2>1
<1>4. DOMAIN probed = 1 .. n /\ Len(probed) = n /\ \A i \in 1 .. n : probed[i] = At(m, of[i])
  <2> HIDE DEF of, n, probed
  <2>1. DOMAIN probed = 1 .. n /\ \A i \in 1 .. n : probed[i] = At(m, of[i]) BY <1>3
  <2>2. probed = [i \in 1 .. n |-> probed[i]] BY <1>3, <2>1
  <2>3. Len(probed) = n BY <1>2, <2>2, NumberedIsASequence
  <2> QED BY <2>1, <2>3
<1>5. facts = [path \in paths |-> [fs |-> probed[End(path)].fs, partuuid |-> probed[End(path)].partuuid]]
  BY DEF ParseBlkid
<1>6. ASSUME NEW path \in paths
      PROVE  End(path) \in 1 .. n /\ Path(probed[End(path)]) = path
  <2> DEFINE I == {i \in 1 .. Len(probed) : Path(probed[i]) = path}
  <2>1. End(path) = IF I # {} THEN Max(I) ELSE 0 BY DEF SelectLastInSeq
  <2>2. PICK i \in DOMAIN probed : Path(probed[i]) = path OBVIOUS
  <2> HIDE DEF probed, n, End
  <2>3. i \in I /\ I \in SUBSET (1 .. n) BY <1>4, <2>2
  <2>4. I # {} BY <2>3
  <2>5. \E k \in I : \A l \in I : k >= l
    <3> HIDE DEF I
    <3> QED BY <1>2, <2>3, <2>4, GreatestOf
  <2>6. Max(I) \in I BY <2>5 DEF Max
  <2> QED BY <2>1, <2>3, <2>4, <2>6
<1> HIDE DEF probed, End, facts, of, n
<1>7. ASSUME NEW path \in DOMAIN facts
      PROVE  \E p \in Places(m) :
               /\ Path(At(m, p)) = path
               /\ facts[path].fs = At(m, p).fs /\ facts[path].partuuid = At(m, p).partuuid
  <2>1. path \in paths BY <1>5
  <2>2. End(path) \in 1 .. n /\ Path(probed[End(path)]) = path BY <1>6, <2>1
  <2>3. of[End(path)] \in Places(m) BY <1>2, <2>2
  <2>4. facts[path].fs = probed[End(path)].fs /\ facts[path].partuuid = probed[End(path)].partuuid
    <3> HIDE DEF paths
    <3> QED BY <1>5, <2>1
  <2>5. probed[End(path)] = At(m, of[End(path)]) BY <1>4, <2>2
  <2> QED BY <2>2, <2>3, <2>4, <2>5
<1>8. ASSUME NEW p \in Places(m), HasEntry(At(m, p))
      PROVE  Path(At(m, p)) \in DOMAIN facts
  <2>1. p \in S BY <1>8 DEF HasEntry
  <2>2. PICK i \in 1 .. n : of[i] = p BY <1>2, <2>1
  <2>3. probed[i] = At(m, p) BY <1>4, <2>2
  <2>4. Path(At(m, p)) \in paths BY <1>4, <2>3
  <2> QED BY <1>5, <2>4
<1> QED BY <1>7, <1>8 DEF facts

-----------------------------------------------------------------------------
(* What a topology says, of what the three tools have found *)

LEMMA ThreeMachines ==
  ASSUME StorageInv, outcome = "topology"
  PROVE  /\ seen[1] \in Machines /\ seen[2] \in Machines /\ seen[3] \in Machines
         /\ Accepted
         /\ topology = Merged(ParseLsblk(seen[1]), ParseBlkid(seen[2]), ParseFindmnt(seen[3].mounts))
         /\ topology.mounts = ParseFindmnt(seen[3].mounts)
<1>1. /\ seen \in Seq(Machines) /\ Len(seen) = 3 /\ Accepted
      /\ topology = Merged(ParseLsblk(seen[1]), ParseBlkid(seen[2]), ParseFindmnt(seen[3].mounts))
  BY DEF StorageInv, Heard, Told
<1>2. 1 \in 1 .. Len(seen) /\ 2 \in 1 .. Len(seen) /\ 3 \in 1 .. Len(seen) BY <1>1
<1>3. topology.mounts = ParseFindmnt(seen[3].mounts) BY <1>1 DEF Merged
<1> QED BY <1>1, <1>2, <1>3, ElementOfSeq

\* Each partition is a child of one of lsblk's disks.
LEMMA PartitionsHaveAPlace ==
  ASSUME StorageInv, outcome = "topology"
  PROVE  LET m == seen[1]
         IN /\ DOMAIN topology.devices = DOMAIN m.disks
            /\ \A i \in DOMAIN m.disks :
                 DOMAIN topology.devices[i].partitions = DOMAIN m.disks[i].children
            /\ \A p \in Partitions : \E i \in DOMAIN m.disks : \E j \in DOMAIN m.disks[i].children :
                 p = topology.devices[i].partitions[j]
<1> DEFINE m == seen[1]
           devices == topology.devices
           facts == ParseBlkid(seen[2])
           mounts == ParseFindmnt(seen[3].mounts)
<1>1. topology = Merged(ParseLsblk(m), facts, mounts) BY ThreeMachines
<1>2. DOMAIN devices = DOMAIN m.disks
  <2>1. DOMAIN ParseLsblk(m) = DOMAIN m.disks BY DEF ParseLsblk
  <2> HIDE DEF facts, mounts
  <2> QED BY <1>1, <2>1 DEF Merged
<1>3. \A i \in DOMAIN m.disks : DOMAIN devices[i].partitions = DOMAIN m.disks[i].children
  <2> HIDE DEF facts, mounts, m
  <2> QED BY <1>1, PartitionsAreTheChildren
<1>4. \A p \in Partitions : \E i \in DOMAIN devices : \E j \in DOMAIN devices[i].partitions :
        p = devices[i].partitions[j]
  BY DEF Partitions, ToSet
<1> QED BY <1>2, <1>3, <1>4

LEMMA WhatAMergeSays ==
  ASSUME NEW m, NEW facts, NEW mounts, NEW i \in DOMAIN m.disks, NEW j \in DOMAIN m.disks[i].children
  PROVE  Said(Merged(ParseLsblk(m), facts, mounts).devices[i].partitions[j],
              m, m.disks[i].children[j], facts, mounts)
<1> DEFINE child == m.disks[i].children[j]
           p == Merged(ParseLsblk(m), facts, mounts).devices[i].partitions[j]
<1>1. p = WithMount(WithFacts(ParsePartition(m, child, j), facts), mounts) BY PartitionsAreTheChildren
<1> HIDE DEF p, child
<1>2. Said(p, m, child, facts, mounts) BY <1>1, WhatIsSaid
<1> QED BY <1>2 DEF p, child

\* The source of a subvolume or a bind mount is the path of no device.
LEMMA BarePaths ==
  ASSUME NEW m \in Machines, NEW a \in DOMAIN m.mounts, NEW name,
         Source(m.mounts[a]) = DevPath(name)
  PROVE  m.mounts[a].device = DevPath(name)
<1> DEFINE mount == m.mounts[a]
           T == STRING \union {"[/]"}
<1>1. CASE ~ mount.within BY <1>1 DEF Source
<1>2. CASE mount.within
  <2> DEFINE d == mount.device
  <2>1. d \in Seq(STRING) /\ Len(d) = 2 BY <1>2, MachinesAreTyped DEF MountTable
  <2>2. d \in Seq(T)
    <3> HIDE DEF d
    <3>1. \A i \in 1 .. Len(d) : d[i] \in STRING BY <2>1, ElementOfSeq
    <3>2. d \in [1 .. Len(d) -> T] BY <2>1, <3>1
    <3>3. Len(d) \in Nat BY <2>1
    <3> HIDE DEF T
    <3> QED BY <3>2, <3>3
  <2>3. Len(Append(d, "[/]")) = 3
    <3>1. PICK e \in T : e = "[/]" OBVIOUS
    <3> HIDE DEF d, T
    <3>2. Len(Append(d, e)) = Len(d) + 1 BY <2>2, AppendProperties
    <3> QED BY <2>1, <3>1, <3>2
  <2>4. Source(mount) = Append(d, "[/]") BY <1>2 DEF Source
  <2>5. Len(DevPath(name)) = 2 BY DEF DevPath
  <2> QED BY <2>3, <2>4, <2>5
<1>3. mount.within \in BOOLEAN BY MachinesAreTyped DEF MountTable
<1> QED BY <1>1, <1>2, <1>3

\* The mount a device's name leads to is one of findmnt's, of that device.
LEMMA TheMountFound ==
  ASSUME NEW m \in Machines, NEW name, MountsOf(ParseFindmnt(m.mounts), name) # {}
  PROVE  LET list == ParseFindmnt(m.mounts)
             last == LastMount(list, name)
         IN /\ last.target \in Mounted(m, DevPath(name))
            /\ \E a \in DOMAIN m.mounts : m.mounts[a].device = DevPath(name)
            /\ \E a \in DOMAIN m.mounts :
                 last.target = m.mounts[a].target /\ last.options = m.mounts[a].options
            /\ \E i \in DOMAIN list : /\ list[i].source = DevPath(name)
                                      /\ list[i].target = last.target /\ list[i].options = last.options
<1> DEFINE list == ParseFindmnt(m.mounts)
           n == Cardinality(DOMAIN m.mounts)
           order == Listed(DOMAIN m.mounts)
           last == LastMount(list, name)
<1>1. PICK i \in MountsOf(list, name) : last = list[i] BY LastMountIsAMount
<1>2. i \in DOMAIN list /\ list[i].source = DevPath(name) BY <1>1 DEF MountsOf
<1>3. /\ DOMAIN list = 1 .. n
      /\ \A k \in 1 .. n :
           /\ order[k] \in DOMAIN m.mounts /\ list[k].source = Source(m.mounts[order[k]])
           /\ list[k].target = m.mounts[order[k]].target
           /\ list[k].options = m.mounts[order[k]].options
  BY FindmntsList
<1> HIDE DEF list, n, order, last
<1>4. /\ order[i] \in DOMAIN m.mounts /\ DevPath(name) = Source(m.mounts[order[i]])
      /\ last.target = m.mounts[order[i]].target /\ last.options = m.mounts[order[i]].options
  BY <1>1, <1>2, <1>3
<1>5. m.mounts[order[i]].device = DevPath(name) BY <1>4, BarePaths
<1>6. last.target \in Mounted(m, DevPath(name)) BY <1>4, <1>5 DEF Mounted
<1> QED BY <1>1, <1>2, <1>4, <1>5, <1>6 DEF list, last

LEMMA ChildrenHaveAPlace ==
  ASSUME NEW m, NEW i \in DOMAIN m.disks, NEW j \in DOMAIN m.disks[i].children
  PROVE  /\ <<i, j>> \in Places(m) /\ At(m, <<i, j>>) = m.disks[i].children[j]
         /\ m.disks[i].children[j] \in Devices(m)
<1>1. <<i, j>> \in Places(m) BY DEF Places
<1>2. At(m, <<i, j>>) = m.disks[i].children[j]
  <2>1. Len(<<i, j>>) = 2 /\ <<i, j>>[1] = i /\ <<i, j>>[2] = j OBVIOUS
  <2> QED BY <2>1 DEF At
<1> QED BY <1>1, <1>2 DEF Devices

\* EveryFactWasTrue: however the machine changes between the three tools, what
\* is said of a partition is what one of them has found of a device by its name.
THEOREM OnlyWhatWasObserved == StorageSpec => []EveryFactWasTrue
<1>1. StorageInv => EveryFactWasTrue
  <2> SUFFICES ASSUME StorageInv, NEW q \in Partitions
               PROVE  /\ \E d \in Devices(seen[1]) : d.name = q.name
                      /\ q.partuuid # None =>
                           \E d \in Devices(seen[2]) :
                             d.name = q.name /\ d.node = "dev" /\ d.partuuid = q.partuuid
                      /\ q.filesystem # None =>
                           \E d \in Devices(seen[2]) :
                             d.name = q.name /\ d.node = "dev" /\ d.fs = q.filesystem.fs
                      /\ q.mount # None =>
                           \/ q.mount \in Mounted(seen[3], DevPath(q.name))
                           \/ \E d \in Devices(seen[1]) :
                                d.name = q.name /\ q.mount \in InUse(seen[1], Path(d))
    BY DEF EveryFactWasTrue
  <2>1. outcome = "topology"
    BY DEF StorageInv, Told, NoTopology, Partitions
  <2>a. PICK i \in DOMAIN seen[1].disks :
          \E j \in DOMAIN seen[1].disks[i].children : q = topology.devices[i].partitions[j]
    BY <2>1, PartitionsHaveAPlace
  <2>2. PICK j \in DOMAIN seen[1].disks[i].children : q = topology.devices[i].partitions[j]
    BY <2>a
  <2> DEFINE child == seen[1].disks[i].children[j]
             name == child.name
             path == DevPath(name)
             facts == ParseBlkid(seen[2])
             list == ParseFindmnt(seen[3].mounts)
             known == path \in DOMAIN facts
             fs == facts[path].fs
             id == facts[path].partuuid
             blank == [fs |-> fs, mount |-> None, options |-> None]
             found == MountsOf(list, name) # {}
             last == LastMount(list, name)
             full == [fs |-> fs, mount |-> last.target, options |-> last.options]
             point == FirstPoint(Points(seen[1], Path(child)))
  <2>3. /\ q.name = name
        /\ q.partuuid = IF known THEN id ELSE None
        /\ q.filesystem = IF known /\ fs # None /\ blank # None
                          THEN IF found THEN full ELSE blank ELSE None
        /\ q.mount = IF found THEN last.target ELSE point
    <3>1. topology = Merged(ParseLsblk(seen[1]), facts, list) BY <2>1, ThreeMachines
    <3>2. Said(q, seen[1], child, facts, list)
      <4> HIDE DEF facts, list
      <4> QED BY <2>2, <3>1, WhatAMergeSays
    <3> QED BY <3>2 DEF Said
  <2>4. seen[1] \in Machines /\ seen[2] \in Machines /\ seen[3] \in Machines BY <2>1, ThreeMachines
  <2>5. child \in Devices(seen[1]) BY ChildrenHaveAPlace
  <2>6. known => \E d \in Devices(seen[2]) :
                   d.name = name /\ d.node = "dev" /\ d.fs = fs /\ d.partuuid = id
    <3>1. SUFFICES ASSUME known
                   PROVE  \E d \in Devices(seen[2]) :
                            d.name = name /\ d.node = "dev" /\ d.fs = fs /\ d.partuuid = id
      OBVIOUS
    <3>2. PICK p \in Places(seen[2]) :
            Path(At(seen[2], p)) = path /\ fs = At(seen[2], p).fs /\ id = At(seen[2], p).partuuid
      BY <2>4, <3>1, BlkidsFacts
    <3> DEFINE d == At(seen[2], p)
    <3>3. d \in Devices(seen[2]) BY DEF Devices
    <3> HIDE DEF d, name
    <3>4. d.name = name /\ d.node = "dev" BY <3>2 DEF Path, DevPath, d
    <3> QED BY <3>2, <3>3, <3>4 DEF d
  <2>7. q.filesystem # None => known /\ q.filesystem.fs = fs
    <3>1. full.fs = fs /\ blank.fs = fs OBVIOUS
    <3> HIDE DEF full, blank, fs, known, found
    <3> QED BY <2>3, <3>1
  <2>8. found => last.target \in Mounted(seen[3], path)
    <3> HIDE DEF name
    <3> QED BY <2>4, TheMountFound
  <2>9. point # None => point \in InUse(seen[1], Path(child)) BY <2>4, PointsAreTargets
  <2>10. path = DevPath(q.name) /\ child.name = q.name BY <2>3
  <2> HIDE DEF child, name, path, facts, list, known, fs, id, blank, found, last, full, point
  <2> QED BY <2>3, <2>5, <2>6, <2>7, <2>8, <2>9, <2>10
<1> QED BY <1>1, StorageInvHolds, PTL

\* MountsAgree: mount point and options of a file system are those of one mount of
\* the list, whatever is mounted and unmounted during the read; and a mount point
\* which is on no list of findmnt's has been there for lsblk only.
THEOREM OneMountIsTold == StorageSpec => []MountsAgree
<1>1. StorageInv => MountsAgree
  <2> SUFFICES ASSUME StorageInv, NEW q \in Partitions
               PROVE  /\ q.filesystem # None /\ q.filesystem.mount # None =>
                           /\ q.filesystem.mount = q.mount
                           /\ \E i \in DOMAIN topology.mounts :
                                /\ topology.mounts[i].source = DevPath(q.name)
                                /\ topology.mounts[i].target = q.mount
                                /\ topology.mounts[i].options = q.filesystem.options
                      /\ q.mount \notin {None, Swap} /\ seen[1].mounts = seen[3].mounts =>
                           \E i \in DOMAIN topology.mounts : topology.mounts[i].target = q.mount
    BY DEF MountsAgree
  <2>1. outcome = "topology"
    BY DEF StorageInv, Told, NoTopology, Partitions
  <2>a. PICK i \in DOMAIN seen[1].disks :
          \E j \in DOMAIN seen[1].disks[i].children : q = topology.devices[i].partitions[j]
    BY <2>1, PartitionsHaveAPlace
  <2>2. PICK j \in DOMAIN seen[1].disks[i].children : q = topology.devices[i].partitions[j]
    BY <2>a
  <2> DEFINE child == seen[1].disks[i].children[j]
             name == child.name
             path == DevPath(name)
             facts == ParseBlkid(seen[2])
             list == ParseFindmnt(seen[3].mounts)
             known == path \in DOMAIN facts
             fs == facts[path].fs
             blank == [fs |-> fs, mount |-> None, options |-> None]
             found == MountsOf(list, name) # {}
             last == LastMount(list, name)
             full == [fs |-> fs, mount |-> last.target, options |-> last.options]
             point == FirstPoint(Points(seen[1], Path(child)))
  <2>3. /\ q.name = name
        /\ q.filesystem = IF known /\ fs # None /\ blank # None
                          THEN IF found THEN full ELSE blank ELSE None
        /\ q.mount = IF found THEN last.target ELSE point
    <3>1. topology = Merged(ParseLsblk(seen[1]), facts, list) BY <2>1, ThreeMachines
    <3>2. Said(q, seen[1], child, facts, list)
      <4> HIDE DEF facts, list
      <4> QED BY <2>2, <3>1, WhatAMergeSays
    <3> QED BY <3>2 DEF Said
  <2>4. seen[1] \in Machines /\ seen[3] \in Machines /\ topology.mounts = list BY <2>1, ThreeMachines
  <2>5. found => \E k \in DOMAIN list : /\ list[k].source = path
                                        /\ list[k].target = last.target /\ list[k].options = last.options
    <3>2. SUFFICES ASSUME found
                   PROVE  \E k \in DOMAIN list :
                            /\ list[k].source = path
                            /\ list[k].target = last.target /\ list[k].options = last.options
      OBVIOUS
    <3>3. PICK m \in Machines : m = seen[3] BY <2>4
    <3>4. list = ParseFindmnt(m.mounts) BY <3>3
    <3> HIDE DEF name, list
    <3>5. MountsOf(ParseFindmnt(m.mounts), name) # {} BY <3>2, <3>4
    <3>6. \E k \in DOMAIN ParseFindmnt(m.mounts) :
            /\ ParseFindmnt(m.mounts)[k].source = path
            /\ ParseFindmnt(m.mounts)[k].target = LastMount(ParseFindmnt(m.mounts), name).target
            /\ ParseFindmnt(m.mounts)[k].options = LastMount(ParseFindmnt(m.mounts), name).options
      BY <3>5, TheMountFound
    <3> QED BY <3>4, <3>6
  <2>6. ASSUME q.filesystem # None, q.filesystem.mount # None
        PROVE  found /\ q.filesystem.mount = last.target /\ q.filesystem.options = last.options
    <3>1. blank.mount = None /\ full.mount = last.target /\ full.options = last.options OBVIOUS
    <3> HIDE DEF full, blank, fs, known, found
    <3> QED BY <2>3, <2>6, <3>1
  <2>7. point \notin {None, Swap} /\ seen[1].mounts = seen[3].mounts =>
          \E k \in DOMAIN list : list[k].target = point
    <3>1. SUFFICES ASSUME point # None, point # Swap, seen[1].mounts = seen[3].mounts
                   PROVE  \E k \in DOMAIN list : list[k].target = point
      OBVIOUS
    <3>a. point \in InUse(seen[1], Path(child)) BY <2>4, <3>1, PointsAreTargets
    <3>2. point \in Mounted(seen[1], Path(child))
      <4> HIDE DEF point, child
      <4> QED BY <3>1, <3>a DEF InUse
    <3>3. PICK a \in DOMAIN seen[3].mounts : seen[3].mounts[a].target = point
      BY <3>1, <3>2 DEF Mounted
    <3> DEFINE n == Cardinality(DOMAIN seen[3].mounts)
               order == Listed(DOMAIN seen[3].mounts)
    <3>4. /\ DOMAIN list = 1 .. n
          /\ \A k \in 1 .. n : list[k].target = seen[3].mounts[order[k]].target
          /\ \E k \in 1 .. n : order[k] = a
      BY <2>4, FindmntsList
    <3> HIDE DEF list, n, order, point
    <3> QED BY <3>3, <3>4
  <2>8. path = DevPath(q.name) BY <2>3
  <2> HIDE DEF child, name, path, facts, list, known, fs, blank, found, last, full, point
  <2> QED BY <2>3, <2>4, <2>5, <2>6, <2>7, <2>8
<1> QED BY <1>1, StorageInvHolds, PTL

\* Nothing of lsblk's and findmnt's is dropped, and nothing is there twice.
LEMMA NothingIsDropped ==
  ASSUME StorageInv, outcome = "topology"
  PROVE  /\ Len(topology.devices) = Len(seen[1].disks)
         /\ Len(topology.mounts) = Cardinality(DOMAIN seen[3].mounts)
         /\ \A i \in DOMAIN seen[1].disks :
              Len(topology.devices[i].partitions) = Len(seen[1].disks[i].children)
<1>1. PICK m \in Machines : m = seen[1] BY ThreeMachines
<1>2. PICK l \in Machines : l = seen[3] BY ThreeMachines
<1> DEFINE facts == ParseBlkid(seen[2])
           mounts == ParseFindmnt(l.mounts)
           devices == topology.devices
           n == Len(m.disks)
<1>3. n \in Nat /\ DOMAIN m.disks = 1 .. n /\ DOMAIN ParseLsblk(m) = 1 .. n
  BY MachinesAreTyped, LenProperties DEF ParseLsblk
<1>4. topology = Merged(ParseLsblk(m), facts, mounts) BY <1>1, <1>2, ThreeMachines
<1> DEFINE New(i) == [ParseLsblk(m)[i] EXCEPT
                        !.mount = WholeMount(ParseLsblk(m)[i], mounts),
                        !.partitions = [j \in DOMAIN ParseLsblk(m)[i].partitions |->
                           WithMount(WithFacts(ParseLsblk(m)[i].partitions[j], facts), mounts)]]
<1>5. devices = [i \in 1 .. n |-> New(i)]
  <2>1. devices = [i \in DOMAIN ParseLsblk(m) |-> New(i)] BY <1>4 DEF Merged
  <2> HIDE DEF New, devices, n
  <2> QED BY <1>3, <2>1
<1>6. Len(devices) = n
  <2> HIDE DEF New, devices, n
  <2>1. devices = [i \in 1 .. n |-> devices[i]] BY <1>5
  <2> QED BY <1>3, <2>1, NumberedIsASequence
<1>7. Len(mounts) = Cardinality(DOMAIN l.mounts)
  <2> DEFINE k == Cardinality(DOMAIN l.mounts)
  <2>1. k \in Nat /\ DOMAIN mounts = 1 .. k BY FindmntsList
  <2>2. mounts = [i \in DOMAIN mounts |-> mounts[i]]
    <3> DEFINE order == Listed(DOMAIN l.mounts)
               Row(i) == [source |-> Source(l.mounts[order[i]]), target |-> l.mounts[order[i]].target,
                          fstype |-> l.mounts[order[i]].fstype, options |-> l.mounts[order[i]].options,
                          parent |-> IF Len(order[i]) = 1 THEN None ELSE l.mounts[Front(order[i])].target]
    <3>1. mounts = [i \in DOMAIN order |-> Row(i)] BY DEF ParseFindmnt
    <3> HIDE DEF mounts, Row, order
    <3> QED BY <3>1
  <2> HIDE DEF mounts, k
  <2>3. Len(mounts) = k BY <2>1, <2>2, NumberedIsASequence
  <2> QED BY <2>3 DEF k
<1>8. topology.mounts = mounts BY <1>2, ThreeMachines
<1>9. ASSUME NEW i \in DOMAIN m.disks
      PROVE  Len(devices[i].partitions) = Len(m.disks[i].children)
  <2> DEFINE parts == devices[i].partitions
             c == m.disks[i].children
             k == Len(c)
             old == ParseLsblk(m)[i].partitions
             Part(j) == WithMount(WithFacts(old[j], facts), mounts)
  <2>1. k \in Nat /\ DOMAIN c = 1 .. k
    <3>1. c \in Seq(ToSet(c)) BY MachinesAreTyped
    <3> QED BY <3>1, LenProperties
  <2>2. parts = [j \in DOMAIN old |-> Part(j)]
    <3> DEFINE dev == ParseLsblk(m)[i]
               at == WholeMount(dev, mounts)
               those == [j \in DOMAIN old |-> Part(j)]
    <3>1. dev = ParseDevice(m, m.disks[i]) BY <1>3 DEF ParseLsblk
    <3>2. dev = [name |-> dev.name, type |-> dev.type, removable |-> dev.removable,
                 readOnly |-> dev.readOnly, mount |-> dev.mount, partitions |-> dev.partitions]
      <4> HIDE DEF dev
      <4> QED BY <3>1 DEF ParseDevice
    <3>3. devices[i] = [dev EXCEPT !.mount = at, !.partitions = those]
      <4>1. i \in 1 .. n BY <1>3
      <4>2. devices[i] = New(i)
        <5> HIDE DEF New, devices, n
        <5> QED BY <1>5, <4>1
      <4> QED BY <4>2
    <3> HIDE DEF dev, at, those, devices
    <3>4. parts = those BY <3>2, <3>3
    <3> QED BY <3>4 DEF those
  <2>3. DOMAIN parts = DOMAIN c BY <1>1, PartitionsHaveAPlace
  <2>4. parts = [j \in 1 .. k |-> parts[j]]
    <3> HIDE DEF parts, Part, c, k, old
    <3> QED BY <2>1, <2>2, <2>3
  <2> HIDE DEF parts, k
  <2>5. Len(parts) = k BY <2>1, <2>4, NumberedIsASequence
  <2> QED BY <2>5 DEF parts, k
<1> QED BY <1>1, <1>2, <1>6, <1>7, <1>8, <1>9

\* QuietReadIsTrue: if nothing changes during the read, the topology is the
\* machine as far as it goes: every disk and what is right below it by its name,
\* in order; the file system and the partuuid of whatever has its node in /dev, and
\* none for what the device mapper has made; and whether each is mounted, or
\* swapped to - though each of the three tools tells but a part of that.
THEOREM AQuietReadIsTheMachine == StorageSpec => []QuietReadIsTrue
<1>1. StorageInv => QuietReadIsTrue
  <2> SUFFICES ASSUME StorageInv, outcome = "topology", seen[1] = seen[2], seen[2] = seen[3]
               PROVE  QuietReadIsTrue
    BY DEF QuietReadIsTrue
  <2>1. PICK m \in Machines : m = seen[1] /\ m = seen[2] /\ m = seen[3] BY ThreeMachines
  <2>2. /\ Len(topology.devices) = Len(m.disks)
        /\ Len(topology.mounts) = Cardinality(DOMAIN m.mounts)
        /\ \A i \in DOMAIN m.disks :
             Len(topology.devices[i].partitions) = Len(m.disks[i].children)
    BY <2>1, NothingIsDropped
  <2>3. \A i \in DOMAIN m.disks : DOMAIN topology.devices[i].partitions = DOMAIN m.disks[i].children
    BY <2>1, PartitionsHaveAPlace
  <2>4. ASSUME NEW i \in DOMAIN m.disks, NEW j \in DOMAIN m.disks[i].children
        PROVE  LET p == topology.devices[i].partitions[j]
                   child == m.disks[i].children[j]
                   there == child.node = "dev"
               IN /\ p.name = child.name
                  /\ p.partuuid = IF there THEN child.partuuid ELSE None
                  /\ (p.filesystem = None) = ~ (there /\ child.fs # None)
                  /\ (p.mount = None) = (InUse(m, Path(child)) = {})
    <3> DEFINE p == topology.devices[i].partitions[j]
               child == m.disks[i].children[j]
               name == child.name
               path == DevPath(name)
               there == child.node = "dev"
               facts == ParseBlkid(m)
               list == ParseFindmnt(m.mounts)
               known == path \in DOMAIN facts
               fs == facts[path].fs
               id == facts[path].partuuid
               blank == [fs |-> fs, mount |-> None, options |-> None]
               found == MountsOf(list, name) # {}
               last == LastMount(list, name)
               full == [fs |-> fs, mount |-> last.target, options |-> last.options]
               point == FirstPoint(Points(m, Path(child)))
    <3>1. /\ p.name = name
          /\ p.partuuid = IF known THEN id ELSE None
          /\ p.filesystem = IF known /\ fs # None /\ blank # None
                            THEN IF found THEN full ELSE blank ELSE None
          /\ p.mount = IF found THEN last.target ELSE point
      <4>1. topology = Merged(ParseLsblk(m), facts, list) BY <2>1, ThreeMachines
      <4>2. Said(p, m, child, facts, list)
        <5> HIDE DEF facts, list
        <5> QED BY <4>1, WhatAMergeSays
      <4> QED BY <4>2 DEF Said
    <3>2. child \in Devices(m) /\ child.node \in {"dev", "mapper"}
      BY ChildrenHaveAPlace, MachinesAreTyped
    <3>3. known => there /\ fs = child.fs /\ id = child.partuuid
      <4> SUFFICES ASSUME known
                   PROVE  there /\ fs = child.fs /\ id = child.partuuid
        OBVIOUS
      <4>1. PICK q \in Places(m) : Path(At(m, q)) = path /\ fs = At(m, q).fs /\ id = At(m, q).partuuid
        BY BlkidsFacts
      <4> DEFINE d == At(m, q)
      <4>2. d \in Devices(m) BY DEF Devices
      <4> HIDE DEF child, fs, id, d
      <4>3. d.name = child.name /\ d.node = "dev" BY <4>1 DEF Path, DevPath, d
      <4>4. child.node = d.node /\ child.fs = d.fs /\ child.partuuid = d.partuuid
        BY <3>2, <4>2, <4>3, MachinesAreTyped
      <4> QED BY <4>1, <4>3, <4>4 DEF d
    <3>4. there /\ ~ known => child.fs = None /\ child.partuuid = None
      <4>1. <<i, j>> \in Places(m) /\ At(m, <<i, j>>) = child BY ChildrenHaveAPlace
      <4>2. HasEntry(child) => Path(child) \in DOMAIN facts
        <5>1. HasEntry(At(m, <<i, j>>)) => Path(At(m, <<i, j>>)) \in DOMAIN facts BY <4>1, BlkidsFacts
        <5> HIDE DEF facts, child
        <5> QED BY <4>1, <5>1
      <4>3. there => Path(child) = path BY DEF Path, DevPath
      <4> HIDE DEF facts, child, path
      <4> QED BY <4>2, <4>3 DEF HasEntry
    <3>5. found => /\ last.target \in Mounted(m, path)
                   /\ \E a \in DOMAIN m.mounts : m.mounts[a].device = path
                   /\ \E a \in DOMAIN m.mounts :
                        last.target = m.mounts[a].target /\ last.options = m.mounts[a].options
      <4> HIDE DEF name
      <4> QED BY TheMountFound
    <3>6. /\ blank # None \/ ~ known
          /\ found /\ known => full # None
      <4>1. None # [fs |-> child.fs, mount |-> None, options |-> None] BY <3>2, NoneIsNoFileSystem
      <4>2. \A a \in DOMAIN m.mounts :
              None # [fs |-> child.fs, mount |-> m.mounts[a].target, options |-> m.mounts[a].options]
        BY <3>2, NoneIsNoFileSystem
      <4> HIDE DEF child, fs, last, found, known
      <4> QED BY <3>3, <3>5, <4>1, <4>2
    <3>7. found => there /\ Path(child) = path
      <4>1. found => there
        <5>1. \A a \in DOMAIN m.mounts : m.mounts[a].device = <<"dev", child.name>> => there
          BY <3>2, MachinesAreTyped
        <5> HIDE DEF child, found, last
        <5> QED BY <3>5, <5>1 DEF DevPath
      <4> HIDE DEF child, found
      <4> QED BY <4>1 DEF Path, DevPath
    <3>8. found => last.target # None /\ InUse(m, Path(child)) # {}
      <4>1. \A a \in DOMAIN m.mounts : m.mounts[a].target # None BY MachinesAreTyped DEF MountTable
      <4> HIDE DEF last, found, child, path
      <4> QED BY <3>5, <3>7, <4>1 DEF InUse
    <3>9. /\ point # None => point \in InUse(m, Path(child))
          /\ point = None => InUse(m, Path(child)) = {}
      BY PointsAreTargets
    <3> DEFINE use == InUse(m, Path(child))
    <3> HIDE DEF p, name, path, facts, list, known, fs, id, blank, found, last, full, point, use, child
    <3>10. p.partuuid = (IF there THEN child.partuuid ELSE None) BY <3>1, <3>3, <3>4
    <3>11. p.filesystem = None <=> ~ (there /\ child.fs # None) BY <3>1, <3>3, <3>4, <3>6
    <3>12. p.mount = None <=> use = {} BY <3>1, <3>8, <3>9 DEF use
    <3> QED BY <3>1, <3>10, <3>11, <3>12 DEF p, child, use, name
  <2>5. \A i \in DOMAIN m.disks :
          LET parts == topology.devices[i].partitions
          IN /\ Len(parts) = Len(m.disks[i].children)
             /\ \A j \in DOMAIN parts :
                  LET child == m.disks[i].children[j]
                      there == child.node = "dev"
                  IN /\ parts[j].name = child.name
                     /\ parts[j].partuuid = IF there THEN child.partuuid ELSE None
                     /\ (parts[j].filesystem = None) = ~ (there /\ child.fs # None)
                     /\ (parts[j].mount = None) = (InUse(m, Path(child)) = {})
    BY <2>2, <2>3, <2>4
  <2>6. m = seen[1] BY <2>1
  <2> QED BY <2>2, <2>5, <2>6 DEF QuietReadIsTrue
<1> QED BY <1>1, StorageInvHolds, PTL
=============================================================================
