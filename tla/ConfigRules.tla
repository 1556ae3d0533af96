----------------------------- MODULE ConfigRules -----------------------------
(***************************************************************************)
(* Documents, fields and what validating a document finds: the checks that *)
(* pydantic makes for a table of models (config/models.py, model_utils.py, *)
(* parse_classroom_config of config/loader.py) and the semantic rules      *)
(* (config/validator.py).                                                  *)
(*                                                                         *)
(* A document is a function from paths (sequences of keys) to values; with *)
(* a path it has every prefix of it, and what has keys below it is a map.  *)
(* A list is one value, known by name: no override reaches into it.        *)
(***************************************************************************)
EXTENDS Integers, Sequences, FiniteSets, SequencesExt

CONSTANTS
  Sections,   \* per path where a model stands its fields
  NumberOf,   \* the value of each numeral that occurs and is a whole number
  Truths,     \* the texts that pydantic takes for a Boolean, such as yes or off
  Matching,   \* per pattern the texts that match it
  ListsOf,    \* per type of list the lists (by name) that are of that type
  EmptyLists, \* the lists (by name) without an element
  XKeys,      \* the keys that start with "x-"
  NonText,    \* the keys that are no strings, such as 1 or yes
  Entries,    \* the ids and the locales of the labels in each list of menu entries
  Locales     \* the locales in each list of locales

-----------------------------------------------------------------------------
(* Values *)

Kinds == {"map", "list", "null", "str", "int", "float", "bool", "date"}

Val(kind, text) == [kind |-> kind, text |-> text]
Map == Val("map", "")
Null == Val("null", "")

IsDocument(doc) ==
  /\ <<>> \in DOMAIN doc
  /\ \A p \in DOMAIN doc :
       /\ doc[p].kind \in Kinds
       /\ p # <<>> => Front(p) \in DOMAIN doc /\ doc[Front(p)].kind = "map"

-----------------------------------------------------------------------------
(* Fields: what they hold, and whether they must be there, have a default, *)
(* or may also be null                                                     *)

Field(is, of, least) == [is |-> is, of |-> of, least |-> least, need |-> "default"]

Str == Field("str", {}, 0)
Bool == Field("bool", {}, 0)
AtLeast(n) == Field("int", {}, n)
OneOf(texts) == Field("choice", texts, 0)
Shaped(pattern) == Field("pattern", {pattern}, 0)
ListOf(type) == Field("list", {type}, 0)
DictOf(what) == Field("dict", {what}, 0)
Sub(model) == Field("model", {model}, 0)

Required(field) == [field EXCEPT !.need = "required"]
Optional(field) == [field EXCEPT !.need = "optional"]

IsModel(field) == field.is = "model"

\* The models that take x- keys besides their fields
IsExtensible(field) == IsModel(field) /\ field.of \subseteq {"ClassroomConfig", "ClassroomSpec"}

-----------------------------------------------------------------------------
(* Validating a document *)

Known == {<<>>} \union UNION {{Append(p, k) : k \in DOMAIN Sections[p]} : p \in DOMAIN Sections}
Needed == {p \in Known \ {<<>>} : Sections[Front(p)][Last(p)].need = "required"}

\* The two models that take x- keys are the whole document and its spec.
ASSUME OnlySpecIsExtensible ==
  \A p \in Known \ {<<>>} : IsExtensible(Sections[Front(p)][Last(p)]) => p = <<"spec">>

\* Below an unexpected key anything goes.
FieldAt(path) ==
  IF path = <<>> THEN Sub("ClassroomConfig")
  ELSE IF path \in Known THEN Sections[Front(path)][Last(path)]
  ELSE LET above == IF Front(path) \in Known \ {<<>>}
                    THEN Sections[Front(Front(path))][Last(Front(path))].of ELSE {}
       IN CASE above = {"str"}     -> Str
            [] above = {"strings"} -> ListOf("strings")
            [] OTHER               -> Field("any", {}, 0)

\* What pydantic takes for a field, with its conversions: a numeral in quotes is
\* an integer, and so are 1.0 and TRUE; "yes", 1 and 1.0 are TRUE.  But a number is
\* never a string, and nor is a date, which YAML makes of 2026-07-01 without quotes.
Fits(field, value) ==
  \/ field.is = "any"
  \/ value.kind = "null" /\ field.need = "optional"
  \/ value.kind = "map" /\ (IsModel(field) \/ field.is = "dict")
  \/ value.kind = "list" /\ field.is = "list" /\ \A type \in field.of : value.text \in ListsOf[type]
  \/ value.kind = "str" /\
       \/ field.is = "str"
       \/ field.is = "choice" /\ value.text \in field.of
       \/ field.is = "pattern" /\ \A pattern \in field.of : value.text \in Matching[pattern]
       \/ field.is = "bool" /\ value.text \in Truths
  \/ value.kind = "bool" /\
       \/ field.is = "bool"
       \/ field.is = "false" /\ value.text = "false"
       \/ field.is = "int" /\ field.least <= (IF value.text = "true" THEN 1 ELSE 0)
  \/ value.kind \in {"int", "float", "str"} /\ value.text \in DOMAIN NumberOf /\
       \/ field.is = "int" /\ NumberOf[value.text] >= field.least
       \/ field.is = "bool" /\ value.kind # "str" /\ NumberOf[value.text] \in {0, 1}

\* Keys that are no field of the model they stand in
Unexpected(doc) ==
  {p \in DOMAIN doc \ Known :
     LET model == FieldAt(Front(p))
     IN IsModel(model) /\ ~(IsExtensible(model) /\ Last(p) \in XKeys)}

Missing(doc) ==
  {p \in Needed \ DOMAIN doc : Front(p) \in DOMAIN doc /\ doc[Front(p)].kind = "map"}

Misfits(doc) ==
  {p \in DOMAIN doc : \E field \in {FieldAt(p)}, value \in {doc[p]} : ~Fits(field, value)}

\* Keys of a dict[str, ...] that are no strings
Misnamed(doc) == {p \in DOMAIN doc \ {<<>>} : FieldAt(Front(p)).is = "dict" /\ Last(p) \in NonText}

\* ExtensibleModel looks for unexpected keys only once all of its fields are
\* good, and reports them as one error of the model.
Late(doc) == {p \in Unexpected(doc) : IsExtensible(FieldAt(Front(p))) /\ Last(p) \notin NonText}
Early(doc) ==
  Missing(doc) \union Misfits(doc) \union Misnamed(doc) \union (Unexpected(doc) \ Late(doc))

\* Only the fields are looked at
MutantSchemaErrors(doc) == Early(doc)

SchemaErrors(doc) ==
  LET early == Early(doc)
      spec  == {<<"spec">> : p \in {q \in Late(doc) : Len(q) = 2 /\ ~\E e \in early : e[1] = "spec"}}
      root  == {<<>> : p \in {q \in Late(doc) : Len(q) = 1 /\ early \union spec = {}}}
  IN early \union spec \union root

\* The envelope comes first; the first thing wrong with it is all there is.
IsRecognized(doc, key) == <<key>> \in DOMAIN doc /\ Fits(FieldAt(<<key>>), doc[<<key>>])

Envelope(doc) ==
  IF ~IsRecognized(doc, "apiVersion") THEN {<<"apiVersion">>}
  ELSE IF ~IsRecognized(doc, "kind") THEN {<<"kind">>} ELSE {}

\* A map or a list cannot be looked up in a set: TypeError.
EnvelopeTrips(doc) ==
  LET Unhashable(key) == <<key>> \in DOMAIN doc /\ doc[<<key>>].kind \in {"map", "list"}
  IN Unhashable("apiVersion") \/ (IsRecognized(doc, "apiVersion") /\ Unhashable("kind"))

Finding(rule, path) == [rule |-> rule, path |-> path]

\* parse_classroom_config
ParseErrors(doc) ==
  {Finding("schema", p) : p \in IF Envelope(doc) # {} THEN Envelope(doc) ELSE SchemaErrors(doc)}

-----------------------------------------------------------------------------
(* Semantic rules, for a document that has passed the schema *)

ValueAt(doc, path, default) == IF path \in DOMAIN doc THEN doc[path].text ELSE default

MenuPath == <<"spec", "bootManager", "menu">>

SemanticErrors(doc) ==
  LET menu    == Entries[doc[Append(MenuPath, "entries")].text]
      allowed == Locales[ValueAt(doc, <<"spec", "localization", "supportedLocales">>, "default")]
  IN {Finding("label-locale-coverage", Append(MenuPath, l)) : l \in menu.locales \ allowed}
     \union {Finding("default-entry-exists", Append(MenuPath, "defaultEntry")) :
               d \in {doc[Append(MenuPath, "defaultEntry")].text} \ menu.ids}

\* The lists of a document that have an element
FilledLists(doc) == {p \in DOMAIN doc : doc[p].kind = "list" /\ doc[p].text \notin EmptyLists}

SemanticWarnings(doc) ==
  LET Checksum(path) == ValueAt(doc, Append(path, "checksumAlgorithm"), "sha256")
      addressing == <<"spec", "network", "addressing">>
  IN {Finding("checksum-algorithm-match", <<>>) :
        a \in {Checksum(<<"spec", "deploy", "verification">>)}
              \ {Checksum(<<"spec", "builder", "provenance">>)}}
     \union {Finding("static-assignments-present", <<>>) :
               a \in {a \in {Append(addressing, "staticAssignments")} \ FilledLists(doc) :
                       ValueAt(doc, Append(addressing, "mode"), "dhcp") = "static"}}
=============================================================================
