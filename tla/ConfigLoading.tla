---------------------------- MODULE ConfigLoading ----------------------------
(***************************************************************************)
(* bcs validate and bcs version, from the finding of a ClassroomConfig to  *)
(* the exit status: ConfigLoader.resolve_path() and load_raw(), the        *)
(* overrides of the environment and of --set, the schema and the semantic  *)
(* rules, the report of every file.                                        *)
(*                                                                         *)
(* The files belong to the whole machine: between any two steps somebody   *)
(* may replace, add or remove one.                                         *)
(*                                                                         *)
(* Simplifications: what a file holds is one of a few texts; keys are the  *)
(* aliases of config/schema.yaml, not the Python names that pydantic takes *)
(* as well; two keys of one map never differ in case only.                 *)
(***************************************************************************)
EXTENDS ConfigRules

CONSTANTS
  Files,       \* the files that anyone talks about
  Texts,       \* what may be in them
  Parsed,      \* per text the document it holds
  Scenes,      \* how the files may stand and how bcs is called then: [disk, call]
  Plain,       \* every override value in lower case and without spaces around it
  Numerals,    \* the override values that are integers
  Decimals,    \* the override values that are floats and no integers
  Folded,      \* every key in lower case
  Edits,       \* what others may do to the files: <<file, text or "absent">>
  NoFile       \* no path given

Commands == {"validate", "version"}
Unparsed == {"undecodable", "impossible", "broken", "scalar", "locked"}

\* A path is given by its keys; <<>> stands for an item without "=" or path.
Override == [path : Seq(STRING), raw : STRING]

\* The files that are looked for when none is named
DefaultFiles == {"bcs.yaml", "classroom.yaml"}

ASSUME TextsAreTyped ==
  \A t \in Texts :
    t \in Unparsed \/ (IsDocument(Parsed[t]) /\ DOMAIN Parsed[t] \subseteq Seq(STRING))
ASSUME NumeralsAreNoWords ==
  /\ \A raw \in Numerals \union Decimals : Plain[raw] \notin {"true", "false", "null", "none", "~"}
  /\ Numerals \intersect Decimals = {}
ASSUME DefaultsAreFiles == DefaultFiles \subseteq Files
Calls == {s.call : s \in Scenes}

ASSUME DisksAreTyped == \A s \in Scenes : s.disk \in [Files -> Texts \union {"absent"}]
ASSUME CallsAreTyped ==
  \A c \in Calls :
    /\ c.command \in Commands /\ c.strict \in BOOLEAN
    /\ c.files \in Seq(Files)
    /\ {c.config, c.preference, c.variable} \subseteq Files \union {NoFile}
    /\ c.env \in Seq(Override) /\ c.sets \in Seq(Override)
    /\ \A o \in ToSet(c.env) \union ToSet(c.sets) : ToSet(o.path) \intersect NonText = {}
    /\ c.edits \in Nat   \* bound: changes of files during the call
ASSUME EditsAreTyped == Edits \subseteq Files \X (Texts \union {"absent"})
ASSUME NoFileIsNone == NoFile \notin Files

VARIABLES
  disk,        \* what each file holds
  changes,     \* how often that changed
  call,        \* the invocation: flags, preferences, environment
  pc,          \* "start", "given", "variable", "first", "second", "choose",
               \* "read", "override", "done"
  found,       \* resolve_path: the default files that were there
  targets,     \* the files still to do
  seen,        \* the files that were read, with what was in them
  document,    \* the document being worked on, <<>> |-> Map before
  ahead,       \* the overrides not yet applied
  applied,     \* the overrides that were, with the paths they went to
  reports,     \* the ValidationReports so far
  loaded,      \* version: "none", "incompatible", "compatible"
  status       \* the exit status, -1 while the process runs

vars == <<disk, changes, call, pc, found, targets, seen, document, ahead, applied, reports,
          loaded, status>>

-----------------------------------------------------------------------------
(* Values and paths *)

\* _coerce_scalar: what is none of these stays as it is, spaces and all.
Coerced(raw) ==
  CASE Plain[raw] \in {"true", "false"}      -> Val("bool", Plain[raw])
    [] Plain[raw] \in {"null", "none", "~"}  -> Null
    [] raw \in Numerals                      -> Val("int", raw)
    [] raw \in Decimals                      -> Val("float", raw)
    [] OTHER                                 -> Val("str", raw)

Blank == [p \in {<<>>} |-> Map]

Below(doc, path) == {p \in DOMAIN doc : IsPrefix(path, p)}

\* set_by_path may go through a map, a null or nothing at all.
CanSet(doc, path) ==
  /\ path # <<>>
  /\ \A p \in DOMAIN doc : IsStrictPrefix(p, path) => doc[p].kind \in {"map", "null"}

\* What is below the path goes; maps are made on the way to it.
MutantSetByPath(doc, path, value) ==
  LET way == {SubSeq(path, 1, i) : i \in 0 .. Len(path) - 1}
  IN path :> value @@ [p \in way |-> Map] @@ doc

SetByPath(doc, path, value) ==
  LET way == {SubSeq(path, 1, i) : i \in 0 .. Len(path) - 1}
  IN [p \in {path} \union way \union (DOMAIN doc \ Below(doc, path)) |->
        IF p = path THEN value ELSE IF p \in way THEN Map ELSE doc[p]]

EnvPath(doc, segments) ==
  LET same == {p \in DOMAIN doc :
                 Len(p) <= Len(segments)
                 /\ \A i \in DOMAIN p : p[i] \notin NonText /\ Folded[p[i]] = segments[i]}
      longest == CHOOSE p \in same : \A q \in same : Len(q) <= Len(p)
  IN longest \o SubSeq(segments, Len(longest) + 1, Len(segments))

\* _find_actual_key asks every key for upper(), which a key that is no string
\* has not: AttributeError, unless the right key comes first in the file.
Odd(doc, segments) ==
  LET strange == {Front(p) : p \in {q \in DOMAIN doc \ {<<>>} : Last(q) \in NonText}}
  IN {i \in 0 .. Len(segments) - 1 : \E p \in strange : p = SubSeq(EnvPath(doc, segments), 1, i)}

MayTrip(doc, segments) == Odd(doc, segments) # {}
MustTrip(doc, segments) ==
  \E i \in Odd(doc, segments) : SubSeq(EnvPath(doc, segments), 1, i + 1) \notin DOMAIN doc

-----------------------------------------------------------------------------
Init ==
  /\ \E s \in Scenes : disk = s.disk /\ call = s.call
  /\ changes = 0
  /\ pc = "start"
  /\ found = {} /\ targets = <<>> /\ seen = <<>>
  /\ document = Blank /\ ahead = <<>> /\ applied = <<>>
  /\ reports = <<>> /\ loaded = "none" /\ status = -1

unread == <<document, ahead, applied, reports, loaded>>

Exit(code) == pc' = "done" /\ status' = code
GoTo(step) == pc' = step /\ UNCHANGED status

Exists(f) == disk[f] # "absent"

\* Somebody else edits, adds or removes a file.
ChangeFile ==
  /\ pc # "done"
  /\ changes < call.edits
  /\ \E e \in Edits : disk[e[1]] # e[2] /\ disk' = [disk EXCEPT ![e[1]] = e[2]]
  /\ changes' = changes + 1
  /\ UNCHANGED <<call, pc, found, targets, seen, unread, status>>

-----------------------------------------------------------------------------
(* resolve_path *)

Start ==
  /\ pc = "start"
  /\ targets' = call.files
  /\ GoTo(IF call.files = <<>> THEN "given" ELSE "read")
  /\ UNCHANGED <<disk, changes, call, found, seen, unread>>

\* A UsageError, which version takes for "no config".
Unresolved ==
  /\ Exit(IF call.command = "version" THEN 0 ELSE 2)
  /\ UNCHANGED targets

Take(f) == targets' = <<f>> /\ GoTo("read")

\* The preference first
MutantGiven == IF call.preference # NoFile THEN call.preference ELSE call.config

\* explicit_path: app.main hands the loader --config or else the preference.
Given == IF call.config # NoFile THEN call.config ELSE call.preference

ResolveGiven ==
  /\ pc = "given"
  /\ \/ Given = NoFile /\ GoTo("variable") /\ UNCHANGED targets
     \/ Given # NoFile /\ Exists(Given) /\ Take(Given)
     \/ Given # NoFile /\ ~Exists(Given) /\ Unresolved
  /\ UNCHANGED <<disk, changes, call, found, seen, unread>>

ResolveVariable ==
  /\ pc = "variable"
  /\ \/ call.variable = NoFile /\ GoTo("first") /\ UNCHANGED targets
     \/ call.variable # NoFile /\ Exists(call.variable) /\ Take(call.variable)
     \/ call.variable # NoFile /\ ~Exists(call.variable) /\ Unresolved
  /\ UNCHANGED <<disk, changes, call, found, seen, unread>>

\* is_file() is asked of one default file after the other.
Probe(f) == found' = IF Exists(f) THEN found \union {f} ELSE found

ProbeFirst ==
  /\ pc = "first"
  /\ Probe("bcs.yaml")
  /\ GoTo("second")
  /\ UNCHANGED <<disk, changes, call, targets, seen, unread>>

ProbeSecond ==
  /\ pc = "second"
  /\ Probe("classroom.yaml")
  /\ GoTo("choose")
  /\ UNCHANGED <<disk, changes, call, targets, seen, unread>>

Choose ==
  /\ pc = "choose"
  /\ \/ \E f \in found : found = {f} /\ Take(f)
     \/ Cardinality(found) # 1 /\ Unresolved
  /\ UNCHANGED <<disk, changes, call, found, seen, unread>>

-----------------------------------------------------------------------------
(* validate_document and run_validate; load and run_version *)

Report(errors, warnings) ==
  [file |-> Head(targets), errors |-> errors, warnings |-> warnings]

\* --strict forgotten
MutantIsOk(report) == report.errors = {}

IsOk(report) == report.errors = {} /\ ~(call.strict /\ report.warnings # {})

\* The verdict on one file, and the exit after the last one (version never looks
\* at the semantic rules, and does not fail)
Deliver(errors, warnings) ==
  IF call.command = "version"
  THEN /\ loaded' = IF errors = {} THEN "compatible" ELSE "incompatible"
       /\ Exit(0)
       /\ UNCHANGED <<targets, reports>>
  ELSE /\ reports' = Append(reports, Report(errors, warnings))
       /\ targets' = Tail(targets)
       /\ IF Len(targets) > 1 THEN GoTo("read")
          ELSE Exit(IF \A i \in DOMAIN reports' : IsOk(reports'[i]) THEN 0 ELSE 3)
       /\ UNCHANGED loaded

Text == disk[Head(targets)]

Look == pc = "read" /\ seen' = Append(seen, [file |-> Head(targets), text |-> Text])

\* No such file any more, not allowed, not YAML, not a mapping
ReadFails ==
  /\ Look
  /\ Text \in {"absent", "locked", "broken", "scalar"}
  /\ Deliver({Finding("schema", <<>>)}, {})
  /\ UNCHANGED <<disk, changes, call, found, document, ahead, applied>>

\* UnicodeDecodeError is no OSError, and the ValueError that yaml.safe_load has
\* for a date that does not exist is no YAMLError.
ReadTrips ==
  /\ Look
  /\ Text \in {"undecodable", "impossible"}
  /\ Exit(1)
  /\ UNCHANGED <<disk, changes, call, found, targets, unread>>

\* The overrides are used up by the first file.
MutantRead ==
  /\ Look
  /\ Text \notin Unparsed \union {"absent"}
  /\ document' = Parsed[Text]
  /\ ahead' = IF reports = <<>> THEN call.env \o call.sets ELSE <<>>
  /\ applied' = <<>>
  /\ GoTo("override")
  /\ UNCHANGED <<disk, changes, call, found, targets, reports, loaded>>

Read ==
  /\ Look
  /\ Text \notin Unparsed \union {"absent"}
  /\ document' = Parsed[Text]
  /\ ahead' = call.env \o call.sets
  /\ applied' = <<>>
  /\ GoTo("override")
  /\ UNCHANGED <<disk, changes, call, found, targets, reports, loaded>>

FromEnvironment == Len(ahead) > Len(call.sets)

PathOf(override) ==
  IF FromEnvironment THEN EnvPath(document, override.path) ELSE override.path

ApplyOverride ==
  /\ pc = "override" /\ ahead # <<>>
  /\ ~(FromEnvironment /\ MustTrip(document, Head(ahead).path))
  /\ \E path \in {PathOf(Head(ahead))}, value \in {Coerced(Head(ahead).raw)} :
       /\ CanSet(document, path)
       /\ document' \in {SetByPath(document, path, value)}
       /\ applied' = Append(applied, [path |-> path, value |-> value])
  /\ ahead' = Tail(ahead)
  /\ UNCHANGED <<disk, changes, call, pc, found, targets, seen, reports, loaded, status>>

\* The UsageError leaves validate_document and load, and with it the command.
RefuseOverride ==
  /\ pc = "override" /\ ahead # <<>>
  /\ ~(FromEnvironment /\ MustTrip(document, Head(ahead).path))
  /\ ~CanSet(document, PathOf(Head(ahead)))
  /\ Exit(2)
  /\ UNCHANGED <<disk, changes, call, found, targets, seen, unread>>

TripOverOverride ==
  /\ pc = "override" /\ ahead # <<>>
  /\ FromEnvironment /\ MayTrip(document, Head(ahead).path)
  /\ Exit(1)
  /\ UNCHANGED <<disk, changes, call, found, targets, seen, unread>>

Validate ==
  /\ pc = "override" /\ ahead = <<>>
  /\ ~EnvelopeTrips(document)
  /\ \E errors \in {ParseErrors(document)} :
       IF errors # {} \/ call.command = "version" THEN Deliver(errors, {})
       ELSE Deliver(SemanticErrors(document), SemanticWarnings(document))
  /\ UNCHANGED <<disk, changes, call, found, seen, document, ahead, applied>>

TripOverEnvelope ==
  /\ pc = "override" /\ ahead = <<>>
  /\ EnvelopeTrips(document)
  /\ Exit(1)
  /\ UNCHANGED <<disk, changes, call, found, targets, seen, unread>>

Work ==
  \/ Start \/ ResolveGiven \/ ResolveVariable \/ ProbeFirst \/ ProbeSecond \/ Choose
  \/ ReadFails \/ ReadTrips \/ Read
  \/ ApplyOverride \/ RefuseOverride \/ TripOverOverride \/ Validate \/ TripOverEnvelope

\* The process is gone: the one state in which nothing more has to happen
Gone == pc = "done" /\ UNCHANGED vars

Next == Work \/ ChangeFile \/ Gone

Spec == Init /\ [][Next]_vars

-----------------------------------------------------------------------------
(* What a text comes to under the overrides of the call, in one go *)

AfterOne(state, o, isEnv) ==
  LET path == IF isEnv THEN EnvPath(state.doc, o.path) ELSE o.path
  IN IF state.end # "fine" THEN state
     ELSE IF isEnv /\ MustTrip(state.doc, o.path) THEN [state EXCEPT !.end = "crash"]
     ELSE IF ~CanSet(state.doc, path) THEN [state EXCEPT !.end = "usage"]
     ELSE [state EXCEPT !.doc = SetByPath(state.doc, path, Coerced(o.raw))]

Overridden(text) ==
  LET all == call.env \o call.sets
      after[i \in 0 .. Len(all)] ==
        IF i = 0 THEN [doc |-> Parsed[text], end |-> "fine"]
        ELSE CHOOSE s \in {AfterOne(before, all[i], i <= Len(call.env)) : before \in {after[i - 1]}} : TRUE
  IN after[Len(all)]

Judged(final) ==
  IF final.end # "fine" THEN final.end
  ELSE IF EnvelopeTrips(final.doc) THEN "crash"
  ELSE IF ParseErrors(final.doc) # {} THEN "invalid"
  ELSE IF SemanticErrors(final.doc) # {} THEN "invalid"
  ELSE IF SemanticWarnings(final.doc) # {} THEN "warned" ELSE "valid"

\* "crash", "usage", "invalid", "warned" or "valid"
Outcome(text) ==
  IF text \in {"undecodable", "impossible"} THEN "crash"
  ELSE IF text \in Unparsed \union {"absent"} THEN "invalid" ELSE Judged(Overridden(text))

\* A key that is no string may be asked for upper() before the right one is found.
MayCrash(text) ==
  text \notin Unparsed \union {"absent"} /\ call.env # <<>>
  /\ \E p \in DOMAIN Parsed[text] : p # <<>> /\ Last(p) \in NonText

-----------------------------------------------------------------------------
(* Properties *)

TypeOK ==
  /\ disk \in [Files -> Texts \union {"absent"}] /\ changes \in 0 .. call.edits
  /\ call \in Calls
  /\ pc \in {"start", "given", "variable", "first", "second", "choose", "read", "override", "done"}
  /\ found \subseteq DefaultFiles
  /\ targets \in Seq(Files)
  /\ IsDocument(document)
  /\ loaded \in {"none", "incompatible", "compatible"}
  /\ status \in {-1, 0, 1, 2, 3}

\* set_by_path (overrides.py:53) and the order of load_raw: of the overrides that
\* overlap on a path, the last one applied decides what is there, --set after
\* the environment; where none does, it is what the file says.
LastWins ==
  pc = "override" =>
    LET base  == Parsed[Last(seen).text]
        Touches(i, p) == IsPrefix(applied[i].path, p) \/ IsPrefix(p, applied[i].path)
        Node(doc, p) == IF p \in DOMAIN doc THEN doc[p] ELSE Val("nothing", "")
    IN \A p \in DOMAIN document \union DOMAIN base :
         LET over == {i \in DOMAIN applied : Touches(i, p)}
             last == CHOOSE i \in over : \A j \in over : j <= i
         IN Node(document, p) =
              IF over = {} THEN Node(base, p)
              ELSE IF applied[last].path = p THEN applied[last].value
              ELSE IF IsPrefix(p, applied[last].path) THEN Map ELSE Val("nothing", "")

\* No override is silently ignored (overrides.py:120): a document that passes
\* has had all of them applied, each at a field that the schema knows, an entry
\* of a free map, or an x- key.
NoOverrideIsLost ==
  LET Meant(path) ==
        \A n \in DOMAIN path :
          LET model == FieldAt(SubSeq(path, 1, n - 1))
          IN IsModel(model) =>
               \/ SubSeq(path, 1, n) \in Known
               \/ IsExtensible(model) /\ path[n] \in XKeys
      Finished == pc = "read" \/ (pc = "done" /\ status \in {0, 3})
      Passed == \/ Finished /\ reports # <<>> /\ Last(reports).errors = {}
                \/ loaded = "compatible"
  IN Passed => /\ Len(applied) = Len(call.env) + Len(call.sets)
               /\ \A i \in DOMAIN applied :
                    \/ Meant(applied[i].path)
                    \* a later override threw it out again
                    \/ \E j \in i + 1 .. Len(applied) : IsPrefix(applied[j].path, applied[i].path)

\* run_validate: the verdict on a file depends on what it holds, not on the files
\* that were checked before it.
SameTextSameVerdict ==
  \A i, j \in DOMAIN reports :
    seen[i].text = seen[j].text =>
      reports[i].errors = reports[j].errors /\ reports[i].warnings = reports[j].warnings

\* The status follows from what was read: for validate a mistake in the content is
\* 3 and one in the call 2, for version either is 0.  What the code does not keep
\* of docs/CLI.md:152 (content "is always 3"): over a file that is not UTF-8, a
\* date that does not exist, an apiVersion or kind that is a list or a map, and
\* perhaps over a key that is no string when a variable overrides a value, both
\* commands end with 1.  And version does not "always" exit 0 (version.py:3,
\* docs/CLI.md:526): it ends with 1 over these files, and with 2 if an override is
\* refused, for _loaded_config_info catches no more than ConfigInvalidError.
StatusIsTheVerdict ==
  pc = "done" =>
    IF seen = <<>> THEN status = IF call.command = "version" THEN 0 ELSE 2
    ELSE \E outcome \in {[i \in DOMAIN seen |-> Outcome(seen[i].text)]} :
           LET last == Last(outcome)
           IN IF status = 1 THEN last = "crash" \/ MayCrash(Last(seen).text)
              ELSE IF last = "crash" THEN FALSE
              ELSE IF last = "usage" THEN status = 2
              ELSE IF call.command = "version" THEN status = 0
              ELSE /\ Len(seen) = Len(call.files) \/ call.files = <<>>
                   /\ status = IF \E i \in DOMAIN seen :
                                    outcome[i] = "invalid" \/ (call.strict /\ outcome[i] = "warned")
                               THEN 3 ELSE 0

\* resolve_path never guesses (CLI-008): what was named is what is read; the
\* default files count only if nothing is named, and while nobody touches the
\* directory a default file is read only if it is the only one.
NeverGuess ==
  LET first == seen[1].file
      named == {call.config, call.preference, call.variable} \ {NoFile}
  IN seen # <<>> /\ call.files = <<>> =>
       /\ call.config # NoFile => first = call.config
       /\ first \in named \/ (named = {} /\ first \in DefaultFiles)
       /\ named = {} /\ changes = 0 =>
            {f \in DefaultFiles : Exists(f)} = {first}

\* docs/CLI.md:259: "defaultConfig sits below ./bcs.yaml / ./classroom.yaml" -
\* "it is a fallback [...], not an override of a directory-local file", and line
\* 254: "still overridden by --config/$BCS_CONFIG".
PreferenceIsFallback ==
  seen # <<>> /\ call.files = <<>> /\ call.config = NoFile /\ seen[1].file = call.preference =>
    call.variable \in {NoFile, call.preference} /\ ~Exists("bcs.yaml") /\ ~Exists("classroom.yaml")
=============================================================================
