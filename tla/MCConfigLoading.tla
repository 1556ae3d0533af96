--------------------------- MODULE MCConfigLoading ---------------------------
(* Instances of ConfigLoading small enough for TLC. *)
EXTENDS ConfigLoading, ConfigSchema

AllFiles == {"a", "b", "bcs.yaml", "classroom.yaml"}

Text1(t) == Val("str", t)
List(name) == Val("list", name)

BuilderPath == <<"spec", "builder">>

\* The smallest document that is valid: everything that has no default
Minimal ==
  [p \in {<<>>, <<"metadata">>, <<"spec">>, <<"spec", "project">>, <<"spec", "bootManager">>,
          MenuPath, BuilderPath, BuilderPath \o <<"baseImage">>, BuilderPath \o <<"partitioning">>,
          <<"spec", "packages">>, <<"spec", "deploy">>, <<"spec", "network">>,
          <<"spec", "localization">>, <<"spec", "security">>} |-> Map] @@
  <<"apiVersion">> :> Text1("bcs/v1alpha1") @@
  <<"kind">> :> Text1("ClassroomConfig") @@
  <<"metadata", "name">> :> Text1("aula-201") @@
  <<"spec", "project", "displayName">> :> Text1("x") @@
  <<"spec", "project", "centre">> :> Text1("x") @@
  Append(MenuPath, "defaultEntry") :> Text1("os") @@
  Append(MenuPath, "entries") :> List("two entries") @@
  (BuilderPath \o <<"baseImage", "distro">>) :> Text1("lliurex") @@
  (BuilderPath \o <<"baseImage", "baseDistribution">>) :> Text1("ubuntu") @@
  <<"spec", "packages", "base">> :> List("packages")

\* Fields with a default written out, a checksum that does not match the other,
\* a section set to null
Spelled ==
  Minimal @@
  [p \in {<<"spec", "security", "secureBoot">>, <<"spec", "deploy", "verification">>} |-> Map] @@
  <<"spec", "security", "secureBoot", "mode">> :> Text1("enforce") @@
  <<"spec", "deploy", "verification", "checksumAlgorithm">> :> Text1("sha512") @@
  <<"spec", "branding">> :> Null

\* Wrong in several places: a null that is not allowed, an unknown key, no name
Faulty ==
  (<<"spec", "network">> :> Null @@ <<"spec", "tpyo">> :> Text1("x") @@
   [p \in DOMAIN Minimal \ {<<"metadata", "name">>} |-> Minimal[p]])

\* Good but for the semantic rules
Askew ==
  Append(MenuPath, "defaultEntry") :> Text1("x") @@ Append(MenuPath, "entries") :> List("english") @@
  <<"spec", "network", "addressing">> :> Map @@
  <<"spec", "network", "addressing", "mode">> :> Text1("static") @@ Minimal

WithNumber == Minimal @@ <<"spec", "1">> :> Text1("x")

\* A label whose key is a number
Labelled == <<"metadata", "labels">> :> Map @@ <<"metadata", "labels", "1">> :> Text1("x") @@ Minimal

\* A Boolean in quotes, a float that is a whole number and a date without quotes
Lax ==
  <<"spec", "bootManager", "enabled">> :> Text1("yes") @@
  (MenuPath \o <<"timeoutSeconds">>) :> Val("float", "1.0") @@ Minimal
Dated == (BuilderPath \o <<"baseImage", "pinnedSnapshot">>) :> Val("date", "2026-07-01") @@ Lax

WithList == <<"apiVersion">> :> List("packages") @@ Minimal

\* No override can go through its security section.
Tied == <<"spec", "security">> :> List("packages") @@ Minimal

Contents ==
  [plain |-> Minimal, spelled |-> Spelled, faulty |-> Faulty, askew |-> Askew,
   number |-> WithNumber, list |-> WithList, tied |-> Tied, labelled |-> Labelled, lax |-> Lax,
   dated |-> Dated]

AllTexts == DOMAIN Contents \union Unparsed

NumbersOf == ("0" :> 0) @@ ("1" :> 1) @@ ("23" :> 23) @@ ("1.0" :> 1)
Patterns == [slug |-> {"aula-201"}, year |-> {}, colour |-> {}, date |-> {"2026-07-01"}]
ListTypes ==
  [entries |-> {"two entries", "english"}, packages |-> {"packages"}, strings |-> {"packages"},
   repositories |-> {}, accounts |-> {}, assignments |-> {}, locales |-> {}]
MenuEntries ==
  ("two entries" :> [ids |-> {"os", "recovery"}, locales |-> {"ca_ES", "es_ES"}]) @@
  ("english" :> [ids |-> {"os"}, locales |-> {"en_US"}])
LocaleLists == "default" :> {"ca_ES", "es_ES"}
Exts == {"x-lab"}
NoStrings == {"1"}

\* ------------------------------------------------------------------ overrides
Set(path, raw) == [path |-> path, raw |-> raw]

FromEnv ==
  {Set(<<"spec", "security", "secureboot", "mode">>, "disabled"),
   Set(<<"spec", "deploy", "verification", "checksumalgorithm">>, "sha256"),
   Set(<<"spec", "security">>, "null"),
   Set(Append([MenuPath EXCEPT ![2] = "bootmanager"], "entries") \o <<"0">>, "x"),
   Set(<<"spec", "bootmanager", "enabled">>, " No")}

FromSet ==
  {Set(<<"spec", "security", "secureBoot", "mode">>, "permissive"),
   Set(<<"spec", "security", "credentials", "embedSharedCredentials">>, " True"),
   Set(Append(MenuPath, "timeoutSeconds"), "0.5"),
   Set(BuilderPath \o <<"baseImage", "distroVersion">>, "23"),
   Set(<<"spec", "branding", "logo">>, "x"),
   Set(<<"spec", "project">>, "x"),
   Set(<<"spec", "tpyo">>, "x"),
   Set(<<"spec", "x-lab">>, "1"),
   Set(<<"metadata", "name", "x">>, "1"),
   Set(<<>>, "")}

AllKeys ==
  UNION {ToSet(p) : p \in UNION {DOMAIN Contents[t] : t \in DOMAIN Contents}} \union
  UNION {ToSet(o.path) : o \in FromEnv \union FromSet}

LowerCase ==
  [secureBoot |-> "secureboot", bootManager |-> "bootmanager", checksumAlgorithm |-> "checksumalgorithm",
   apiVersion |-> "apiversion", displayName |-> "displayname", defaultEntry |-> "defaultentry",
   baseImage |-> "baseimage", baseDistribution |-> "basedistribution",
   distroVersion |-> "distroversion",
   embedSharedCredentials |-> "embedsharedcredentials"]
LowerCaseAll == LowerCase @@ [k \in AllKeys |-> k]

PlainValues == (" True" :> "true" @@ " No" :> "no") @@ 
  [r \in {o.raw : o \in FromEnv \union FromSet} \union DOMAIN NumbersOf |-> r]

\* -------------------------------------------------------------------- calls
Call(command, files, strict, config, preference, variable, env, sets, edits) ==
  [command |-> command, files |-> files, strict |-> strict, config |-> config,
   preference |-> preference, variable |-> variable, env |-> env, sets |-> sets, edits |-> edits]

\* One file and up to an override from either side
Overriding ==
  {Call(c, <<>>, FALSE, "a", NoFile, NoFile, e, s, 0) :
     c \in Commands, e \in BoundedSeq(FromEnv, 1), s \in BoundedSeq(FromSet, 1)}

\* Two from one side, which may overlap
Overlapping ==
  {Call("validate", <<>>, FALSE, "a", NoFile, NoFile, e, s, 0) :
     e \in TupleOf(FromEnv, 2), s \in BoundedSeq({o \in FromSet : Len(o.path) > 2}, 1)}
  \union
  {Call("validate", <<>>, FALSE, "a", NoFile, NoFile, <<>>, s, 0) : s \in TupleOf(FromSet, 2)}

\* Several files, one of them perhaps twice, while somebody edits them
SeveralFiles ==
  {Call("validate", f, s, NoFile, NoFile, NoFile, e, <<>>, 1) :
     f \in {<<"a", "b">>, <<"b", "a", "b">>}, s \in BOOLEAN, e \in BoundedSeq(FromEnv, 1)}

\* No file named on the command line of validate or version
Resolving ==
  {Call(c, <<>>, FALSE, p[1], p[2], p[3], <<>>, <<>>, 2) :
     c \in Commands, p \in [1 .. 3 -> {NoFile, "a", "b"}]}

Disk(a, b, first, second) ==
  ("a" :> a @@ "b" :> b @@ "bcs.yaml" :> first @@ "classroom.yaml" :> second)

Scene(disks, calls) == {[disk |-> d, call |-> c] : d \in disks, c \in calls}

EveryScene ==
  Scene({Disk(t, "plain", "absent", "absent") : t \in DOMAIN Contents}, Overriding) \union
  Scene({Disk(t, "plain", "absent", "absent") : t \in {"plain", "spelled"}}, Overlapping) \union
  Scene({Disk(t, u, "absent", "absent") : t \in AllTexts, u \in {"plain", "askew", "tied"}}, SeveralFiles)
  \union
  Scene({Disk(t, "spelled", v, w) :
           t \in {"absent", "plain", "undecodable"}, v \in {"absent", "plain"},
           w \in {"absent", "spelled"}}, Resolving)

SomeEdits ==
  {<<"a", "spelled">>, <<"a", "absent">>, <<"bcs.yaml", "plain">>, <<"bcs.yaml", "absent">>,
   <<"classroom.yaml", "absent">>}
=============================================================================
