---------------------------- MODULE ConfigSchema ----------------------------
(***************************************************************************)
(* The pydantic models of a ClassroomConfig (config/models.py) as tables   *)
(* of fields, by alias, and the sections by path: the value of Sections.   *)
(***************************************************************************)
EXTENDS ConfigRules

Algorithm == OneOf({"sha256", "sha512"})

ConfigModel ==
  [ClassroomConfig |->
     "apiVersion" :> Required(OneOf({"bcs/v1alpha1"})) @@
     "kind"       :> Required(OneOf({"ClassroomConfig"})) @@
     "metadata"   :> Required(Sub("Metadata")) @@
     "spec"       :> Required(Sub("ClassroomSpec")),
   ClassroomSpec |->
     "project"      :> Required(Sub("ProjectSpec")) @@
     "branding"     :> Optional(Sub("BrandingSpec")) @@
     "bootManager"  :> Required(Sub("BootManagerSpec")) @@
     "builder"      :> Required(Sub("BuilderSpec")) @@
     "packages"     :> Required(Sub("PackagesSpec")) @@
     "deploy"       :> Required(Sub("DeploySpec")) @@
     "users"        :> Optional(Sub("UsersSpec")) @@
     "network"      :> Required(Sub("NetworkSpec")) @@
     "localization" :> Required(Sub("LocalizationSpec")) @@
     "security"     :> Required(Sub("SecuritySpec")) @@
     "extensions"   :> DictOf("any")]

MetadataModel ==
  [Metadata |->
     "name" :> Required(Shaped("slug")) @@
     "labels" :> DictOf("str") @@ "annotations" :> DictOf("str")]

ProjectModel ==
  [ProjectSpec |->
     "displayName" :> Required(Str) @@ "centre" :> Required(Str) @@
     "academicYear" :> Optional(Shaped("year")) @@
     "contact" :> Optional(Str) @@ "description" :> Optional(Str),
   Colors |->
     "primary" :> Optional(Shaped("colour")) @@ "accent" :> Optional(Shaped("colour")),
   BrandingSpec |->
     "colors" :> Optional(Sub("Colors")) @@
     [f \in {"logo", "icon", "background", "font"} |-> Optional(Str)]]

BootManagerModel ==
  [Menu |->
     "timeoutSeconds" :> AtLeast(0) @@ "defaultEntry" :> Required(Str) @@
     "entries" :> Required(ListOf("entries")),
   Fallback |-> "onConfigError" :> OneOf({"boot-installed-os"}),
   BootManagerSpec |->
     "enabled" :> Bool @@ "menu" :> Required(Sub("Menu")) @@ "fallback" :> Sub("Fallback")]

BuilderModel ==
  [BaseImage |->
     "distro" :> Required(OneOf({"lliurex"})) @@ "distroVersion" :> Str @@
     "baseDistribution" :> Required(OneOf({"ubuntu"})) @@
     "baseDistributionVersion" :> Str @@ "pinnedSnapshot" :> Optional(Shaped("date")),
   RecoveryPartition |-> "enabled" :> Bool @@ "sizeMiB" :> AtLeast(1024),
   Partitioning |->
     "scheme" :> OneOf({"gpt"}) @@ "espSizeMiB" :> AtLeast(256) @@
     "recoveryPartition" :> Sub("RecoveryPartition"),
   Provenance |-> "checksumAlgorithm" :> Algorithm,
   BuildOutput |->
     "format" :> OneOf({"partclone"}) @@ "compression" :> OneOf({"none", "gzip", "zstd"}),
   BuilderSpec |->
     "baseImage" :> Required(Sub("BaseImage")) @@
     "partitioning" :> Required(Sub("Partitioning")) @@
     "provenance" :> Sub("Provenance") @@ "output" :> Sub("BuildOutput")]

PackagesModel ==
  [PackagesSpec |->
     "base" :> Required(ListOf("packages")) @@ "profiles" :> DictOf("strings") @@
     "remove" :> ListOf("strings") @@ "repositories" :> ListOf("repositories")]

DeployModel ==
  [Pxe |-> "enabled" :> Bool @@ "serverAddress" :> Optional(Str),
   Multicast |-> "enabled" :> Bool @@ "addressRange" :> Str,
   Transport |-> "pxe" :> Sub("Pxe") @@ "multicast" :> Sub("Multicast"),
   Retry |-> "maxAttempts" :> AtLeast(0) @@ "backoffSeconds" :> AtLeast(0),
   Session |->
     "referenceClassroomSize" :> AtLeast(1) @@ "timeoutMinutes" :> AtLeast(1) @@
     "retry" :> Sub("Retry"),
   Verification |->
     "checksumAlgorithm" :> Algorithm @@
     "onMismatch" :> OneOf({"abort-machine", "abort-session"}),
   Reporting |-> "format" :> OneOf({"json", "text"}) @@ "retentionDays" :> AtLeast(1),
   MaintenanceRequests |->
     "enabled" :> Bool @@ "machineIdentity" :> OneOf({"mac-address", "dmi-uuid", "custom"}),
   DeploySpec |->
     "transport" :> Sub("Transport") @@ "session" :> Sub("Session") @@
     "verification" :> Sub("Verification") @@ "reporting" :> Sub("Reporting") @@
     "maintenanceRequests" :> Sub("MaintenanceRequests")]

UsersModel ==
  [DefaultProfile |-> "shell" :> Str @@ "groups" :> ListOf("strings"),
   Ldap |-> "uri" :> Optional(Str) @@ "baseDn" :> Optional(Str),
   Authentication |->
     "method" :> OneOf({"local", "ldap", "none"}) @@ "ldap" :> Optional(Sub("Ldap")),
   UsersSession |-> "autologin" :> Bool @@ "guestSession" :> Bool,
   UsersSpec |->
     "defaultProfile" :> Sub("DefaultProfile") @@ "accounts" :> ListOf("accounts") @@
     "authentication" :> Sub("Authentication") @@ "session" :> Sub("UsersSession")]

NetworkModel ==
  [Proxy |->
     "http" :> Optional(Str) @@ "https" :> Optional(Str) @@ "noProxy" :> ListOf("strings"),
   Addressing |->
     "mode" :> OneOf({"dhcp", "static"}) @@ "staticAssignments" :> ListOf("assignments"),
   NetworkSpec |->
     "hostnamePattern" :> Str @@ "domain" :> Optional(Str) @@ "dns" :> ListOf("strings") @@
     "proxy" :> Optional(Sub("Proxy")) @@ "addressing" :> Sub("Addressing")]

LocalizationModel ==
  [LocalizationSpec |->
     "defaultLocale" :> OneOf({"ca_ES", "es_ES"}) @@
     "supportedLocales" :> ListOf("locales") @@
     "timezone" :> Str @@ "keyboardLayout" :> Str]

SecurityModel ==
  [SecureBoot |-> "mode" :> OneOf({"enforce", "permissive", "disabled"}),
   Credentials |-> "embedSharedCredentials" :> Field("false", {}, 0),
   Updates |-> "autoSecurityUpdates" :> Bool,
   ImageSigning |-> "enabled" :> Bool @@ "keyRef" :> Optional(Str),
   NetworkTrust |-> "allowedDeployServers" :> ListOf("strings"),
   SecuritySpec |->
     "secureBoot" :> Sub("SecureBoot") @@ "credentials" :> Sub("Credentials") @@
     "updates" :> Sub("Updates") @@ "imageSigning" :> Sub("ImageSigning") @@
     "networkTrust" :> Sub("NetworkTrust")]

Models ==
  ConfigModel @@ MetadataModel @@ ProjectModel @@ BootManagerModel @@ BuilderModel @@
  PackagesModel @@ DeployModel @@ UsersModel @@ NetworkModel @@ LocalizationModel @@
  SecurityModel

-----------------------------------------------------------------------------
\* The sections of a table, and those right below them
Deeper(models, table) ==
  LET below == UNION {{Append(p, k) : k \in {f \in DOMAIN table[p] : IsModel(table[p][f])}} :
                        p \in DOMAIN table}
      ModelAt(p) == CHOOSE model \in table[Front(p)][Last(p)].of : TRUE
  IN table @@ [p \in below |-> models[ModelAt(p)]]

\* The root, and what there is down to four levels below
ConfigSections ==
  LET down[n \in 0 .. 4] ==
        IF n = 0 THEN <<>> :> Models["ClassroomConfig"] ELSE Deeper(Models, down[n - 1])
  IN down[4]
=============================================================================
