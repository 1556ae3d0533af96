SPECIFICATION Spec
CONSTANTS
  NoToken = NoToken
  Lines <- PlainLines
  Words <- SomeWords
  Accepted <- Takes
  Plugins <- Installed
  PluginCodes <- Returned
INVARIANTS GlobalOptionsAnywhere
CHECK_DEADLOCK FALSE
