SPECIFICATION FairSpec
CONSTANTS
  NoToken = NoToken
  Lines <- ShortAndLong
  Words <- SomeWords
  Accepted <- Takes
  Plugins <- Installed
  PluginCodes <- Returned
INVARIANTS TypeOK NothingLost MeansWhatWasTyped AskedLevel
PROPERTIES Exits
CHECK_DEADLOCK FALSE
