SPECIFICATION FairSpec
CONSTANTS
  Workers = {w1, w2}
  Others = {cli}
  lineage = lineage
  custom = custom
  vendors = vendors
  Channels = {lineage, custom, vendors}
  Offers <- OffersDef
  DefaultWant <- DefaultDef
  NoOta = NoOta
  Unset = Unset
  Missing = Missing
  Blank = Blank
  NoWorker = NoWorker
  Cancel = Cancel
  Builds <- BuildsDef
  FaultSets = {{"again", "kill", "network", "unheard"}, {"command", "kill", "network"}, {"command", "running", "bus"}, {"command", "package"}, {"command", "concurrent"}}
INVARIANTS DateNotNewer InitializedHasImages OneWorker ClosedWindowStopsWork
PROPERTIES FinishedIsComplete EndIsAnnounced
CHECK_DEADLOCK FALSE
