SPECIFICATION Spec
CONSTANTS
  svc = svc
  cli = cli
  old = old
  new = new
  bad = bad
  Service = svc
  Root = cli
  MountFaultSets <- HostMountFaults
  MaxMounts = 8
  Absent = Absent
  StartScript = svc
  StopScript = cli
  Rules <- HostRules
  NetFaultSets <- HostNetFaults
  MaxCopies = 2
  Cli = cli
  Starter = svc
  Files <- HostFiles
  DirOf <- HostDirOf
  Required <- HostRequired
  Archives = {old, new, bad}
  Contents <- HostContents
  ArmFaultSets <- HostArmFaults
  MaxLines = 2
  RunFaultSets <- HostRunFaults
  Packages = {mail, game}
  MaxNotes = 3
  DesktopFaultSets = {{"kill"}, {"kill", "silent"}}
  Versions <- HostVersions
  MaxCards = 2
  Names <- HostNames
  Within <- HostWithin
  MaxFound = 3
  MaxUser = 3
  NoFile = NoFile
  Unlocked = Unlocked
INVARIANTS TypeOK LeftoversAreUndone UpIsComplete RulesOnce  ReturnsTheWhole ConclusionsFit NodesSurviveBoot PropertiesOverride FilesAreTheApps MigratedEntirely
PROPERTIES MountedExactly UnmountedEntirely FailedStartLeavesNothing InstallIsAllOrNothing  KilledWithChildren CallerGoesOn
CHECK_DEADLOCK FALSE
