SPECIFICATION FairSpec
CONSTANTS
  alice = alice
  bob = bob
  alice1 = alice1
  bob1 = bob1
  Users = {alice}
  Root = Root
  Sessions = {alice1}
  Owner <- OwnerDef
  NoSession = NoSession
  FaultSets = {{}, {"guest", "slow"}, {"guest", "cli", "slow"}}
  SensordInstalled = TRUE
  MaxTries = 1
  MaxSensors = 1
  MaxInbox <- InboxDef
PROPERTIES StopUntracks HandlersEnd
