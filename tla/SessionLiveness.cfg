SPECIFICATION FairSpec
CONSTANTS
  alice = alice
  bob = bob
  alice1 = alice1
  alice2 = alice2
  bob1 = bob1
  Users = {alice}
  Root = Root
  Sessions = {alice1, alice2}
  Owner <- OwnerDef
  NoSession = NoSession
  FaultSets = {{"start", "crash", "sigterm", "silent"}, {"timeout", "kill", "start", "crash", "sigterm"}}
PROPERTIES StopReleases DeadSessionsCanBeStopped
