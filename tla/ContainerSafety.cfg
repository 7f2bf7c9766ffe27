SPECIFICATION Spec
CONSTANTS
  alice = alice
  bob = bob
  alice1 = alice1
  bob1 = bob1
  Users = {alice, bob}
  Root = Root
  Sessions = {alice1, bob1}
  Owner <- OwnerDef
  NoSession = NoSession
  FaultSets = {{}, {"guest"}, {"command", "guest"}, {"command", "guest", "crash", "slow"}}
  SensordInstalled = TRUE
  MaxTries = 1
  MaxSensors = 2
  MaxInbox <- InboxDef
SYMMETRY Exchange
INVARIANTS AllOrNothing NetworkUnderContainer ContainerIsTheSessions
PROPERTIES UntrackLeavesNothing NoBootForNobody LeaseSpec
