SPECIFICATION Spec
CONSTANTS
  alice = alice
  bob = bob
  alice1 = alice1
  alice2 = alice2
  bob1 = bob1
  Users = {alice, bob}
  Root = Root
  Sessions = {alice1, alice2, bob1}
  Owner <- OwnerDef
  NoSession = NoSession
  FaultSets = {{"start", "crash", "sigterm", "silent"}, {"timeout", "impatient", "kill", "start", "sigterm"}, {"timeout", "kill", "start", "stop", "silent", "sigterm"}, {"upgrade"}}
INVARIANTS SessionHasContainer NoOrphanTracking
PROPERTIES OnlyOwnersStop
