SPECIFICATION FairSpec
CONSTANTS
  Clients = {a, b, c}
  FaultSets = {{"overlap", "suspend", "off", "hangup"},
               {"launch", "suspend", "off", "hangup"},
               {"unfreeze", "off", "session", "hangup", "break"},
               {"launch", "unfreeze", "session", "hangup"},
               {"overlap", "launch", "suspend", "break"}}
INVARIANTS FrozenAgain
PROPERTIES CommandsEnd
CHECK_DEADLOCK FALSE
