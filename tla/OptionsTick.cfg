\* Two endpoints, two guilds, two client ids; commands, verifications and aggregates against a failing call.
SPECIFICATION Spec
CONSTANTS
  b1 = b1
  b2 = b2
  g1 = g1
  g2 = g2
  c1 = c1
  k1 = k1
  k2 = k2
  Bases = {b1, b2}
  Guilds = {g1, g2}
  Channels = {c1}
  Clients = {k1, k2}
  Identities <- MCIdentities
  SavedSettings <- MCSavedSettings
  Commands <- MCCommands
  Capacity = 2
  TickBudget = 2
  MaxFaults = 1
  MaxEvents = 2
INVARIANTS ConfigurationAgrees DeliveriesAsShown CommandsInOrder
 
