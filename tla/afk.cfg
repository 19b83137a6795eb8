\* Two processes, a command, a restart or a refused removal, three readings of the clock.
CONSTANTS
  c1 = c1
  c2 = c2
  daemon = daemon
  Procs = {c1, c2}
  Monitor = daemon
  CliSources = {"manual"}
  Ttl = 1
  Threshold = 1
  MaxTime = 2
  MaxCommands = 1
  MaxFaults = 1
SPECIFICATION Spec
INVARIANTS
  TypeOK
  AloneItTells
PROPERTIES
  NothingTakenUnseen
  OffEndsAfk
  AwayRouted
  BackLocal
