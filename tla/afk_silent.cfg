\* One command, no restart: the monitor, the user and `otaman afk off`.
CONSTANTS
  c1 = c1
  daemon = daemon
  Procs = {c1}
  Monitor = daemon
  CliSources = {"manual"}
  Ttl = 1
  Threshold = 1
  MaxTime = 2
  MaxCommands = 1
  MaxFaults = 0
SPECIFICATION SafeSpec
PROPERTY NoSilentFlip
