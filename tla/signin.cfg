\* Both editions, and the messages.
CONSTANTS
  Parts = {"refresh tokens", "registration", "messages"}
  None = None
  r1 = r1
  r2 = r2
  c1 = c1
  c2 = c2
  u1 = u1
  Requests = {r1, r2}
  Users = {u1}
  MaxTokens = 4
  MaxFails = 1
  MaxRestarts = 1
  Callbacks = {c1, c2}
  MaxLogins = 1
  Registrations = {r1, r2}
  Clients <- MCClients
  Protected = TRUE
  MaxApps = 2
  MaxMishaps = 1
  Calls = {c1, c2}
  Callers = {"member", "loopback"}
  Seconds = {1, 2}
  MaxAttempts = 1
  Limit = 2
  MaxLetters = 2
  MaxFaults = 1
SPECIFICATION Spec
INVARIANTS
  TypeOK
  UsedOnce
  RemovedStaysOut
  SameClient
  ClientKept
  RegisteredUnless
  ToolsTellTrue
SYMMETRY Alike
CHECK_DEADLOCK FALSE
