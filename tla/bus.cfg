\* A proposal, its decisions and a forged file, with two mishaps and two taps.
CONSTANTS
  p1 = p1
  p2 = p2
  n1 = n1
  f1 = f1
  i1 = i1
  g1 = g1
  Messages = {p1, f1}
  Kind <- MCKind
  Proposer <- MCProposer
  Actions = {"approve", "reject"}
  MaxMishaps = 2
  MaxTaps = 2
SPECIFICATION SafeSpec
INVARIANTS
  NoDeadCard
  HalfDecisionRetriable
  DuplicatesNeedMishaps
  OneVerdict
  ForgedInert
PROPERTY
  LogSpec
