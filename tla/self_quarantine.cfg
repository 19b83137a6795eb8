\* One proposal, approved or rejected once.
CONSTANTS
  p1 = p1
  p2 = p2
  n1 = n1
  f1 = f1
  i1 = i1
  g1 = g1
  Messages = {p1}
  Kind <- MCKind
  Proposer <- MCProposer
  Actions = {"approve", "reject"}
  MaxMishaps = 0
  MaxTaps = 1
SPECIFICATION SafeSpec
INVARIANT DecisionsStayOnBus
