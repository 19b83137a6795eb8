\* A note to the human and the user's replies, beside a forged and a garbled file,
\* with fairness.
CONSTANTS
  p1 = p1
  p2 = p2
  n1 = n1
  f1 = f1
  i1 = i1
  g1 = g1
  Messages = {n1, f1, g1}
  Kind <- MCKind
  Proposer <- MCProposer
  Actions = {"approve", "comment"}
  MaxMishaps = 1
  MaxTaps = 1
SPECIFICATION Spec
INVARIANT TypeOK
PROPERTY EventuallySurfaced
