\* Two changes, one of them with its directory; the first approval is urgent, and
\* stays on the bus for more than seven days.
CONSTANTS
  None = None
  login = login
  oauth = oauth
  Messages = {1, 2, 3, 4}
  Type <- MCType
  Change <- MCChange
  Surfaced = {1}
  Lasting = {1}
  Changes = {login, oauth}
  HasDir = {login}
  Like <- MCLike
  HasSpec = {login}
  Comments = TRUE
  MaxIssues = 3
  MaxMishaps = 2
  MaxPrunes = 1
SPECIFICATION Spec
INVARIANTS
  CallsPaidFor
  MapsAgree
  StatusFollows
CHECK_DEADLOCK FALSE
