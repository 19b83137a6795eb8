\* One request: every race between the hook, its handler, taps, POST /reply, a
\* snooze and shutdown.
CONSTANTS
  Requests = {r1}
  Listener = listener
  HttpThreads = {h1}
  ReplyDecisions = {"deny"}
  Buttons = {"approve", "snooze"}
  ApprovalTimeout = 2
  HookGrace = 1
  SendTimeout = 1
  SnoozeSeconds = 2
  SnoozeBuffer = 1
  MaxSnoozes = 1
  MaxTaps = 1
SPECIFICATION Spec
CHECK_DEADLOCK FALSE
INVARIANTS
  TypeOK
  NobodyStranded
  InTimeDecisionWins
  SnoozeOutlivesRepost
  OnlySnoozedHookGivesUp
  CardTellsTheAnswer
PROPERTIES
  VerdictSpec
  PendingDrains
