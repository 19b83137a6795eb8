\* Hooks that wait while the daemon shuts down.
CONSTANTS
  Requests = {r1}
  Listener = listener
  HttpThreads = {}
  ReplyDecisions = {}
  Buttons = {"approve", "snooze"}
  ApprovalTimeout = 2
  HookGrace = 1
  SendTimeout = 1
  SnoozeSeconds = 2
  SnoozeBuffer = 1
  MaxSnoozes = 1
  MaxTaps = 1
SPECIFICATION SafeSpec
CHECK_DEADLOCK FALSE
INVARIANT ShutdownAnswersHooks
