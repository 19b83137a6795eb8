\* The proportions of the code: a snooze is longer than the hook waits in all.
CONSTANTS
  Requests = {r1}
  Listener = listener
  HttpThreads = {}
  ReplyDecisions = {}
  Buttons = {"approve", "snooze"}
  ApprovalTimeout = 2
  HookGrace = 1
  SendTimeout = 1
  SnoozeSeconds = 4
  SnoozeBuffer = 1
  MaxSnoozes = 1
  MaxTaps = 1
SPECIFICATION SafeSpec
CHECK_DEADLOCK FALSE
INVARIANT SnoozeKeepsHookWaiting
