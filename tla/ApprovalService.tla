--------------------------- MODULE ApprovalService ---------------------------
(***************************************************************************)
(* The tool-approval path of the bridge daemon: a hook blocks in            *)
(* POST /approval, the daemon sends a card to the chat and parks the        *)
(* request's handler thread on a slot; taps on the card, POST /reply,       *)
(* snoozes, the deadline, send failures and daemon shutdown race to end     *)
(* the wait (approval_service.py, daemon.py, bridge_approval.py).           *)
(*                                                                          *)
(* Threads: one HTTP handler thread per request, the HTTP threads of        *)
(* POST /reply, the stop thread, and the asyncio loop, which runs the       *)
(* listener's dispatch and the coroutines one at a time.  A lookup in the   *)
(* pending table is made under the service's lock, what is done with the    *)
(* slot it finds is not: the two are separate steps of every thread.        *)
(*                                                                          *)
(* Time is counted in ticks.  Network delays are arbitrary; a thread or a   *)
(* coroutine that can run does so within the tick, but the deadline may      *)
(* pass between two of the polls of wait().                                  *)
(***************************************************************************)
EXTENDS Integers, FiniteSets

CONSTANTS
  Requests,         \* tool calls, one ApprovalRequest each
  Listener,         \* the loop thread running the listener's dispatch
  HttpThreads,      \* HTTP threads that serve POST /reply
  ReplyDecisions,   \* decisions POST /reply delivers
  Buttons,          \* the buttons tapped, of "approve", "reject" and "snooze"
  ApprovalTimeout,  \* timeout_seconds of a request (540 s by default)
  HookGrace,        \* what the hook's socket timeout adds to it (15 s)
  SendTimeout,      \* how long the handler waits for the first card (10 s)
  SnoozeSeconds,    \* SNOOZE_SECONDS (900 s)
  SnoozeBuffer,     \* what a snooze adds to the deadline beyond that (30 s)
  MaxSnoozes,       \* bound: snoozes per request
  MaxTaps           \* bound: taps on their way to the listener at once

Decisions == {"allow", "deny", "ask", "timeout"}
NoDecision == "none"

ASSUME ConstantsAssumption ==
  /\ Listener \notin HttpThreads
  /\ ReplyDecisions \subseteq Decisions
  /\ Buttons \subseteq {"approve", "reject", "snooze"}
  /\ ApprovalTimeout \in Nat \ {0} /\ HookGrace \in Nat \ {0}
  /\ SendTimeout \in Nat \ {0} /\ SendTimeout < ApprovalTimeout + HookGrace
  /\ SnoozeSeconds \in Nat \ {0} /\ SnoozeBuffer \in Nat
  /\ MaxSnoozes \in Nat /\ MaxTaps \in Nat

Threads == HttpThreads \cup {Listener}
\* Faulty: the hook's socket timeout has no room beyond the approval timeout.
HookPatienceNoGrace == ApprovalTimeout

HookPatience == ApprovalTimeout + HookGrace

\* Card 1 of a request is the first card, card k + 1 the re-post of snooze k.
Cards == 1..(MaxSnoozes + 1)
NoCard == 0

HookOutcomes == Decisions \cup {"gaveUp", "reset"}
HookStates == {"idle", "asking"} \cup HookOutcomes
HandlerStates == {"none", "sending", "check", "blocked", "woke", "done"}
PostStates == {"none", "sleeping", "sending", "returned", "failed", "skipped"}
CardStates == {"none", "live", "stripped", "snoozed"} \cup Decisions
StopStates == {"up", "cancelling", "closed", "drained", "exited"}

ToDecision == [approve |-> "allow", reject |-> "deny"]
SlotOps == Decisions \cup {"snooze"}

VARIABLES
  hook,       \* request -> what the blocked hook process sees
  age,        \* request -> ticks since the hook posted, up to HookPatience
  handler,    \* request -> where its HTTP handler thread is
  answer,     \* request -> the decision the handler thread is to return
  pending,    \* requests in ApprovalService._pending
  response,   \* request -> slot.response; the event is set iff there is one
  left,       \* request -> ticks to slot._deadline
  handle,     \* request -> the card slot.handle names
  found,      \* slots looked up by a thread that has not acted on them yet
  post,       \* request -> card -> the coroutine that sends the card
  sleepLeft,  \* request -> card -> ticks its snooze has to sleep
  card,       \* request -> card -> what the chat shows
  edits,      \* transport.update coroutines scheduled and not yet run
  taps,       \* button taps on their way to the listener
  stop,       \* how far BridgeDaemon.stop has come
  toCancel,   \* slots cancel_all has taken and not yet resolved
  votes,      \* history: request -> decisions cast for it
  inTime      \* history: requests a decision reached in time to be heard

hookVars == <<hook, age>>
slotVars == <<response, left, handle>>
chatVars == <<post, sleepLeft, card, edits, taps>>
stopVars == <<stop, toCancel>>
history == <<votes, inTime>>
vars == <<hook, age, handler, answer, pending, response, left, handle, found,
          post, sleepLeft, card, edits, taps, stop, toCancel, votes, inTime>>

Lookup == [thread : Threads, req : Requests, op : SlotOps]
Edit == [req : Requests, card : Cards, text : CardStates]

TypeOK ==
  /\ hook \in [Requests -> HookStates]
  /\ age \in [Requests -> 0..HookPatience]
  /\ handler \in [Requests -> HandlerStates]
  /\ answer \in [Requests -> Decisions \cup {NoDecision}]
  /\ pending \subseteq Requests
  /\ response \in [Requests -> Decisions \cup {NoDecision}]
  /\ left \in [Requests -> Nat]
  /\ handle \in [Requests -> Cards \cup {NoCard}]
  /\ found \subseteq Lookup
  /\ post \in [Requests -> [Cards -> PostStates]]
  /\ sleepLeft \in [Requests -> [Cards -> Nat]]
  /\ card \in [Requests -> [Cards -> CardStates]]
  /\ edits \subseteq Edit
  /\ taps \subseteq Requests \X Buttons
  /\ stop \in StopStates
  /\ toCancel \subseteq Requests
  /\ votes \in [Requests -> SUBSET Decisions]
  /\ inTime \subseteq Requests

Init ==
  /\ hook = [r \in Requests |-> "idle"]
  /\ age = [r \in Requests |-> 0]
  /\ handler = [r \in Requests |-> "none"]
  /\ answer = [r \in Requests |-> NoDecision]
  /\ pending = {}
  /\ response = [r \in Requests |-> NoDecision]
  /\ left = [r \in Requests |-> 0]
  /\ handle = [r \in Requests |-> NoCard]
  /\ found = {}
  /\ post = [r \in Requests |-> [c \in Cards |-> "none"]]
  /\ sleepLeft = [r \in Requests |-> [c \in Cards |-> 0]]
  /\ card = [r \in Requests |-> [c \in Cards |-> "none"]]
  /\ edits = {}
  /\ taps = {}
  /\ stop = "up"
  /\ toCancel = {}
  /\ votes = [r \in Requests |-> {}]
  /\ inTime = {}

-----------------------------------------------------------------------------
(* Helpers. *)

ServerUp == stop \in {"up", "cancelling"}
LoopUp == stop \in {"up", "cancelling", "closed"}
Alive == stop # "exited"

Idle(t) == \A f \in found : f.thread # t

\* The loop thread runs a coroutine only between two of the listener's dispatches.
LoopFree == LoopUp /\ Idle(Listener)

Waiting(r) == handler[r] \in {"check", "blocked"}
\* Faulty: resolve() stores the response and does not set the event.
EventNeverSet(r) == FALSE
EventSet(r) == response[r] # NoDecision

\* The hook gets the handler's answer if it is still on the line.
Answered(r, d) ==
  /\ hook' = [hook EXCEPT ![r] = IF @ = "asking" THEN d ELSE @]
  /\ age' = [age EXCEPT ![r] = 0]

\* The handler is done: its entry is popped by request id, and nobody waits on the
\* slot any more.
Popped(r) ==
  /\ pending' = pending \ {r}
  /\ left' = [left EXCEPT ![r] = 0]
  /\ handler' = [handler EXCEPT ![r] = "done"]

-----------------------------------------------------------------------------
(* POST /approval: the hook and its handler thread. *)

\* The hook posts; the handler makes the slot, registers it and submits the
\* first card's send.  (With the server gone the hook is refused and falls back
\* without ever reaching this component.)
HandleApproval(r) ==
  /\ hook[r] = "idle" /\ ServerUp
  /\ hook' = [hook EXCEPT ![r] = "asking"]
  /\ handler' = [handler EXCEPT ![r] = "sending"]
  /\ left' = [left EXCEPT ![r] = ApprovalTimeout]
  /\ pending' = pending \cup {r}
  /\ post' = [post EXCEPT ![r][1] = "sending"]
  /\ UNCHANGED <<age, answer, response, handle, found, sleepLeft, card, edits,
                 taps, stopVars, history>>

\* The first card's send returned in time: its handle is stored, and wait() starts.
HandleStored(r) ==
  /\ Alive /\ handler[r] = "sending" /\ post[r][1] = "returned"
  /\ handle' = [handle EXCEPT ![r] = 1]
  /\ handler' = [handler EXCEPT ![r] = "check"]
  /\ UNCHANGED <<hookVars, answer, pending, response, left, found, chatVars,
                 stopVars, history>>

\* Faulty: fut.result() without a timeout.
SendAwaitedForEver(r) ==
  /\ Alive /\ handler[r] = "sending" /\ post[r][1] = "failed"
  /\ Popped(r)
  /\ answer' = [answer EXCEPT ![r] = "ask"]
  /\ Answered(r, "ask")
  /\ UNCHANGED <<response, handle, found, chatVars, stopVars, history>>

\* fut.result() raised: the send failed, or is not done after SendTimeout.  The
\* coroutine of a late send is not cancelled.
SendGivenUp(r) ==
  /\ Alive /\ handler[r] = "sending"
  /\ \/ post[r][1] = "failed"
     \/ age[r] >= SendTimeout /\ post[r][1] # "returned"
  /\ Popped(r)
  /\ answer' = [answer EXCEPT ![r] = "ask"]
  /\ Answered(r, "ask")
  /\ UNCHANGED <<response, handle, found, chatVars, stopVars, history>>

\* Top of the loop in wait(): the deadline is tested first, and the event not at
\* all once it has passed.
CheckDeadline(r) ==
  /\ Alive /\ handler[r] = "check"
  /\ IF left[r] = 0
       THEN /\ handler' = [handler EXCEPT ![r] = "woke"]
            /\ answer' = [answer EXCEPT ![r] = "timeout"]
       ELSE /\ handler' = [handler EXCEPT ![r] = "blocked"]
            /\ UNCHANGED answer
  /\ UNCHANGED <<hookVars, pending, slotVars, found, chatVars, stopVars, history>>

\* A poll of event.wait(), for min(remaining, 5 s), ended without the event, at the
\* deadline or shortly before it: the loop goes round.  (After an earlier poll the
\* thread is back in event.wait() within the tick: that changes nothing.)
WaitElapsed(r) ==
  /\ Alive /\ handler[r] = "blocked" /\ left[r] <= 1 /\ ~EventSet(r)
  /\ handler' = [handler EXCEPT ![r] = "check"]
  /\ UNCHANGED <<hookVars, answer, pending, slotVars, found, chatVars, stopVars,
                 history>>

\* event.wait() returned True: the response is read now, so the last one wins.
WakeUp(r) ==
  /\ Alive /\ handler[r] = "blocked" /\ EventSet(r)
  /\ handler' = [handler EXCEPT ![r] = "woke"]
  /\ answer' = [answer EXCEPT ![r] = response[r]]
  /\ UNCHANGED <<hookVars, pending, slotVars, found, chatVars, stopVars, history>>

\* Faulty: the card's status is taken from the slot again after the pop.
FinishRereads(r) ==
  /\ Alive /\ handler[r] = "woke"
  /\ Popped(r)
  /\ edits' = IF handle[r] # NoCard /\ EventSet(r) /\ response[r] # "ask" /\ LoopUp
                THEN edits \cup {[req |-> r, card |-> handle[r], text |-> response[r]]}
                ELSE edits
  /\ Answered(r, answer[r])
  /\ UNCHANGED <<answer, response, handle, found, post, sleepLeft, card, taps,
                 stopVars, history>>

\* The handler pops the slot, has the card edited, and answers the hook.
Finish(r) ==
  /\ Alive /\ handler[r] = "woke"
  /\ Popped(r)
  /\ edits' = IF handle[r] # NoCard /\ answer[r] # "ask" /\ LoopUp
                THEN edits \cup {[req |-> r, card |-> handle[r], text |-> answer[r]]}
                ELSE edits
  /\ Answered(r, answer[r])
  /\ UNCHANGED <<answer, response, handle, found, post, sleepLeft, card, taps,
                 stopVars, history>>

\* The hook's own urlopen timeout: it falls back to the native prompt.
HookGivesUp(r) ==
  /\ hook[r] = "asking" /\ age[r] = HookPatience
  /\ Answered(r, "gaveUp")
  /\ UNCHANGED <<handler, answer, pending, slotVars, found, chatVars,
                 stopVars, history>>

-----------------------------------------------------------------------------
(* The chat: cards are delivered, tapped and edited. *)

\* Telegram has the card, and shows its buttons, before the send returns.
CardDelivered(r, c) ==
  /\ post[r][c] = "sending" /\ card[r][c] = "none" /\ LoopUp
  /\ card' = [card EXCEPT ![r][c] = "live"]
  /\ UNCHANGED <<hookVars, handler, answer, pending, slotVars, found, post,
                 sleepLeft, edits, taps, stopVars, history>>

\* send_approval returns in the loop.  A re-post stores its handle if the request
\* is still pending; the first card's handle is for the handler thread to store.
SendReturns(r, c) ==
  /\ LoopFree /\ post[r][c] = "sending" /\ card[r][c] # "none"
  /\ post' = [post EXCEPT ![r][c] = "returned"]
  /\ handle' = IF c # 1 /\ r \in pending THEN [handle EXCEPT ![r] = c] ELSE handle
  /\ UNCHANGED <<hookVars, handler, answer, pending, response, left, found,
                 sleepLeft, card, edits, taps, stopVars, history>>

\* send_approval raises, which it also does when only the reply was lost.
SendFails(r, c) ==
  /\ LoopFree /\ post[r][c] = "sending"
  /\ post' = [post EXCEPT ![r][c] = "failed"]
  /\ UNCHANGED <<hookVars, handler, answer, pending, slotVars, found, sleepLeft,
                 card, edits, taps, stopVars, history>>

SnoozesUsed(r) == {c \in Cards \ {1} : post[r][c] # "none"}

\* A human taps a button of a card that still shows them.  MaxSnoozes and
\* MaxTaps bound what is tapped.
Tap(r, c, a) ==
  /\ LoopUp /\ card[r][c] = "live"
  /\ a = "snooze" => SnoozesUsed(r) # Cards \ {1}
  /\ Cardinality(taps) < MaxTaps
  /\ taps' = taps \cup {<<r, a>>}
  /\ votes' = IF a = "snooze" THEN votes
                ELSE [votes EXCEPT ![r] = @ \cup {ToDecision[a]}]
  /\ UNCHANGED <<hookVars, handler, answer, pending, slotVars, found, post,
                 sleepLeft, card, edits, stopVars, inTime>>

\* transport.update strips the buttons and writes the status; the second call may
\* fail, or already the first.
RunEdit(e) ==
  /\ LoopFree /\ e \in edits
  /\ edits' = edits \ {e}
  /\ \/ card' = [card EXCEPT ![e.req][e.card] = e.text]
     \/ card' = [card EXCEPT ![e.req][e.card] = IF @ = "live" THEN "stripped" ELSE @]
     \/ UNCHANGED card
  /\ UNCHANGED <<hookVars, handler, answer, pending, slotVars, found, post,
                 sleepLeft, taps, stopVars, history>>

-----------------------------------------------------------------------------
(* Decisions: the listener's dispatch and POST /reply look the slot up under *)
(* the lock, and act on what they found after releasing it.                   *)

\* Faulty: the button's action is passed on instead of the decision it stands for.
DispatchUntranslated(r, a) ==
  /\ LoopFree /\ <<r, a>> \in taps
  /\ a = "snooze" => SnoozesUsed(r) # Cards \ {1}
  /\ taps' = taps \ {<<r, a>>}
  /\ found' = IF r \notin pending THEN found
              ELSE found \cup {[thread |-> Listener, req |-> r, op |-> a]}
  /\ UNCHANGED <<hookVars, handler, answer, pending, slotVars, post, sleepLeft,
                 card, edits, stopVars, history>>

\* _dispatch_inbound_reply takes a tap off the queue; one whose request is no
\* longer pending is logged and dropped.
Dispatch(r, a) ==
  /\ LoopFree /\ <<r, a>> \in taps
  /\ a = "snooze" => SnoozesUsed(r) # Cards \ {1}
  /\ taps' = taps \ {<<r, a>>}
  /\ found' = IF r \notin pending THEN found
              ELSE found \cup {[thread |-> Listener, req |-> r,
                                op |-> IF a = "snooze" THEN a ELSE ToDecision[a]]}
  /\ UNCHANGED <<hookVars, handler, answer, pending, slotVars, post, sleepLeft,
                 card, edits, stopVars, history>>

\* POST /reply for a pending request; for any other it answers 404.
HandleReply(t, r, d) ==
  /\ ServerUp /\ Idle(t) /\ r \in pending
  /\ found' = found \cup {[thread |-> t, req |-> r, op |-> d]}
  /\ votes' = [votes EXCEPT ![r] = @ \cup {d}]
  /\ UNCHANGED <<hookVars, handler, answer, pending, slotVars, chatVars,
                 stopVars, inTime>>

\* What wait() can still see: with the deadline one tick away a thread between two
\* polls may find it passed, a thread in event.wait() is woken.
HeardInTime(r) ==
  \/ Waiting(r) /\ left[r] > 1
  \/ handler[r] = "blocked" /\ left[r] = 1

\* slot.resolve: the response is overwritten, whatever it was, and the event set.
Resolve(f) ==
  /\ Alive /\ f \in found /\ f.op # "snooze"
  /\ found' = found \ {f}
  /\ response' = [response EXCEPT ![f.req] = f.op]
  /\ inTime' = IF HeardInTime(f.req) THEN inTime \cup {f.req} ELSE inTime
  /\ UNCHANGED <<hookVars, handler, answer, pending, left, handle, chatVars,
                 stopVars, votes>>

\* Faulty: extend_by keeps the nearer of the two deadlines.
ExtendedToNearer(ticks, seconds) == IF seconds < ticks THEN seconds ELSE ticks

\* extend_by: the deadline moves to now + seconds, and never closer.
Extended(ticks, seconds) == IF seconds > ticks THEN seconds ELSE ticks

\* handle_snooze on the slot it found: push the deadline out, strip the card the
\* handle names, and put the re-post of the next card to sleep.
HandleSnooze(f, c) ==
  /\ Alive /\ f \in found /\ f.op = "snooze"
  /\ c \in Cards \ {1} /\ post[f.req][c] = "none"
  /\ \A d \in 2..(c - 1) : post[f.req][d] # "none"
  /\ found' = found \ {f}
  /\ left' = [left EXCEPT ![f.req] = Extended(@, SnoozeSeconds + SnoozeBuffer)]
  /\ edits' = IF handle[f.req] = NoCard THEN edits
              ELSE edits \cup {[req |-> f.req, card |-> handle[f.req],
                                text |-> "snoozed"]}
  /\ post' = [post EXCEPT ![f.req][c] = "sleeping"]
  /\ sleepLeft' = [sleepLeft EXCEPT ![f.req][c] = SnoozeSeconds]
  /\ UNCHANGED <<hookVars, handler, answer, pending, response, handle, card, taps,
                 stopVars, history>>

\* _snooze_repost wakes up: it sends a fresh card if the request is pending.
SnoozeRepost(r, c) ==
  /\ LoopFree /\ post[r][c] = "sleeping" /\ sleepLeft[r][c] = 0
  /\ post' = [post EXCEPT ![r][c] = IF r \in pending THEN "sending" ELSE "skipped"]
  /\ UNCHANGED <<hookVars, handler, answer, pending, slotVars, found, sleepLeft,
                 card, edits, taps, stopVars, history>>

-----------------------------------------------------------------------------
(* BridgeDaemon.stop, on POST /shutdown or a signal. *)

\* Faulty: cancel_all takes its copy of the table after clearing it.
StopCopiesLate ==
  /\ stop = "up"
  /\ stop' = "cancelling"
  /\ toCancel' = {}
  /\ pending' = {}
  /\ UNCHANGED <<hookVars, handler, answer, slotVars, found, chatVars, history>>

\* The shutdown flag is set once, and cancel_all copies and clears the table under
\* the lock ...
Stop ==
  /\ stop = "up"
  /\ stop' = "cancelling"
  /\ toCancel' = pending
  /\ pending' = {}
  /\ UNCHANGED <<hookVars, handler, answer, slotVars, found, chatVars, history>>

\* Faulty: shutdown fails open.
CancelOneAllows(r) ==
  /\ stop = "cancelling" /\ r \in toCancel
  /\ toCancel' = toCancel \ {r}
  /\ response' = [response EXCEPT ![r] = "allow"]
  /\ UNCHANGED <<hookVars, handler, answer, pending, left, handle, found, chatVars,
                 stop, history>>

\* ... and each slot resolved with "ask" after that.
CancelOne(r) ==
  /\ stop = "cancelling" /\ r \in toCancel
  /\ toCancel' = toCancel \ {r}
  /\ response' = [response EXCEPT ![r] = "ask"]
  /\ UNCHANGED <<hookVars, handler, answer, pending, left, handle, found, chatVars,
                 stop, history>>

\* server.shutdown() and server_close(): no request is accepted any more, those
\* in flight go on.
CloseServer ==
  /\ stop = "cancelling" /\ toCancel = {}
  /\ stop' = "closed"
  /\ UNCHANGED <<hookVars, handler, answer, pending, slotVars, found, chatVars,
                 toCancel, history>>

\* The listener is cancelled, then the loop is drained of its coroutines and stopped.
DrainLoop ==
  /\ stop = "closed" /\ Idle(Listener)
  /\ stop' = "drained"
  /\ post' = [r \in Requests |-> [c \in Cards |->
                IF post[r][c] \in {"sleeping", "sending"} THEN "failed" ELSE post[r][c]]]
  /\ edits' = {}
  /\ taps' = {}
  /\ UNCHANGED <<hookVars, handler, answer, pending, slotVars, found, sleepLeft,
                 card, toCancel, history>>

\* The process exits: cmd_run returns as soon as it sees the shutdown flag, while
\* stop() may still be running in the daemon thread of POST /shutdown.  A crash
\* is the same step.  The connections of the hooks still waiting are reset.
Exit ==
  /\ Alive
  /\ stop' = "exited"
  /\ hook' = [r \in Requests |-> IF hook[r] = "asking" THEN "reset" ELSE hook[r]]
  /\ edits' = {}
  /\ taps' = {}
  /\ UNCHANGED <<age, handler, answer, pending, slotVars, found, post, sleepLeft,
                 card, toCancel, history>>

-----------------------------------------------------------------------------
(* Time. *)

\* Something that runs within the tick is due for this request.  The tick that ends
\* at the deadline may pass between two polls of wait().
Due(r) ==
  \/ hook[r] = "asking" /\ age[r] = HookPatience
  \/ handler[r] = "check" /\ left[r] # 1
  \/ handler[r] = "woke"
  \/ handler[r] = "sending" /\ \/ post[r][1] \in {"returned", "failed"}
                               \/ age[r] >= SendTimeout
  \/ handler[r] = "blocked" /\ (left[r] = 0 \/ EventSet(r))
  \/ \E c \in Cards : post[r][c] = "sleeping" /\ sleepLeft[r][c] = 0

Less(n) == IF n = 0 THEN 0 ELSE n - 1

\* Timers only run while somebody looks at them.
Tick ==
  /\ Alive /\ \A r \in Requests : ~Due(r)
  /\ age' = [r \in Requests |-> IF hook[r] = "asking" THEN age[r] + 1 ELSE age[r]]
  /\ left' = [r \in Requests |->
                IF handler[r] \in {"none", "done"} THEN left[r] ELSE Less(left[r])]
  /\ sleepLeft' = [r \in Requests |-> [c \in Cards |-> Less(sleepLeft[r][c])]]
  /\ UNCHANGED <<hook, handler, answer, pending, response, handle, found, post,
                 card, edits, taps, stopVars, history>>

-----------------------------------------------------------------------------
HandlerStep(r) ==
  \/ HandleStored(r) \/ SendGivenUp(r) \/ CheckDeadline(r) \/ WaitElapsed(r)
  \/ WakeUp(r) \/ Finish(r)

ActOnFound(t) ==
  \E f \in found :
    f.thread = t /\ (Resolve(f) \/ \E c \in Cards : HandleSnooze(f, c))

Next ==
  \/ \E r \in Requests :
       \/ HandleApproval(r) \/ HandlerStep(r) \/ HookGivesUp(r) \/ CancelOne(r)
       \/ \E c \in Cards :
            \/ CardDelivered(r, c) \/ SendReturns(r, c) \/ SendFails(r, c)
            \/ SnoozeRepost(r, c)
            \/ \E a \in Buttons : Tap(r, c, a)
       \/ \E a \in Buttons : Dispatch(r, a)
       \/ \E t \in HttpThreads, d \in ReplyDecisions : HandleReply(t, r, d)
  \/ \E e \in edits : RunEdit(e)
  \/ \E t \in Threads : ActOnFound(t)
  \/ Stop \/ CloseServer \/ DrainLoop \/ Exit \/ Tick

\* Threads and the clock go on, and the event loop serves its ready queue in FIFO
\* order, so a coroutine whose sleep is over gets its turn; nothing is asked of
\* humans, of the network, or of the clients that might stop the daemon.
Fairness ==
  /\ \A r \in Requests :
       /\ WF_vars(HandlerStep(r)) /\ WF_vars(HookGivesUp(r))
       /\ \A c \in Cards : SF_vars(SnoozeRepost(r, c))
  /\ \A t \in Threads : WF_vars(ActOnFound(t))
  /\ WF_vars(Tick)

SafeSpec == Init /\ [][Next]_vars
Spec == SafeSpec /\ Fairness
-----------------------------------------------------------------------------
(* Properties. *)

VerdictOf ==
  [r \in Requests |-> CASE hook[r] = "idle"   -> "none"
                        [] hook[r] = "asking" -> "asked"
                        [] OTHER              -> hook[r]]

(* The service implements the promise of HookVerdict: one verdict per hook,  *)
(* backed by a vote for this very request or fail-safe, and always reached    *)
(* (approval_service.py:120-168, bridge_approval.py:252-284).                 *)
Verdict == INSTANCE HookVerdict WITH
  Votes <- Decisions, FailSafes <- {"ask", "timeout", "gaveUp", "reset"},
  verdict <- VerdictOf
VerdictSafe == Verdict!SafeSpec
VerdictSpec == Verdict!Spec

(* The pending table holds exactly the requests whose handler can still be    *)
(* reached through it: none is left behind by a finished handler, and a       *)
(* handler whose slot was taken out by cancel_all is being woken              *)
(* (approval_service.py:112-118, 126-153).                                    *)
NobodyStranded ==
  \A r \in Requests :
    /\ r \in pending => handler[r] \in {"sending", "check", "blocked", "woke"}
    /\ handler[r] \in {"sending", "check", "blocked"} =>
         r \in pending \/ r \in toCancel \/ EventSet(r)

(* wait() tests the deadline before the event, so a decision may be answered  *)
(* as a timeout although its event was set before the deadline: but only one  *)
(* set between two polls in the last tick.  One that found the thread in      *)
(* event.wait(), or came with more time left, wins (approval_service.py:53-78). *)
InTimeDecisionWins ==
  \A r \in inTime : answer[r] = "timeout" => "timeout" \in votes[r]

(* A snoozed request cannot expire before its card is back in the chat, and   *)
(* has SnoozeBuffer left then, however snoozes overlap                        *)
(* (approval_service.py:57-61, 192).                                          *)
SnoozeOutlivesRepost ==
  \A r \in Requests, c \in Cards :
    post[r][c] = "sleeping" /\ Waiting(r) => left[r] >= sleepLeft[r][c] + SnoozeBuffer

(* The three timeouts of a request that is never snoozed are in order: the    *)
(* daemon answers before the hook hangs up (bridge_approval.py:254-255,       *)
(* approval_service.py:134).                                                  *)
OnlySnoozedHookGivesUp ==
  \A r \in Requests : hook[r] = "gaveUp" => SnoozesUsed(r) # {}

(* The status written on a card is the answer the handler returned, and the   *)
(* hook was told the same unless it had gone (approval_service.py:155-168).   *)
CardTellsTheAnswer ==
  \A r \in Requests, c \in Cards :
    card[r][c] \in Decisions =>
      /\ handler[r] = "done" /\ answer[r] = card[r][c]
      /\ hook[r] \in {answer[r], "gaveUp", "reset"}

(* No request stays in the pending table for ever, and no handler thread      *)
(* (approval_service.py:63-78, 140-153).                                      *)
PendingDrains ==
  \A r \in Requests :
    (r \in pending \/ handler[r] \notin {"none", "done"})
      ~> \/ r \notin pending /\ handler[r] \in {"none", "done"}
         \/ stop = "exited"

(* Claimed by daemon.py:65-66, and false: "The deadline extends by this       *)
(* amount + a 30s buffer so the hook doesn't time out mid-snooze".            *)
SnoozeKeepsHookWaiting ==
  \A r \in Requests, c \in Cards :
    post[r][c] = "sleeping" /\ r \in pending => hook[r] # "gaveUp"

(* Claimed by daemon.py:705-706, and false: stop() cancels "pending approvals *)
(* so hooks get an immediate daemon-shutdown response instead of waiting for  *)
(* their timeouts": once the server is closed no handler waits unanswered.    *)
ShutdownAnswersHooks ==
  stop \in {"closed", "drained"} =>
    \A r \in Requests :
      handler[r] \in {"sending", "check", "blocked"} => EventSet(r)
=============================================================================
