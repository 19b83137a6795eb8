----------------------------- MODULE BusSurface -----------------------------
(***************************************************************************)
(* The bus side of the bridge daemon: the watcher polls the active bus and  *)
(* surfaces new messages to the chat, a tap on a card writes an ack and a   *)
(* decision file back to the bus, and a restarted daemon rebuilds the table *)
(* of undecided cards from the files it finds (bus_watcher.py,              *)
(* bus_surface_service.py, bus_decision.py, bus_provenance.py).             *)
(*                                                                          *)
(* Watcher, listener and send coroutines share one asyncio loop: between    *)
(* two awaits of one nothing of the others runs (LoopFree).  Agents write   *)
(* and archive bus files from processes of their own, at any moment, and    *)
(* the daemon may crash or be stopped at any moment: what was on disk       *)
(* stays, what was in memory is gone.                                       *)
(*                                                                          *)
(* The state is untimed: seven days may pass before a scan ends, and two    *)
(* files may be written within one second.  The order in which a scan       *)
(* takes the files is left open.                                            *)
(***************************************************************************)
EXTENDS Naturals, FiniteSets

CONSTANTS
  Messages,    \* bus messages other processes write
  Kind,        \* message -> what provenance and policy make of it
  Proposer,    \* message -> its sender
  Actions,     \* what the user does with cards, of "approve", "reject", "comment"
  MaxMishaps,  \* bound: crashes, failed saves, late send failures, prunings
  MaxTaps      \* bound: taps on their way to the listener at once

\* A garbled file is not UTF-8.
Kinds == {"proposal", "note", "info", "quiet", "forged", "garbled"}
Interactive == {"proposal", "note"}

ASSUME ConstantsAssumption ==
  /\ Kind \in [Messages -> Kinds]
  /\ Actions \subseteq {"approve", "reject", "comment"}
  /\ MaxMishaps \in Nat /\ MaxTaps \in Nat

Verdicts == {"approved", "rejected"}
ToVerdict == [approve |-> "approved", reject |-> "rejected"]
NoAck == "none"
Torn == "torn"    \* a file that was truncated and not written: it exists, empty

\* The files the daemon writes to the bus: decisions and the user's comments.
Written == [about : Messages, what : Verdicts \cup {"reply"}]
Files == Messages \cup Written

ASSUME NamesAssumption == Messages \cap Written = {}

\* A decision file is of a privileged type and has no ledger record; a reply is
\* of type info, which is never surfaced.
KindOf(f) ==
  IF f \in Messages THEN Kind[f]
  ELSE IF f.what = "reply" THEN "quiet" ELSE "forged"

\* An approval's file is named by the second it is written in, a rejection's
\* and a reply's by the second and the proposer.
SameName(f, g) ==
  /\ f.what = g.what
  /\ f.what = "approved" \/ Proposer[f.about] = Proposer[g.about]

VARIABLES
  life,      \* the daemon: down, starting (recovery under way) or up
  where,     \* file -> where its content is
  ack,       \* message -> content of its human.ack file
  saved,     \* files named in bus-surfaced.state
  watcher,   \* where the watcher's coroutine is
  todo,      \* files the scan (or recovery) listed and has not come to
  seen,      \* the scan's copy of the surfaced state
  current,   \* the message being sent while the watcher awaits the transport
  pending,   \* messages in BusSurfaceService._pending_bus
  handle,    \* pending entries whose handle names their latest card
  deciding,  \* the decision whose ack is written and whose broadcast is not
  taps,      \* user actions on their way to the listener
  edits,     \* message -> scheduled edits of its cards that have not run
  posted,    \* message -> times it was delivered to the chat
  live,      \* message -> its cards that still have buttons
  mishaps,   \* failures so far
  halfway    \* history: messages half decided when the daemon went down

diskVars == <<where, ack, saved>>
scanVars == <<watcher, todo, seen, current>>
tableVars == <<pending, handle, deciding>>
chatVars == <<taps, edits, posted, live>>
vars == <<life, diskVars, scanVars, tableVars, chatVars, mishaps, halfway>>

Places == {"unwritten", "active", "quarantine", "archived", "overwritten"}

TypeOK ==
  /\ life \in {"down", "starting", "up"}
  /\ where \in [Files -> Places]
  /\ ack \in [Messages -> Verdicts \cup {"acknowledged", NoAck, Torn}]
  /\ saved \subseteq Files
  /\ watcher \in {"idle", "scanning", "alerting", "sending", "sent"}
  /\ todo \subseteq Files /\ seen \subseteq Files
  /\ current \subseteq Messages
  /\ pending \subseteq Messages /\ handle \subseteq pending
  /\ deciding \subseteq [about : Messages, what : Verdicts]
  /\ taps \subseteq Messages \X Actions
  /\ edits \in [Messages -> Nat]
  /\ posted \in [Messages -> Nat] /\ live \in [Messages -> Nat]
  /\ mishaps \in Nat
  /\ halfway \subseteq Messages

Init ==
  /\ life = "down"
  /\ where = [f \in Files |-> "unwritten"]
  /\ ack = [m \in Messages |-> NoAck]
  /\ saved = {}
  /\ watcher = "idle" /\ todo = {} /\ seen = {} /\ current = {}
  /\ pending = {} /\ handle = {} /\ deciding = {}
  /\ taps = {} /\ edits = [m \in Messages |-> 0]
  /\ posted = [m \in Messages |-> 0] /\ live = [m \in Messages |-> 0]
  /\ mishaps = 0
  /\ halfway = {}

-----------------------------------------------------------------------------
(* Helpers. *)

Bus == {f \in Files : where[f] = "active"}

\* iter_bus_messages catches no UnicodeDecodeError: one garbled file and it raises.
Listable == \A f \in Bus : KindOf(f) # "garbled"

\* The asyncio loop is at none of its synchronous stretches.
LoopFree == life # "down" /\ watcher # "scanning" /\ deciding = {}

MayFail == mishaps < MaxMishaps
Mishap == mishaps' = mishaps + 1

\* Acked by a tap, and the broadcast of that decision has not been written.
Unbroadcast(m) ==
  ack[m] \in Verdicts /\ where[[about |-> m, what |-> ack[m]]] = "unwritten"

\* The ack or the broadcast of a tap is missing.
HalfDecided(m) == ack[m] = Torn \/ Unbroadcast(m)

\* The file f is written over: one of the same name, if the second is the same.
Overwritten(f) ==
  {{}} \cup {{g} : g \in {h \in Bus \cap Written : h # f /\ SameName(h, f)}}

\* write_text of f on the active bus.
WriteFile(f) ==
  \E lost \in Overwritten(f) :
    where' = [g \in Files |-> IF g = f THEN "active"
                              ELSE IF g \in lost THEN "overwritten" ELSE where[g]]

\* write_text that fails, at the open or after it has truncated the file: what it
\* leaves has no front matter, and no reader takes it for a message.
TearFile(f) ==
  \E lost \in Overwritten(f) :
    where' = [g \in Files |-> IF g \in lost THEN "overwritten" ELSE where[g]]

-----------------------------------------------------------------------------
(* Agents, tools and the operator. *)

Publish(m) ==
  /\ where[m] = "unwritten"
  /\ where' = [where EXCEPT ![m] = "active"]
  /\ UNCHANGED <<life, ack, saved, scanVars, tableVars, chatVars, mishaps, halfway>>

Archive(m) ==
  /\ where[m] = "active"
  /\ where' = [where EXCEPT ![m] = "archived"]
  /\ UNCHANGED <<life, ack, saved, scanVars, tableVars, chatVars, mishaps, halfway>>

-----------------------------------------------------------------------------
(* The watcher's scan, in the asyncio loop. *)

\* The surfaced state is loaded and the bus listed.  The scans of a suspended or
\* archived program end at the lifecycle gate, and while a garbled file is on the
\* bus every scan ends at the listing: they change nothing and are left out.
ScanStart ==
  /\ life = "up" /\ LoopFree /\ watcher = "idle" /\ Listable
  /\ watcher' = "scanning"
  /\ todo' = Bus \ saved
  /\ seen' = saved
  /\ UNCHANGED <<life, diskVars, current, tableVars, chatVars, mishaps, halfway>>

\* An unverified privileged file is moved; a failing move ends the scan (ScanAborts).
Quarantine(f) ==
  /\ watcher = "scanning" /\ f \in todo /\ KindOf(f) = "forged"
  /\ f \in Bus
  /\ where' = [where EXCEPT ![f] = "quarantine"]
  /\ watcher' = "alerting"
  /\ todo' = todo \ {f}
  /\ UNCHANGED <<life, ack, saved, seen, current, tableVars, chatVars, mishaps, halfway>>

\* The alert is sent or fails; the scan goes on either way.
AlertDone ==
  /\ watcher = "alerting" /\ LoopFree
  /\ watcher' = "scanning"
  /\ UNCHANGED <<life, diskVars, todo, seen, current, tableVars, chatVars, mishaps, halfway>>

\* Faulty: the provenance check comes after the policy, which passes the file over.
PassOverUnchecked(f) ==
  /\ watcher = "scanning" /\ f \in todo /\ KindOf(f) \in {"quiet", "forged"}
  /\ seen' = seen \cup {f}
  /\ todo' = todo \ {f}
  /\ UNCHANGED <<life, diskVars, watcher, current, tableVars, chatVars, mishaps, halfway>>

PassOver(f) ==
  /\ watcher = "scanning" /\ f \in todo /\ KindOf(f) = "quiet"
  /\ seen' = seen \cup {f}
  /\ todo' = todo \ {f}
  /\ UNCHANGED <<life, diskVars, watcher, current, tableVars, chatVars, mishaps, halfway>>

\* An interactive message is put in the table before its card is sent.
StartSend(m) ==
  /\ watcher = "scanning" /\ m \in todo
  /\ KindOf(m) \in Interactive \cup {"info"}
  /\ watcher' = "sending"
  /\ current' = {m}
  /\ todo' = todo \ {m}
  /\ pending' = IF KindOf(m) \in Interactive THEN pending \cup {m} ELSE pending
  /\ handle' = handle \ {m}
  /\ UNCHANGED <<life, diskVars, seen, deciding, chatVars, mishaps, halfway>>

Delivered(m) ==
  /\ watcher = "sending" /\ m \in current
  /\ watcher' = "sent"
  /\ posted' = [posted EXCEPT ![m] = @ + 1]
  /\ live' = [live EXCEPT ![m] = @ + (IF KindOf(m) \in Interactive THEN 1 ELSE 0)]
  /\ UNCHANGED <<life, diskVars, todo, seen, current, tableVars, taps, edits, mishaps, halfway>>

\* The entry may have been decided and dropped meanwhile: its handle goes with it.
SendReturns(m) ==
  /\ watcher = "sent" /\ m \in current /\ LoopFree
  /\ watcher' = "scanning"
  /\ current' = {}
  /\ handle' = handle \cup ({m} \cap pending)
  /\ seen' = seen \cup {m}
  /\ UNCHANGED <<life, diskVars, todo, pending, deciding, chatVars, mishaps, halfway>>

\* Faulty: the message is recorded as surfaced before its send, and stays so.
SendFailsSeen(m) ==
  /\ m \in current /\ LoopFree
  /\ \/ watcher = "sending" /\ UNCHANGED mishaps
     \/ watcher = "sent" /\ MayFail /\ Mishap
  /\ watcher' = "scanning"
  /\ current' = {}
  /\ pending' = pending \ {m}
  /\ handle' = handle \ {m}
  /\ seen' = seen \cup {m}
  /\ UNCHANGED <<life, diskVars, todo, deciding, chatVars, halfway>>

\* The entry is dropped and the message stays unseen: the next scan retries.
SendFails(m) ==
  /\ m \in current /\ LoopFree
  /\ \/ watcher = "sending" /\ UNCHANGED mishaps
     \/ watcher = "sent" /\ MayFail /\ Mishap
  /\ watcher' = "scanning"
  /\ current' = {}
  /\ pending' = pending \ {m}
  /\ handle' = handle \ {m}
  /\ UNCHANGED <<life, diskVars, todo, seen, deciding, chatVars, halfway>>

\* Faulty: the state is saved only when something was passed over.
ScanEndUnsaved ==
  /\ watcher = "scanning" /\ todo = {}
  /\ watcher' = "idle"
  /\ seen' = {}
  /\ UNCHANGED <<life, diskVars, todo, current, tableVars, chatVars, mishaps, halfway>>

\* Entries older than seven days, all of an earlier scan, are left out of the save.
ScanEnd ==
  /\ watcher = "scanning" /\ todo = {}
  /\ IF seen = saved THEN UNCHANGED <<saved, mishaps>>
     ELSE \/ saved' = seen /\ UNCHANGED mishaps
          \/ \E old \in SUBSET saved \ {{}} :
               saved' = seen \ old /\ MayFail /\ Mishap
  /\ watcher' = "idle"
  /\ seen' = {}
  /\ UNCHANGED <<life, where, ack, todo, current, tableVars, chatVars, halfway>>

\* The file to quarantine has vanished or cannot be renamed, or the save fails:
\* run() logs and the scan's additions to the state, if any, are lost.  A rename
\* may fail in every scan: when it costs no additions it is not counted.
ScanAborts ==
  /\ watcher = "scanning"
  /\ \/ (\E f \in todo \ Bus : KindOf(f) = "forged") /\ Mishap
     \/ (\E f \in todo \cap Bus : KindOf(f) = "forged")
          /\ IF seen = saved THEN UNCHANGED mishaps ELSE MayFail /\ Mishap
     \/ todo = {} /\ seen # saved /\ MayFail /\ Mishap
  /\ watcher' = "idle"
  /\ todo' = {} /\ seen' = {}
  /\ UNCHANGED <<life, diskVars, current, tableVars, chatVars, halfway>>

-----------------------------------------------------------------------------
(* The user, and the listener's dispatch. *)

\* Approve and Reject need a card with buttons, a comment any card.
Tap(m, a) ==
  /\ life # "down" /\ Cardinality(taps) < MaxTaps
  /\ IF a = "comment" THEN posted[m] > 0 ELSE live[m] > 0
  /\ taps' = taps \cup {<<m, a>>}
  /\ UNCHANGED <<life, diskVars, scanVars, tableVars, edits, posted, live, mishaps, halfway>>

\* The listener takes the tap and finds the message in the table.
Dispatch(m, a) ==
  /\ LoopFree /\ <<m, a>> \in taps /\ m \in pending
  /\ taps' = taps \ {<<m, a>>}

\* No entry; or a comment on a card the reply index does not hold.
DropTap(m, a) ==
  /\ LoopFree /\ <<m, a>> \in taps
  /\ m \notin pending \/ a = "comment"
  /\ taps' = taps \ {<<m, a>>}
  /\ UNCHANGED <<life, diskVars, scanVars, tableVars, edits, posted, live, mishaps, halfway>>

\* The entry stays: the decision is still open.
RecordComment(m) ==
  /\ Dispatch(m, "comment")
  /\ WriteFile([about |-> m, what |-> "reply"])
  /\ UNCHANGED <<life, ack, saved, scanVars, tableVars, edits, posted, live, mishaps, halfway>>

\* Faulty: the entry is not cleared, only the card is edited.
SettleKeepsEntry(m) ==
  /\ UNCHANGED pending
  /\ handle' = handle \ {m}
  /\ edits' = [edits EXCEPT ![m] = @ + (IF m \in handle THEN 1 ELSE 0)]

\* The entry is cleared and its card, if it has a handle, is edited.
Settle(m) ==
  /\ pending' = pending \ {m}
  /\ handle' = handle \ {m}
  /\ edits' = [edits EXCEPT ![m] = @ + (IF m \in handle THEN 1 ELSE 0)]

\* Faulty: the ack file is given the name of the button.
AcknowledgeVerbatim(m, a) ==
  /\ Dispatch(m, a) /\ a # "comment" /\ Kind[m] = "note"
  /\ ack' = [ack EXCEPT ![m] = a]
  /\ Settle(m)
  /\ UNCHANGED <<life, where, saved, scanVars, deciding, posted, live, mishaps, halfway>>

\* Approve or Reject on a message that is no proposal: the ack alone.
Acknowledge(m, a) ==
  /\ Dispatch(m, a) /\ a # "comment" /\ Kind[m] = "note"
  /\ ack' = [ack EXCEPT ![m] = "acknowledged"]
  /\ Settle(m)
  /\ UNCHANGED <<life, where, saved, scanVars, deciding, posted, live, mishaps, halfway>>

\* Faulty: the broadcast is written first.
WriteAckLate(m, a) ==
  /\ Dispatch(m, a) /\ a # "comment" /\ Kind[m] = "proposal"
  /\ deciding' = {[about |-> m, what |-> ToVerdict[a]]}
  /\ UNCHANGED <<life, diskVars, scanVars, pending, handle, edits, posted, live, mishaps, halfway>>

\* record_decision writes the ack first.
WriteAck(m, a) ==
  /\ Dispatch(m, a) /\ a # "comment" /\ Kind[m] = "proposal"
  /\ ack' = [ack EXCEPT ![m] = ToVerdict[a]]
  /\ deciding' = {[about |-> m, what |-> ToVerdict[a]]}
  /\ UNCHANGED <<life, where, saved, scanVars, pending, handle, edits, posted, live, mishaps, halfway>>

\* The disk refuses the ack, or a comment: the entry stays for another tap.  The
\* ack file was truncated by then, or not even opened.  (A crash in the middle of
\* the write is this step and GoDown.)
WriteFails(m, a) ==
  /\ Dispatch(m, a)
  /\ IF a = "comment" THEN TearFile([about |-> m, what |-> "reply"]) /\ UNCHANGED ack
     ELSE UNCHANGED where /\ (UNCHANGED ack \/ ack' = [ack EXCEPT ![m] = Torn])
  /\ UNCHANGED <<life, saved, scanVars, tableVars, edits, posted, live, mishaps, halfway>>

Broadcast(d) ==
  /\ d \in deciding
  /\ WriteFile(d)
  /\ deciding' = {}
  /\ Settle(d.about)
  /\ UNCHANGED <<life, ack, saved, scanVars, taps, posted, live, mishaps, halfway>>

\* Faulty: the entry is cleared although the decision was not recorded.
BroadcastFailsCleared(d) ==
  /\ d \in deciding
  /\ deciding' = {}
  /\ Settle(d.about)
  /\ UNCHANGED <<life, diskVars, scanVars, taps, posted, live, mishaps, halfway>>

\* The exception leaves the entry in the table.
BroadcastFails(d) ==
  /\ d \in deciding
  /\ TearFile(d)
  /\ deciding' = {}
  /\ UNCHANGED <<life, ack, saved, scanVars, pending, handle, chatVars, mishaps, halfway>>

\* TelegramTransport.update takes the buttons off, or fails.
RunEdit(m) ==
  /\ edits[m] > 0 /\ LoopFree
  /\ edits' = [edits EXCEPT ![m] = @ - 1]
  /\ \/ live' = [live EXCEPT ![m] = @ - 1]
     \/ UNCHANGED live
  /\ UNCHANGED <<life, diskVars, scanVars, tableVars, taps, posted, mishaps, halfway>>

-----------------------------------------------------------------------------
(* The daemon's life. *)

\* A stop cancels the watcher at its await, a crash ends it anywhere; both lose
\* the table, the scan and the taps not yet dispatched.
GoDown ==
  /\ life # "down" /\ MayFail /\ Mishap
  /\ life' = "down"
  /\ halfway' = halfway \cup {m \in Messages : HalfDecided(m)}
  /\ watcher' = "idle" /\ todo' = {} /\ seen' = {} /\ current' = {}
  /\ pending' = {} /\ handle' = {} /\ deciding' = {}
  /\ taps' = {} /\ edits' = [m \in Messages |-> 0]
  /\ UNCHANGED <<diskVars, posted, live>>

\* The listener runs from here on; the recovery lists state and bus.  With entries
\* in the state and a garbled file on the bus start() raises, and the daemon is gone.
Boot ==
  /\ life = "down" /\ (saved = {} \/ Listable)
  /\ life' = "starting"
  /\ todo' = saved \cap Bus
  /\ UNCHANGED <<diskVars, watcher, seen, current, tableVars, chatVars, mishaps, halfway>>

\* Faulty: a restarted daemon starts with an empty table.
RecoverNothing(f) ==
  /\ life = "starting" /\ f \in todo
  /\ todo' = todo \ {f}
  /\ UNCHANGED <<life, diskVars, watcher, seen, current, tableVars, chatVars, mishaps, halfway>>

\* A surfaced, interactive message gets its entry back, without a handle, unless an
\* ack file exists: its content is not looked at.
Recover(f) ==
  /\ life = "starting" /\ f \in todo
  /\ todo' = todo \ {f}
  /\ pending' = IF KindOf(f) \in Interactive /\ ack[f] = NoAck THEN pending \cup {f} ELSE pending
  /\ UNCHANGED <<life, diskVars, watcher, seen, current, handle, deciding, chatVars, mishaps, halfway>>

StartWatcher ==
  /\ life = "starting" /\ todo = {}
  /\ life' = "up"
  /\ UNCHANGED <<diskVars, scanVars, tableVars, chatVars, mishaps, halfway>>

-----------------------------------------------------------------------------
\* What a scan does between two awaits.
ScanWork ==
  \/ ScanEnd \/ ScanAborts
  \/ \E f \in Files : Quarantine(f) \/ PassOver(f)
  \/ \E m \in Messages : StartSend(m)

SendEnds == \E m \in Messages : SendReturns(m)

Scan == ScanStart \/ ScanWork \/ AlertDone \/ SendEnds \/ \E m \in Messages : SendFails(m)

Listen ==
  \/ \E m \in Messages : RecordComment(m) \/ RunEdit(m)
  \/ \E m \in Messages, a \in Actions :
       DropTap(m, a) \/ Acknowledge(m, a) \/ WriteAck(m, a) \/ WriteFails(m, a)

Decide == \E d \in deciding : Broadcast(d) \/ BroadcastFails(d)

Restart == Boot \/ StartWatcher \/ \E f \in Files : Recover(f)

Transport == \E m \in Messages : Delivered(m)

Environment ==
  \/ GoDown
  \/ \E m \in Messages : Publish(m) \/ Archive(m)
  \/ \E m \in Messages, a \in Actions : Tap(m, a)

Next == Scan \/ Listen \/ Decide \/ Restart \/ Transport \/ Environment

\* The code's synchronous stretches end.  The loop runs its ready callbacks
\* first come first served, so dispatches cannot keep the watcher from its next
\* scan or from the end of an await.  Of the transport it is assumed that it
\* does not refuse every send for ever.
Fairness ==
  /\ WF_vars(Decide) /\ WF_vars(ScanWork)
  /\ SF_vars(ScanStart) /\ SF_vars(AlertDone) /\ SF_vars(SendEnds)
  /\ SF_vars(Transport)

SafeSpec == Init /\ [][Next]_vars
Spec == SafeSpec /\ Fairness

-----------------------------------------------------------------------------
(* Properties. *)

\* A tap on the card of a surfaced message that nobody decided is not dead: while
\* the daemon is up the message is in the table, whatever restarts, failed saves,
\* failed acks and re-sends came before (what _recover_undecided_pendings is for).
\* The one way to a dead card is a daemon that goes down with the ack file torn:
\* the recovery takes the empty file for a decision (bus_surface_service.py:194).
NoDeadCard ==
  \A m \in Messages :
    /\ life = "up" /\ m \in (saved \cup seen) \cap Bus /\ Kind[m] \in Interactive
    /\ ack[m] \in {NoAck, Torn} /\ m \notin halfway
    => m \in pending

\* A decision whose broadcast failed after the ack was written can be tapped
\* again, unless the daemon went down in between (record_decision's exception path).
HalfDecisionRetriable ==
  \A m \in Messages :
    (life = "up" /\ m \in (saved \cup seen) \cap Bus /\ Unbroadcast(m) /\ m \notin halfway)
    => m \in pending

\* Agents are told of a decision only after the ack file that keeps a restarted
\* daemon from offering the message again is there, however the daemon was
\* interrupted, and also when a later ack was torn (record_decision: ack, then
\* broadcast).
BroadcastBacked ==
  \A m \in Messages : \A v \in Verdicts :
    where[[about |-> m, what |-> v]] # "unwritten" =>
      ack[m] \in Verdicts \cup {Torn} /\ Kind[m] = "proposal"

\* What the human and the agents are promised: a decision is a tap on a card
\* that was shown, a tap rules once, and agents are told the human's last word.
Log == INSTANCE DecisionLog WITH
  Proposals <- {m \in Messages : Kind[m] = "proposal"},
  Notes <- {m \in Messages : Kind[m] = "note"},
  Buttons <- Actions \ {"comment"},
  Verdict <- ToVerdict,
  None <- NoAck,
  shown <- {m \in Messages : posted[m] > 0},
  open <- pending,
  word <- [m \in Messages |-> IF ack[m] = Torn THEN NoAck ELSE ack[m]],
  ruling <- deciding,
  told <- {d \in [about : Messages, what : Verdicts] : where[d] # "unwritten"}

\* Whatever fails in between, the daemon keeps that promise (_dispatch_bus_decision,
\* record_decision: ack, then broadcast, then the entry is popped).
LogSpec == Log!Spec

\* A message is delivered again only after something went wrong: the surfaced
\* state, the table and the retry of failed sends together never double a card
\* on their own (bus-surfaced.state dedup).
DuplicatesNeedMishaps == \A m \in Messages : posted[m] <= 1 + mishaps

\* Without a mishap a proposal gets one verdict, even when the second tap was
\* made before the first was handled (pop after record_decision).
OneVerdict ==
  mishaps = 0 =>
    \A m \in Messages : \E v \in Verdicts : where[[about |-> m, what |-> v]] = "unwritten"

\* A privileged file without a ledger record is never surfaced, marked as
\* surfaced or given a table entry, by a scan or by the recovery (quarantine).
ForgedInert ==
  \A f \in Files : KindOf(f) = "forged" =>
    f \notin saved \cup seen \cup pending \cup current

\* A file no scan gets past: a garbled one, or an unverified privileged one as long
\* as its rename fails.
BusBlocked == \E f \in Bus : KindOf(f) \in {"garbled", "forged"}

\* A surfaced-kind message on the bus of an active program reaches the chat,
\* unless the daemon goes down, the file is archived, or a file that makes every
\* scan fail stays on the bus for good (bus_watcher.py:272-283: a failed scan is
\* logged and tried again).
EventuallySurfaced ==
  \A m \in Messages : Kind[m] \in Interactive \cup {"info"} =>
    \/ <>[]BusBlocked
    \/ (life = "up" /\ m \in Bus) ~> (posted[m] > 0 \/ life = "down" \/ m \notin Bus)

\* The decision broadcast to the active bus stays there for the agents' next
\* check (bus_decision.py, module docstring).
DecisionsStayOnBus == \A f \in Written : where[f] # "quarantine"
=============================================================================
