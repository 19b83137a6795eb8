# A TLA+ development of otaman-bridge

The bridge is a small daemon between coding agents and a human with a phone. A
hook of an agent asks it whether a tool call may go ahead; the daemon shows a card
with buttons in a chat, and the hook waits for the answer. It also watches the
agents' message bus (a directory of files), shows what concerns the human, and
writes the human's decisions back to the bus. Around that sit session spawning,
away-from-keyboard handling, sign-in and project-management sync.

This directory models the daemon in TLA+, checks the models with TLC on small
instances, and proves the safety properties for all instances with TLAPS. Source
paths are relative to `src/otaman_bridge/` unless said otherwise.

## 1. Inventory

| component | state it keeps | operations | talks to |
|---|---|---|---|
| approval path (`approval_service.py`, `bridge_approval.py`) | table of slots (response, event, deadline, card handle) | POST /approval, resolve, snooze and re-post, cancel all; the hook's own timeout and fall-back | HTTP threads, asyncio loop, transport |
| daemon (`daemon.py`) | endpoint file, HTTP server, loop thread, shutdown flag | start, stop, reply dispatch, health | everything |
| bus watcher (`bus_watcher.py`) | `bus-surfaced.state`, the scan's copy of it | scan, quarantine, pass over, surface, save and prune | bus directory, surface service |
| bus surface service (`bus_surface_service.py`) | table of pending cards with handles | on_approval, dispatch of taps, recovery, stop | watcher, transport, decision writer |
| decision writer, provenance, policy (`bus_decision.py`, `bus_provenance.py`, `bus_surface.py`) | ack and bus files, quarantine | write ack, broadcast, reply; verify, move; decide | bus directory |
| Telegram transport (`transports/telegram.py`) | topic cache, reply index, inbound queue | send, update, poll, resolve topic | chat service |
| AFK (`afk.py`, `idle_afk.py`, `afk_service.py`, `stop_notify.py`) | the marker file, last notified state, debounce file | on, off, idle check, notify | daemon, hooks |
| sessions (`spawn_decision.py`, `session_registry.py`, `session_linger.py`, `runner_client.py`, `triggers/`, `fs_event_source.py`) | registry of sessions, linger timers, seen events | spawn, claim, heartbeat, linger, reset, cancel | runner service, bus |
| PM sync (`pm_sync_handler.py`, `registries/link_index.py`) | issue ids in the bus files, link index | outbound create and update, inbound webhook | issue tracker |
| sign-in (`ce_web_auth.py`, `auth.py`, `auth_stack.py`, `otaman_bridge_ee/`) | refresh tokens, login states, web sessions, registered clients | login, refresh and rotate, revoke, register, sweep | core manager, identity provider |
| MCP server, inbox (`mcp_*.py`, `inbox.py`) | message files of each user | send, list, mark read, kill a session | bus, runner |
| command line (`cli.py`) | - | run, stop | daemon, through its endpoint file and port |
| installer, configuration, telemetry | - | - | - |

What is hard: three kinds of thread meet in the approval table (a handler thread
per hook, HTTP threads of POST /reply, the asyncio loop) and the stop thread
overtakes them; each await of a coroutine lets taps in; the daemon may die between
any two file writes and must carry on from what is on disk; sends fail after they
were delivered; timers race the answers they bound. What makes each part correct:

- approval: every hook gets one answer, a decision that came in time is the
  answer, nothing but a human's vote lets a call through, nobody waits for ever;
- bus: a surfaced card stays decidable through restarts, nothing is surfaced twice
  or decided twice unless something failed, what was forged stays inert, and what
  should reach the human does;
- AFK: nobody takes away a marker he could see, and away and back take effect;
- sessions: a task starts one session, an addressee has one, and a row of the
  registry is given free again;
- sign-in: a used token stays used, a removed user stays out, clients that ask for
  the same share an app and keep it;
- messages: what a sender, a reader or a listing was told is so, of what was written;
- PM sync: a message is one call, and the issue a change resolves to is its own;
- daemon: one serves, and `bridge stop` says so only when it does not.

`PROJECT.json` lists all components and, under `hazards`, the places in the code
where these things are at risk.

## 2. Modules

| module | what it is |
|---|---|
| `HookVerdict` | abstract: what a hook is promised |
| `ApprovalService` | the approval path, implements `HookVerdict` |
| `ApprovalProofs` | proofs about it |
| `DecisionLog` | abstract: what human and agents are promised of a decision |
| `BusSurface` | watcher, surface service, decision writer and quarantine together, implements `DecisionLog` |
| `BusProofs` | proofs about it, the refinement among them |
| `AfkMarker` | the AFK marker file with its commands, hooks and the idle monitor |
| `AfkProofs` | proofs about it |
| `SessionTable` | abstract: what the session registry promises |
| `SessionSpawn` | file triggers, spawn handler, registry and linger timers, implements `SessionTable` |
| `SessionProofs` | proofs about it, the refinement among them |
| `RefreshStore` | refresh tokens of the community edition |
| `WebLogin` | login states and browser sessions of the enterprise edition |
| `ClientRegistration` | the DCR shim; extends `WebLogin`, whose sessions guard it |
| `TeamInbox` | the message files under the MCP message tools |
| `SignIn` | composes the three above into what an HTTP request reaches |
| `InboxProofs` | the inductive invariant of `TeamInbox` |
| `SignInProofs` | the theorems about `SignIn`, with the invariants of the rest |
| `PmSync` | synchronisation with a project-management tool |
| `PmSyncProofs` | proofs about it |
| `DaemonHost` | `bridge run` and `bridge stop`, the endpoint file and the ports |
| `DaemonProofs` | proofs about it |
| `MCApproval`, `MCBus`, `MCSessions`, `MCSignIn`, `MCPmSync`, `MCDaemonHost` | instances for TLC (`AfkMarker` needs none) |

Definitions whose comment begins with *Faulty* are not part of the specification:
each is a plausible bug, used to see that the property it is paired with in
`PROJECT.json` (`mutants`) notices it.

### HookVerdict and ApprovalService

`HookVerdict` has a request go from `none` to `asked` to one verdict, which is a
fail-safe (`ask`, `timeout`, hung up, reset) or one of the votes cast for that
request, and which comes eventually.

`ApprovalService` has one action per step of each thread. A handler thread
registers the slot and submits the first card's send (`HandleApproval`), stores the
handle or gives the send up after ten seconds (`HandleStored`, `SendGivenUp`), and
then runs the loop of `_PendingApproval.wait`: test of the deadline first
(`CheckDeadline`), then the wait (`WaitElapsed`, `WakeUp`), then the pop, the edit
and the answer (`Finish`). `Dispatch` and `HandleReply` look the slot up under the
lock; `Resolve` and `HandleSnooze` act on what was found after the lock is
released, so a slot may have been popped in between. `SnoozeRepost`, `SendReturns`
and `SendFails` are the coroutines. `Stop`, `CancelOne`, `CloseServer`, `DrainLoop`
follow `BridgeDaemon.stop`; `Exit` is the process ending, by a crash or because
`cmd_run` saw the flag before stop() was through. `HookGivesUp` is the hook's
socket timeout.

Time is in ticks. What can run within a tick does (`Due` blocks `Tick`), and network
delays are arbitrary. One thing is left open: `wait()` polls in chunks of five seconds
at most, and the last one may end just before the deadline. So `WaitElapsed` may be
taken from the last tick on, and the thread that is then between two polls may find the
deadline passed although the event has been set meanwhile: such a decision is answered
as a timeout, which is what `HeardInTime` leaves out of `inTime`. Earlier polls are not
shown, because the thread is back in `event.wait` within the tick. The configuration
scales 540, 555, 10 and 900 seconds down to 2, 3, 1 and 2, keeping the order of the
first three; `snooze_hook` uses a snooze longer than the hook's patience, as the code
has it.

### DecisionLog and BusSurface

`DecisionLog` keeps who was shown a card, the taps on their way, which messages are
open, the human's last word on each, the ruling in progress, and what the agents
were told. A tap needs a card that was shown and is used up by ruling; ruling needs
the message to be open and nothing else to be in progress; what is told is the ruling
that is the last word, and closes the message. A restart forgets what is in progress
and leaves the rest.

`BusSurface` implements it: `open` is the table of pending cards, `word` the ack files,
`told` the decision files ever written. The files of the bus are `Messages`, written by
others, and `Written`, the daemon's decisions and replies; `where` says whether a file
is on the active bus, quarantined, archived, or lost under a later file of the same
name. A message has a kind: what `decide()` and the provenance check make of it
(`proposal` and `note` get a card with buttons, `info` a plain message, `quiet` none,
`forged` is privileged and unverified, `garbled` is not UTF-8). The daemon's own
decision files are `forged`, because their types are privileged and nothing in the
daemon writes a ledger record.

A scan is `ScanStart`, one of `Quarantine`, `PassOver`, `StartSend` per file, and
`ScanEnd` with its save and pruning. `ScanAborts` is a scan that raises: the file to
quarantine is gone or cannot be renamed, in this scan or in every one, or the save
fails. No listing gets past a garbled file (`Listable`): scans then change nothing, and
with entries in the surfaced state the next start of the daemon raises as well. While
the watcher is in `scanning` nothing else runs on the loop; at its awaits (`alerting`,
`sending`, `sent`) taps are dispatched. `WriteAck` and `Broadcast` are the two writes of
`record_decision`: the loop is held between them, but a crash may come. A write that
fails has truncated its file by then or not (`WriteFails`, `BroadcastFails`); a torn ack
is `Torn`, which `Recover` takes for a decision, since it asks only whether the file
exists. Messages whose ack or broadcast was missing when the daemon went down are in
`halfway`. `GoDown` is a crash or a stop: what was in memory is lost. `Boot`, `Recover`
and `StartWatcher` are `BusSurfaceService.start`, with the listener already running.
External: agents writing and archiving messages (`Publish`, `Archive`).

Left out: scans of a program whose lifecycle state is inert (they end at once), the
PM-sync callback of the scan (`PmSync` has it), the migration of the legacy state file,
Details taps, a surfaced state that cannot be read and then counts as empty, and the
order of files within a scan (any order is allowed).

### AfkMarker

One file under `.otaman` (or, left by an earlier version, `.maestro`) says that the
user is away. Commands and hooks are `Procs`: `otaman afk on` is `OpenMarker`,
`SaveMarker`; a hook or `afk status` is `ReadAfk` and, if the marker has expired,
`DropExpired`; `otaman afk off` reads likewise, then `ClearMarker` and
`ClearLegacy`. The daemon's monitor goes through `MonitorGate` (lifecycle gate),
`MonitorStat` (path, age of the last prompt), `MonitorLook` (source of the marker,
decision), then `MonitorOpen` and `MonitorSave`, or `MonitorUnlink`, and
`MonitorTell`. Every step is one access to the disk, so each process acts on what
it saw some steps ago.

A write is two steps, because `write_text` truncates the file on opening and the
text arrives on closing. Two writes at once overlay each other (`Overlaid`): with a
longer old text its end remains, which may break the file or add an expiry. A
file unlinked in between takes the text with it (`linked`).

A removal may be refused by the system. Commands and hooks pass over that
(`TryUnlink`), and `afk off` returns with the marker left: `kept` says in which
directories. The monitor's check ends there. `MaxFaults` bounds refusals and restarts
together. A send of the monitor may fail, as often as it likes: it is logged, and the
state counts as notified all the same (`Sent`, `lost`).

`raced` is history, not state of the program: another process changed a marker
after this one had looked. The properties allow a race what the code cannot
exclude, and nothing else. `said` is what the last AFK message told the user.
External: the hook that touches `last-user-activity` (`Prompt`), the clock, the
owner of the program's lifecycle state. The source of a marker is what the monitor
greps for and `whole` is whether it parses as a whole, as the hooks need it.

Left out: parsing of durations, the bridge's answers to the messages, and the
debounce file of `stop_notify.py`.

### SessionTable and SessionSpawn

`SessionTable` lets a session take a free row, miss its row for good, or give it up for
good. `SessionSpawn` has two threads that dispatch files: the watchdog's observer
(`Observe`) and the caller of `process_pending` (`ListPending`, `TakePending`). Each
goes through `Dispatch` (test and mark of the seen path under the lock), `ReadFile` (the
retries, or the drop), `CheckSession` (the handler up to the look at the registry),
`Spawn` (the call of the runner, whose answer may be lost or raise what the handler does
not catch), `Claim` (after which, or before which, the registry may raise),
`LingerStart`, or `Review`. A timer is `TimeOut`, `Fire` (pops whatever entry its
addressee has by now), `Release` (`on_expire`, which may raise: that is logged, and the
row stays). Every step is under one lock at most; the handler holds none from one to the
next. `Restart` keeps the rows, which are in a database, and loses the timers. A file
appears empty and its text comes later, as the front matter alone first or all at once,
or it does not decode (`garbled`): `_read_with_retry` catches `OSError` only, so such a
file ends the observer, or the loop of `process_pending` (`dead`). What that keeps from
its threads is `Stranded`.

Nothing in the source wires these parts to one another. The handler is called as
`tests/test_e2e_spawn.py` calls it, with a linger manager besides; that `on_expire`
releases the row, and that `process_pending` follows `start`, is what the docstrings of
`SessionLingerManager` and `FileSystemEventSource` ask of a caller. `excused` and
`orphans` are history: addressees for which the code cannot keep sessions in step
(overlapping handlers, a lost answer, an expired row of a running session, a crash
before the claim, a registry that raises in it), and sessions whose row lost what would
give it free (their timer was replaced by a session that was refused the row, the claim
or `on_expire` raised, a restart). The docstring of `session_linger.py` (lines 7-9) has
a new task reset the timer; `handle_bus_event` never calls `reset`, and the model
follows it.

### RefreshStore, WebLogin, ClientRegistration, TeamInbox and SignIn

`RefreshStore`: a request logs in (`Login`, `Issue`) or presents a token
(`Present`), which is rotated under the store's lock (`Rotate`, and the refusals),
and then asks the core manager for a session (`NewSession`) or, if the user is gone,
revokes what the user has (`NoSession`, `Revoke`). A save is done or raises, after
the change in memory; `RefreshRestart` loads the file. Clients keep and present
every token they were ever given.

`WebLogin` has the pending states and sessions, in memory: `StartLogin`, `Take`,
`Complete`, `Logout`, and expiry. `ClientRegistration` is the identity provider as
the shim sees it, with the steps of a registration between its calls (`Find`,
`Create`, `CreateConflict`, `FindAgain`), the sweep (`SweepList`, `SweepDelete`), the
management token, and an administrator who removes apps. Any call may fail before
or after its effect; one that times out raises what the sweep does not catch, and
ends it. Redirect URIs are records of scheme, host and rest, and
`Fingerprint` is the bag of them with the software id, which is what hashing the
sorted list tells apart.

`TeamInbox` is one user's directory. A letter is `WriteMessage` (the name is opened
exclusively) and `SendMessage` (the text is there, the sender told). What the file says
by then is `text`: all of the letter, a part of it with its front matter, or something
that does not parse. The first is the rule; `WriteShort` is an `os.write` that takes a
part of the text, which nobody notices; and a subject may end the front matter where it
likes, since it is written as it is. A mark is `Look`, `ReadText`, `OpenTmp`, `Put`,
`Replace` for each name, because `_atomic_set_read_at` uses one temporary name in all
threads: a second call may truncate what the first has written, and a rename may move a
file another has open (`at` follows it). A listing is the list of names and then file by
file. `together` and `lost` are history: names that two calls were marking at once, and
those of them where one of the calls failed or died with the shared file unwritten. All
letters of a second are taken to have one sender and subject, which is when names
collide.

`SignIn` puts them together. Which edition is installed does not change, and the
messages share nothing with signing in, since a call is identified once when it comes
in; so the state space is that of the three, one at a time (`Parts`), not their product.

### PmSync

The watcher goes through the messages by name (`Pick`) and calls the handler, which
makes an issue (`CreateIssue`, `SaveIssueId`, `WritePmSyncYaml`, `AddComment`) or
updates one (`Resolve`, `UpdateIssue`). The scan is one thread, so these steps do not
interleave with one another; each is a place where it may fail or the process may die
(`CallRaises`, `SearchFails`, `Restart`). A file that cannot be written is left as it
was or truncated, and a map that cannot be read is begun anew (`SaveIssueId`,
`WritePmSyncYaml`). A message whose send to the chat fails is passed over and left to
the next scan, which may be after later ones of its change (`SendFails`), and the entry
of one that is still on the bus after seven days is pruned and the message handled again
(`ScanEnd`, `pruned`). Webhooks are answered by another thread, which writes a message
to the same bus (`InboundWebhook`, `Route`). `botched` and `overtaken` are history:
changes whose failure was only logged, and those with a message left to be handled after
a later one. Messages are written in the order of their names; their provenance and the
chat are `BusSurface`'s.

### DaemonHost

A start is `Look`, a ping (`PingAnswered`, `PingRefused`, `PingLate`), `RemoveStale`,
`Bind`, `OpenFile`, `WriteFile`; `stop` is run by the main thread and by the thread
of POST /shutdown (`CallStop`, `SetFlag`, `CloseServer`, `RemoveFile`), and `Exit` is
`bridge run` returning. `bridge stop` reads the file, posts, waits for the file to
go, pings and removes. Nothing locks the file, so between any two of these steps
the other processes go on. A file that is deleted while a writer has it open takes
the text with it (`writers`). Every daemon has a port of its own (`--port 0`, the
default); the port of one that is gone may be given to another program
(`PortTaken`). A file of other hands may parse and name no port (`Odd`): a start counts
it as stale and `bridge stop` removes it. Whoever asks a daemon waits for a time and takes
no answer for its death: a start's ping for a second (`PingLate`), `bridge stop` for five
with its POST (`PostTimedOut` when the connection is not taken, `PostLate` when the answer
does not come, which fails the command) and for one with its ping (`PingTimedOut`).
`overlap` and `late` are history: a start while another process started or stopped, and a
daemon taken for dead that was not.

## 3. Runs

| run | instance | what it shows |
|---|---|---|
| `approval` | one request, a button for approval and one for snooze, one POST /reply thread, one snooze | `TypeOK`; `NobodyStranded`; `InTimeDecisionWins`; `SnoozeOutlivesRepost`; `OnlySnoozedHookGivesUp`; `CardTellsTheAnswer`; refinement of `HookVerdict` (`VerdictSpec`); `PendingDrains` |
| `snooze_hook` | snooze longer than the hook's patience | violation: the hook hangs up in mid-snooze |
| `shutdown_hook` | a request that arrives during stop | violation: it is not answered at once |
| `bus` | a proposal, its decision files, a forged file; two mishaps, two taps | `NoDeadCard`; `HalfDecisionRetriable`; `DuplicatesNeedMishaps`; `OneVerdict`; `ForgedInert`; refinement of `DecisionLog` (`LogSpec`) |
| `bus_notes` | a note to the human, a forged and a garbled file, comments; one mishap; fairness | `TypeOK`; `EventuallySurfaced` |
| `self_quarantine` | one proposal | violation: the daemon quarantines its own decision |
| `afk` | two processes, one command, one restart or refused removal, three clock values; fairness | `TypeOK`; `AloneItTells`; `NothingTakenUnseen`; `OffEndsAfk`; `AwayRouted`; `BackLocal` |
| `afk_silent` | one process, one command | violation: AFK comes on without a message |
| `sessions` | two tasks of one addressee, two sessions each, one restart; fairness | `TypeOK`; `SpawnedOnce`; `OneSessionEach`; `RowWillGo`; refinement of `SessionTable` (`TableSpec`); `TaskAnswered` |
| `signin` | two requests, a user, four tokens, a failed save, a restart; two callbacks, one login; two registrations, of four requests two of which are not valid, two apps, a mishap; two calls, two letters in two seconds, one failed or short write or restart | `TypeOK`; `UsedOnce`; `RemovedStaysOut`; `SameClient`; `ClientKept`; `RegisteredUnless`; `ToolsTellTrue` |
| `pm_sync` | a change approved, worked on and finished, another whose name is part of its title; three issues, two mishaps, one pruned entry | `CallsPaidFor`; `MapsAgree`; `StatusFollows` |
| `host` | three daemons, one `bridge stop`, a malformed file or none from before, one mishap; fairness | `OneServing`; `StoppedIsTrue` |

The four violations are disagreements between a comment or docstring and the
code; `PROJECT.json` quotes them under `findings`.

Bounds. Requests do not interact but through the listener, which handles one reply
at a time, so one request shows the races; the theorems cover any number of
requests and snoozes. In `bus` two mishaps allow a failed save followed by a crash,
a crash in the recovery after a crash in a decision, and a re-sent card that fails
again; each may also be a pruning. `MaxMishaps` and `MaxTaps` are the only caps; `Publish`
happens once per message. A failed write of a decision or a rename that is refused again
and again is no mishap and has no bound. In `bus_notes` the forged and the garbled file
may come and go at any time, so that scans are cut short, or blocked, before and after
the note is there.

In `afk` two processes and the monitor give every pair of actors and three writers at
once; one `on` or `off` command among any number of hooks is enough for each race with
the monitor, one restart for its lost memory or one refused removal, and with time to
live and threshold of one tick, three clock values let a marker expire and a user become
idle after a prompt, in either order. A time that stops at `MaxTime` is a user who stays
away or, with a prompt at `MaxTime`, one who is back.

In `sessions` two tasks of one addressee meet in every step of the two threads, and a
third session (a message spawned again after the restart) is there for timers of older
ones to hit; `MaxSpawns` bounds sessions per message. In `signin` two threads of each
kind give every race of two; four tokens are two logins and two rotations, or a chain of
rotations; two apps let one be swept and made again. `MaxAttempts` is 1 (a collision and
the error after the last suffix), not 99. `Limit` is as large as the number of letters,
so that what a limit cuts off is no subject of a property. Threads are symmetric there,
and no liveness is checked with them. In `pm_sync` four messages have an update before
and after each failure; two mishaps let a crash follow a failed save, or a failed send
be followed by a failed call. The first message is the approval; it is urgent and may
stay on the bus for good, so that it may be left behind by a failed send or handled
again after it was pruned, ahead of the tasks that follow from it; three issues are
those of an approval handled three times. In `host` the third daemon meets a predecessor
that stops and a successor that starts; one mishap is one crash, late answer (to a start
or to `bridge stop`) or port taken over.

Deadlock is not checked where the system may really stop: `ApprovalService` after
`Exit`, `SessionSpawn` with nothing left on the bus, `SignIn` and `PmSync` when all
that the bounds allow is done, `DaemonHost` when every daemon has ended. It is checked
for `BusSurface` and `AfkMarker`, where there is always a scan or a check to come, or a
file that blocks the scans and may be taken away.

Fairness. For `ApprovalService`: handler threads, the clock and the loop's
callbacks go on; SF for a re-post, because asyncio serves its ready queue in order
and the listener cannot keep it off for ever. For `BusSurface`: weak fairness of
the synchronous stretches, strong fairness of the watcher's wake-ups for the same
reason, and strong fairness of `Transport`: the chat service does not refuse every
send for ever. For `AfkMarker`: the clock goes on, the monitor polls for ever, and a
started process runs to its end. That hooks run is no fairness but a premise of
`AwayRouted`, as is that the user stays away, or back. For `SessionSpawn`: threads
that have something to do go on, each on its own, and timers fire. For `DaemonHost`: a
thread that is in `stop()`, or has been woken to call it, goes on; the main loop looks
at the flag every half second. Humans, other processes, shutdown, crashes and
restarts get none.

## 4. Proofs

The proof modules prove an inductive invariant and derive the safety properties from it,
for any set of requests, messages, threads or processes and any value of the bounds. The
assumptions are those on the constants: for `ApprovalService` the order of the timeouts
that `timeout_seconds + 15` and the ten seconds of the send guarantee, for `BusSurface`
that messages and the daemon's own files have different names, for `AfkMarker` that
times are positive and the monitor is not one of the processes, for `SignIn` that `None`
is no user, that bounds are natural numbers and that a request's redirects are a
sequence, for `SessionSpawn` that `None` is no agent, message or session, for `PmSync`
that messages are finitely many positive numbers, of outbound types, for `DaemonHost`
that `None`, `Torn` and `Odd` are no daemons. Each part of an invariant has lemmas with one
step per action. The invariants were model-checked on the instances above before they
were proved.

`ApprovalProofs`. `NobodyStranded` and the rest say nothing of handlers, entries and
timers at once, so they are not inductive. `IInv` adds: who is in the table and in
`toCancel` and when a slot may be resolved (`LifeInv`), that every response, tap and
looked-up slot goes back to a vote, a deadline or the shutdown (`VoteInv`), that an edit
scheduled for a card is of the answer returned or of a snooze (`StatusInv`), and how
deadline, sleep and age are ordered (`TimeInv`). `ImplementsVerdict` shows that initial
states and steps map to those of `HookVerdict`, its liveness aside. What that
specification is for is proved through it: `VerdictsAreBacked` (a hook is told allow or
deny only after a vote for its own request) and `VerdictsAreFinal` are shown of the
steps of `HookVerdict` and carried over. `DecisionBeatsDeadline` holds for any timeouts.
Of what is set in the last tick only what finds the thread in `event.wait` is sure to be
heard; `VoteInv` says that after a decision in time the thread has an answer that is no
timeout, or will be woken for it.

`BusProofs`. `NoDeadCard` alone is not inductive: the scan could hold a message
twice, or drop an entry whose message is already in the state. `IInv` adds that
work list, current message and surfaced state are disjoint (`ScanInv`), that what
is being sent is in the table, and, while the table is rebuilt, that what is not in
it is still to come (`TableInv`), the same for half-made decisions (`HalfInv`), that
a message not settled was delivered at most once per mishap (`DupInv`), that
scheduled edits and the handle are of different cards that still have buttons
(`EditInv`), that taps and decisions are of delivered messages (`TapInv`), and that
without a mishap a decided message is in neither table nor work list (`FirstRun`).
`ImplementsDecisionLog` maps each action to one of `DecisionLog` or to a stutter. It
needs of the invariant that the decision under way is the one acked and still in the
table (`DecideInv`), and that a card with buttons was delivered (`EditInv`); that a file
another one overwrites stays told, as does one moved to quarantine, is in `ToldStays`.
`ToldWereShown`: agents are told of messages only that the human was shown. A torn ack
is no decision for `NoDeadCard` and no word for `DecisionLog`; it is excused only from
where its daemon went down with it, which is where `HalfInv` puts such messages.

`AfkProofs`. `NothingTakenUnseen` is about a step, so what the monitor and the
processes remember must be tied to the file: `IInv` says that, unless raced, the
directory and source the monitor has seen are those on disk (`MonitorSaw`), and that
a process about to delete has seen an expired marker, or, in `clearOld`, an empty
`.otaman` unless its removal was refused (`ProcsSaw`). `AloneItTells` holds because, with
no command and no restart, processes only read, and delete what is under `.maestro`
(`AloneProcs`), the monitor alone writes, and only where nothing is (`AloneFile`), and what
it counts as notified is known at each point of its check, and with it what the user was
told, unless the last message was lost (`AloneSaid`).

`SignInProofs` proves all seven properties of the run `signin`. The three parts take
turns only in what moves, so each has an invariant that the others' steps leave
alone.

- Refresh tokens (`RefreshInv`): a token on record, in memory or on disk, has not been
  exchanged, and those beyond the last one minted have not either (`OnceInv`); without
  this a restart could bring an exchanged token back. `OutInv` adds that memory and
  disk hold the same tokens, but for expired ones, as long as no save has failed.
- Login states (`LoginInv`): a state pending or taken has made no session, and is in
  one place.
- Registration: apps have names of their own and those doomed are
  old (`AppInv`), an answer names an app of the request's fingerprint (`AnswerInv`), and
  a registration that saw a 409 has an app to find unless one was removed under
  it (`AgainInv`). `SameFingerprint` is the lemma that requests which differ in the
  order of their redirects have one fingerprint.
- Messages (`InboxProofs`): `SentIsKept` needs to know what is in the temporary file, in
  every thread's hands and behind every open file. `Holds` says that wherever the letter
  of a sent name is found it is that letter (`LetterInv`); `Alone` that a name no two
  calls have marked at once has its file whole (`AloneInv`); `TearInv` that an empty
  file has a writer, name by name, unless a shared marking of it was cut off (`lost`);
  `WriteInv`, `MarkInv` and `ListInv` say the same of names being opened, of marks and
  of what a listing still owes.

`SessionProofs`. A count of sessions says nothing of the threads that may still start
one. `OnceInv`: a thread that has not reached the runner handles a message for which
nothing was started in this life of the bridge, and no two threads handle one.
`MadeInv`: whatever is in a row, a timer or a thread's hands was started, so a new
session is nowhere yet. `ClaimInv`: the session of a thread before its claim is in no
row and not over, which makes the claim a `Take` or a `Miss`. `TimerInv`: a session has
no timer before its thread starts one. `AloneInv`: until an addressee is excused, one
thread spawns for it, only while its row is free, and what runs has the row or is about
to claim it. `RowWillGo` is inductive beside these: what takes a row's timer away
without giving another puts its session in `orphans` in the same step, and a session
that was refused the row is not the row's. `RegistryKeepsPromise` maps each step to
`Take`, `Miss`, `GiveUp` or a stutter of `SessionTable`; `RowsStayApart` is carried over
from there. `NoTaskForgotten` is the safety core of `TaskAnswered`: a file without an
outcome is still to be dispatched by the observer, or to be listed, or on the list, or
in a thread's hands (`OwedInv`, which is inductive only with the clause that a path
marked as seen is in some thread's hands), or those it would have come to have ended at
a file that cannot be decoded (`Stranded`).

`PmSyncProofs`. `ScanInv`: a message is handled, being handled or yet to come, and in
one of these only. `CallInv`: a message neither handled nor past its call has made as
many calls as there were mishaps and prunings of it at most: pruning takes a message
back from the handled to those yet to come, and is counted by message. `EchoInv`:
webhooks leave messages of inbound types only. `MakeInv`: the message that makes an
issue stays on the bus, or its change is in `botched`, until both files have the issue.
`IssueInv`: an issue known by its id was made. `DifferInv`: where the files differ, the
message that made the later issue is not yet handled in this scan either, and not at its
comment, where both files are written.

`StatusFollows` speaks of the end of a scan, so the invariant has to say what holds in
the middle of one, and after a crash or a pruning that has some of its messages handled
again. `Follows(c)`: a message about `c` is still to be handled, or the last one that
was handled has set the status of the issue `c` resolves to. It is kept because the
messages of a change are handled in order, one change at a time (`OrderInv`, for changes
that are not in `overtaken`), and are on the bus, without gaps, until they are saved
(`BusInv`), so that one that is handled is the last of those handled by then
(`FollowDone`), and because what a crash or pruning takes back is on the bus as well
(`FollowBack`). `LastInv` says that there is a last one, of whatever part of the handled
messages is left. `OwnInv`: what the files name are issues of the change itself, and a
handled approval has made one; so a change that resolves to a single issue resolves to
its own (`OwnIssue`), also after the map was torn or begun anew for another change
(`MapLost`), and an update that hits it comes from the change, or puts it in `botched`.
`FreshInv`: the issue at hand has the status its message asks for, up to the comment.

`DaemonProofs`. `OneServing` says nothing of the file by which starts find one another.
A daemon is `Up` while it answers or a thread of it is in `stop()`. `AloneInv`: as long
as no start overlapped and no answer was late, one process starts at a time, past its
ping nobody is up, and one daemon is up at most, whom the file names until it removes
it; while a start is waiting for its ping, that is the daemon it asks. `StopInv` is
about the two threads of `stop()`: a thread past the flag leaves it set, and while the
port is open and the flag set, one of them is about to close it, so the port cannot stay
open behind a removed file. `ToldInv`: while `bridge stop` is under way, whoever is up
is its target, and once it removes the file or is through, its target's port is closed,
unless an answer was late: to `PingTimedOut` a daemon that serves looks like one that
does not. `NameInv`: only daemons that served are named. The safety half of
`StoppedIsTrue` is `ToldTrue`. Of its other half, that a daemon which took the request
ends, the safety core is `AskedGoOn`: only daemons that serve are asked (`AskedInv`),
and by `StopInv` the thread of the request is on its way, or has left the flag that
wakes the main loop; so there is always a step that brings the end nearer.

Every safety property of the runs that pass is proved. Only model-checked is what
stands under fairness (`PendingDrains`, `EventuallySurfaced`, `AwayRouted`, `BackLocal`,
`TaskAnswered`, the second half of `StoppedIsTrue`, the liveness of `HookVerdict`), which is
out of the prover's reach. `BroadcastBacked` is proved and not checked by a run of its
own: `LogSpec` contains it, since nothing can be told that is not the last word.

## 5. Plan

Done: approval path, bus path, AFK marker, sign-in with registration and messages,
sessions, PM sync and the daemon's lifecycle, with proofs; three abstract
specifications with refinement proofs. What is left:

1. Liveness proofs, once the prover has `ENABLED`: `NoTaskForgotten`, `AskedGoOn` and
   `NobodyStranded` are the invariants they would start from.
2. Modelling: the topic cache of the transport, and `heartbeat` and `cancel` if the
   source comes to call them.

Not planned any more are abstract specifications of `TeamInbox` and `AfkMarker`. A letter
that two calls mark at once can be lost if a write fails then, and a marker can be
replaced unseen in a race; so either mapping would have to take its letters or marker from
history variables, and would say less than `SentIsKept`, `ListingIsFull` and
`NothingTakenUnseen` do.

## 6. Not modelled

- Text of messages, formatting, logging, HTTP parsing and routing, the schemas of MCP
  tools, installers, configuration, telemetry: no state that another part reads.
- The decision table of `bus_surface.py`: a pure function of one message, whose rules
  have unit tests each; `BusSurface` takes its outcome as the message's kind.
- The topic cache of the Telegram transport: a double-checked lock within one class,
  nothing else depends on it. The debounce file of `stop_notify.py`: an entry that
  two hooks lose costs one more message.
- `heartbeat`, `cleanup_stale`, `reset` and `cancel` of the session modules and
  `purge_expired` of the login stores: nothing in the source calls them.
- The protocols of the identity provider, the issue tracker and the runner: calls
  that succeed or fail, before or after their effect.

What the models contain and no property speaks of, because the code promises
nothing there:

- a crash between an ack and its broadcast is never repaired, recovery skips acked
  messages (`bus_decision.py:167`, excluded from `HalfDecisionRetriable` by name), and so
  it does with an ack that was truncated and not written: that card is dead after the
  restart (`bus_surface_service.py:194`, excluded from `NoDeadCard` likewise);
- one file on the bus that is not UTF-8, or an unverified one that cannot be moved, keeps
  everything from being surfaced (`bus_surface.py:320`, `bus_watcher.py:328`, the
  `BusBlocked` of `EventuallySurfaced`);
- `otaman afk off` that was refused the removal of a marker says nothing of it
  (`afk.py:278`, `kept`), and an AFK message that could not be sent is not repeated
  (`afk_service.py:120`, `lost`);
- decision files of one second overwrite one another (`bus_decision.py:96`), and so do
  the messages written for webhooks (`pm_sync_handler.py:818`);
- taps made while the daemon is down never arrive (`telegram.py:474`), and a comment on
  a card that has left the reply index is ignored (`telegram.py:236`);
- a row of the session registry survives a restart without a timer, and absorbs tasks
  until somebody removes it, and so does one whose timer another session took, or whose
  `on_expire` or claim raised (`session_registry.py:141`, `session_linger.py:161`, the
  `orphans` of `RowWillGo`); that of a session that was killed or has ended does so
  until its timer fires (`mcp_tools.py:868`);
- a login completed while an older refresh of the same user revokes loses its token
  (`ce_web_auth.py:216`);
- the fingerprint of a client ignores its grant types (`dcr_shim.py:515`);
- a bus file that cannot be decoded ends the observer or `process_pending` for the life of
  the bridge (`triggers/filesystem.py:181`, the `Stranded` of `TaskAnswered`);
- a letter that `os.write` cut short, or whose subject ends the front matter, counts as
  sent (`inbox.py:130`, `inbox.py:298`; `text`);
- a call of PM sync that failed is never repeated (`pm_sync_handler.py:206`, `botched`), and
  a message that is handled late, because it was not sent or was pruned, sets a status that
  is out of date (`bus_watcher.py:121`, `bus_watcher.py:379`, `overtaken`);
- `mark_all_before` marks letters that came after the listing within the target's second
  (`inbox.py:211`);
- any HTTP answer on the port of the endpoint file counts as a daemon's
  (`daemon.py:1010`), a late answer to POST /shutdown fails the command although the
  daemon stops (`cli.py:366`), and a daemon that does not take its connection in time, or
  answers the ping late, is reported as stopped (`cli.py:372`, `cli.py:404`, `late`).

`PROJECT.json` gives the reason for each component.
