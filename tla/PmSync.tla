------------------------------- MODULE PmSync -------------------------------
(***************************************************************************)
(* Synchronisation with a project-management tool (pm_sync_handler.py).     *)
(* Outbound, the bus watcher calls handle_event for every message it has    *)
(* dealt with: an approved change becomes an issue, task messages set its   *)
(* status, others are comments.  Inbound, the tool's webhooks become        *)
(* messages on the bus, written by an HTTP thread.                          *)
(*                                                                          *)
(* The handler runs on the watcher's thread and stops for nothing, but each *)
(* call and each file it writes is a step after which the process may be    *)
(* gone.  What it raises is logged and the message counts as handled; what  *)
(* the watcher has handled is on disk only when its scan is over, so that a *)
(* crash has the messages of the scan handled again, and is forgotten there *)
(* after seven days (bus_watcher.py).  Of sending to the chat, what matters *)
(* here is that it may fail; the rest is BusSurface's.                      *)
(*                                                                          *)
(* The adapter is external: a call may fail before or after its effect, and *)
(* a search may list the issues in any order.                               *)
(***************************************************************************)
EXTENDS Naturals, FiniteSets

CONSTANTS
  Messages,    \* numbers, in the order of the files' names, which is that of writing
  Type,        \* message -> its type
  Change,      \* message -> its change: field, or None
  Surfaced,    \* messages that are sent to the chat too
  Lasting,     \* messages that may be on the bus for longer than their entry is kept
  Changes,
  HasDir,      \* changes with a directory in openspec/changes
  Like,        \* change -> changes whose issue title contains its name, itself too
  HasSpec,     \* changes whose issue has a spec-path
  Comments,    \* the adapter's capability issue_comments
  None,
  MaxIssues,   \* bound: issues created
  MaxMishaps,  \* bound: failures and restarts
  MaxPrunes    \* bound: times the entry of a message is pruned

OutboundTypes ==
  {"spec-change-approved", "task-assignment", "task-complete", "question"}
InboundTypes == {"spec-update-requested", "pm-issue-created", "pm-issue-updated"}

ASSUME PmSyncAssumption ==
  /\ Messages \subseteq Nat \ {0} /\ IsFiniteSet(Messages)
  /\ Type \in [Messages -> OutboundTypes]
  /\ Change \in [Messages -> Changes \cup {None}]
  /\ Surfaced \subseteq Messages /\ Lasting \subseteq Messages
  /\ HasDir \subseteq Changes /\ HasSpec \subseteq Changes
  /\ Like \in [Changes -> SUBSET Changes] /\ \A c \in Changes : c \in Like[c]
  /\ None \notin Changes
  /\ Comments \in BOOLEAN
  /\ MaxIssues \in Nat /\ MaxMishaps \in Nat /\ MaxPrunes \in Nat

Issues == 1..MaxIssues

\* A webhook: what was done, whether the issue is Done, and whether @spec-agent
\* is named.  That issues are deleted in the tool is left out.
Hooks == [action : {"create", "update"}, change : Changes, done : BOOLEAN, mention : BOOLEAN]

VARIABLES
  where,    \* message -> absent, active or archived
  notices,  \* types of the messages written for webhooks that are yet to be handled
  saved,    \* messages in bus-surfaced.state
  step,     \* where the watcher is
  todo,     \* messages its scan has yet to come to
  seen,     \* messages it has handled by now
  current,  \* the message it is at, or 0
  issue,    \* the issue it is at, or 0
  map,      \* issue-map.json: change -> issue, or 0
  yaml,     \* .pm-sync.yaml of each change: its issue, or 0
  made,     \* issues created so far
  of,       \* issue -> its change
  status,   \* issue -> its status
  hooks,    \* webhooks the tool may deliver, once, again or never
  mishaps,  \* failures and restarts so far
  calls,    \* history: message -> times it created or changed an issue
  echoes,   \* history: calls made for notices
  botched,  \* history: changes that had a failure, or were hit by another's update
  pruned,   \* history: message -> times its entry was pruned while it was on the bus
  overtaken \* history: changes with a message to be handled after a later one

busVars == <<where, notices, saved>>
watchVars == <<step, todo, seen, current, issue>>
fileVars == <<map, yaml>>
toolVars == <<made, of, status, hooks>>
lagVars == <<pruned, overtaken>>
vars == <<busVars, watchVars, fileVars, toolVars, mishaps, calls, echoes, botched, lagVars>>

TypeOK ==
  /\ where \in [Messages -> {"absent", "active", "archived"}]
  /\ notices \subseteq OutboundTypes \cup InboundTypes
  /\ saved \subseteq Messages /\ todo \subseteq Messages /\ seen \subseteq Messages
  /\ step \in {"idle", "pick", "create", "map", "yaml", "update", "comment"}
  /\ current \in Messages \cup {0}
  /\ issue \in 0..MaxIssues
  /\ map \in [Changes -> 0..MaxIssues] /\ yaml \in [Changes -> 0..MaxIssues]
  /\ made \in 0..MaxIssues
  /\ of \in [Issues -> Changes \cup {None}]
  /\ status \in [Issues -> {"new", "in_progress", "done"}]
  /\ hooks \subseteq Hooks
  /\ mishaps \in 0..MaxMishaps
  /\ calls \in [Messages -> Nat] /\ echoes \in Nat
  /\ botched \subseteq Changes
  /\ pruned \in [Messages -> 0..MaxPrunes] /\ overtaken \subseteq Changes

Init ==
  /\ where = [m \in Messages |-> "absent"]
  /\ notices = {} /\ saved = {}
  /\ step = "idle" /\ todo = {} /\ seen = {} /\ current = 0 /\ issue = 0
  /\ map = [c \in Changes |-> 0] /\ yaml = [c \in Changes |-> 0]
  /\ made = 0
  /\ of = [i \in Issues |-> None]
  /\ status = [i \in Issues |-> "new"]
  /\ hooks = {}
  /\ mishaps = 0
  /\ calls = [m \in Messages |-> 0] /\ echoes = 0 /\ botched = {}
  /\ pruned = [m \in Messages |-> 0] /\ overtaken = {}

-----------------------------------------------------------------------------
(* Helpers. *)

Mishap == mishaps < MaxMishaps /\ mishaps' = mishaps + 1

Active == {m \in Messages : where[m] = "active"}

\* The tool tells of what was done to issue i.
Hook(action, i, done) ==
  [action |-> action, change |-> of'[i], done |-> done, mention |-> FALSE]

\* list_issues, and the keyword in the title; a message without a change goes by its subject.
Search(c) == {i \in 1..made : c = None \/ of[i] \in Like[c]}

\* _resolve_issue_id: the issues it may return.
Resolve(c) ==
  IF c # None /\ yaml[c] # 0 THEN {yaml[c]}
  ELSE IF c # None /\ map[c] # 0 THEN {map[c]}
  ELSE Search(c)

-----------------------------------------------------------------------------
(* The bus watcher. *)

ScanStart ==
  /\ step = "idle"
  /\ step' = "pick" /\ todo' = Active \ saved /\ seen' = saved
  /\ todo' # {} \/ notices # {}
  /\ UNCHANGED <<busVars, current, issue, fileVars, toolVars, mishaps, calls, echoes, botched,
                 lagVars>>

\* Faulty: files in the order the directory lists them.
AnyFile(m) == m \in todo

\* Files are gone through by name.
NextFile(m) == m \in todo /\ \A n \in todo : m <= n

\* handle_event returns, or its exception is logged: the message is handled.
Finish(m) ==
  /\ step' = "pick" /\ current' = 0 /\ issue' = 0
  /\ seen' = seen \cup {m}

\* The handler goes on with issue i.
Continue(l, i) == step' = l /\ issue' = i /\ UNCHANGED <<current, seen>>

\* The next file, unless it has been archived by now.
Pick(m) ==
  /\ step = "pick" /\ NextFile(m)
  /\ todo' = todo \ {m}
  /\ IF where[m] # "active" THEN UNCHANGED <<step, current, issue, seen>>
     ELSE CASE Type[m] = "spec-change-approved" ->
                 IF Change[m] = None THEN Finish(m)
                 ELSE step' = "create" /\ current' = m /\ UNCHANGED <<issue, seen>>
            [] Type[m] = "question" /\ ~Comments -> Finish(m)
            [] OTHER ->
                 \/ Resolve(Change[m]) = {} /\ Finish(m)
                 \/ \E i \in Resolve(Change[m]) :
                      /\ step' = IF Type[m] = "question" THEN "comment" ELSE "update"
                      /\ current' = m /\ issue' = i /\ UNCHANGED seen
  /\ UNCHANGED <<busVars, fileVars, toolVars, mishaps, calls, echoes, botched, lagVars>>

\* list_issues fails: there is no issue to be found, and the message is handled.
SearchFails(m) ==
  /\ step = "pick" /\ NextFile(m) /\ where[m] = "active"
  /\ Type[m] # "spec-change-approved" /\ (Type[m] = "question" => Comments)
  /\ Change[m] # None => yaml[Change[m]] = 0 /\ map[Change[m]] = 0
  /\ Mishap
  /\ todo' = todo \ {m} /\ Finish(m)
  /\ botched' = botched \cup ({Change[m]} \ {None})
  /\ UNCHANGED <<busVars, fileVars, toolVars, calls, echoes, lagVars>>

\* A notice.  Only what is of an outbound type would lead to a call.
PickNotice(type) ==
  /\ step = "pick" /\ type \in notices
  /\ notices' = notices \ {type}
  /\ echoes' = IF type \in OutboundTypes THEN echoes + 1 ELSE echoes
  /\ UNCHANGED <<where, saved, watchVars, fileVars, toolVars, mishaps, calls, botched,
                 lagVars>>

\* Changes that have a message of S before one of T.
Behind(S, T) == {c \in Changes : \E m \in S, n \in T : m < n /\ Change[m] = c /\ Change[n] = c}

\* on_info or on_approval raises: the message is left to the next scan, and
\* this one goes on with those after it.
SendFails(m) ==
  /\ step = "pick" /\ NextFile(m) /\ where[m] = "active" /\ m \in Surfaced
  /\ Mishap
  /\ todo' = todo \ {m}
  /\ overtaken' = overtaken \cup Behind({m}, todo)
  /\ UNCHANGED <<busVars, step, seen, current, issue, fileVars, toolVars, calls, echoes,
                 botched, pruned>>

\* The state is saved, without the entries that are seven days old, or cannot
\* be.  That those of archived messages go too shows nowhere, and is left out.
ScanEnd ==
  /\ step = "pick" /\ todo = {}
  /\ step' = "idle"
  /\ \/ \E old \in SUBSET (saved \cap Active \cap Lasting) :
          /\ \A m \in old : pruned[m] < MaxPrunes
          /\ saved' = seen \ old
          /\ pruned' = [m \in Messages |-> IF m \in old THEN pruned[m] + 1 ELSE pruned[m]]
          /\ overtaken' = overtaken \cup Behind(old, saved')
          /\ UNCHANGED mishaps
     \/ Mishap /\ UNCHANGED <<saved, lagVars>>
  /\ seen' = {}
  /\ UNCHANGED <<where, notices, todo, current, issue, fileVars, toolVars,
                 calls, echoes, botched>>

-----------------------------------------------------------------------------
(* _dispatch_outbound. *)

\* A call raises before its effect.
CallRaises ==
  /\ step \in {"create", "update", "comment"} /\ Mishap
  /\ Finish(current)
  /\ botched' = IF step = "comment" \/ Change[current] = None THEN botched
                ELSE botched \cup {Change[current]}
  /\ UNCHANGED <<busVars, todo, fileVars, toolVars, calls, echoes, lagVars>>

\* create_issue makes a new issue, whether the change has one or not.
CreateIssue ==
  /\ step = "create" /\ made < MaxIssues
  /\ made' = made + 1
  /\ of' = [of EXCEPT ![made'] = Change[current]]
  /\ status' = [status EXCEPT ![made'] = "new"]
  /\ hooks' = hooks \cup {Hook("create", made', FALSE)}
  /\ calls' = [calls EXCEPT ![current] = @ + 1]
  /\ \/ Continue("map", made') /\ UNCHANGED <<mishaps, botched>>
     \/ Mishap /\ Finish(current) /\ botched' = botched \cup {Change[current]}
  /\ UNCHANGED <<busVars, todo, fileVars, echoes, lagVars>>

NoMap == [c \in Changes |-> 0]

\* _save_issue_id reads the whole map and writes it back.  A map that cannot be
\* read is begun anew; an error ends the handler, with the map as it was or,
\* once write_text has opened it, with nothing in it.
SaveIssueId ==
  /\ step = "map"
  /\ \/ map' = [map EXCEPT ![Change[current]] = issue]
        /\ Continue("yaml", issue) /\ UNCHANGED <<mishaps, botched>>
     \/ map' = [NoMap EXCEPT ![Change[current]] = issue] /\ Mishap
        /\ Continue("yaml", issue) /\ UNCHANGED botched
     \/ map' \in {map, NoMap} /\ Mishap
        /\ Finish(current) /\ botched' = botched \cup {Change[current]}
  /\ UNCHANGED <<busVars, todo, yaml, toolVars, calls, echoes, lagVars>>

AfterSaving == IF Comments THEN Continue("comment", issue) ELSE Finish(current)

\* Faulty: the id that is there already is kept.
KeepPmSyncYaml ==
  /\ step = "yaml"
  /\ LET c == Change[current]
     IN yaml' = IF c \in HasDir /\ yaml[c] = 0 THEN [yaml EXCEPT ![c] = issue] ELSE yaml
  /\ AfterSaving
  /\ UNCHANGED <<busVars, todo, map, toolVars, mishaps, calls, echoes, botched, lagVars>>

\* _write_pm_sync_yaml, if the change has a directory; an error is
\* logged, and the file may be empty then.
WritePmSyncYaml ==
  /\ step = "yaml"
  /\ LET c == Change[current]
     IN \/ /\ yaml' = IF c \in HasDir THEN [yaml EXCEPT ![c] = issue] ELSE yaml
           /\ UNCHANGED <<mishaps, botched>>
        \/ /\ c \in HasDir /\ Mishap /\ botched' = botched \cup {c}
           /\ yaml' \in {yaml, [yaml EXCEPT ![c] = 0]}
  /\ AfterSaving
  /\ UNCHANGED <<busVars, todo, map, toolVars, calls, echoes, lagVars>>

StatusOf(type) == IF type = "task-complete" THEN "done" ELSE "in_progress"

\* update_issue; its answer comes or is lost.
UpdateIssue ==
  /\ step = "update"
  /\ status' = [status EXCEPT ![issue] = StatusOf(Type[current])]
  /\ calls' = [calls EXCEPT ![current] = @ + 1]
  /\ botched' = IF of[issue] # Change[current] THEN botched \cup {of[issue]} ELSE botched
  /\ UNCHANGED <<made, of>>
  /\ hooks' = hooks \cup {Hook("update", issue, StatusOf(Type[current]) = "done")}
  /\ \/ AfterSaving /\ UNCHANGED mishaps
     \/ Mishap /\ Finish(current)
  /\ UNCHANGED <<busVars, todo, fileVars, echoes, lagVars>>

AddComment ==
  /\ step = "comment"
  /\ Finish(current)
  /\ UNCHANGED <<busVars, todo, fileVars, toolVars, mishaps, calls, echoes, botched, lagVars>>

\* A crash and the next start; between scans it loses nothing.  A file that was
\* being written is left unreadable.
Restart ==
  /\ step # "idle" /\ Mishap
  /\ step' = "idle" /\ todo' = {} /\ seen' = {} /\ current' = 0 /\ issue' = 0
  /\ \/ UNCHANGED fileVars
     \/ step = "map" /\ map' = NoMap /\ UNCHANGED yaml
     \/ /\ step = "yaml" /\ Change[current] \in HasDir
        /\ yaml' = [yaml EXCEPT ![Change[current]] = 0] /\ UNCHANGED map
  /\ UNCHANGED <<busVars, toolVars, calls, echoes, botched, lagVars>>

-----------------------------------------------------------------------------
(* Webhooks. *)

\* Faulty: a finished issue comes back as the task message it came from.
RouteAsTask(h) ==
  IF h.action = "update" /\ h.done THEN "task-complete" ELSE "pm-issue-updated"

\* _route_inbound_event: the type of the message that is written.
Route(h) ==
  CASE h.action = "update" /\ h.done /\ h.change \in HasSpec -> "spec-update-requested"
    [] h.action = "update" /\ h.mention -> "spec-update-requested"
    [] h.action = "create" -> "pm-issue-created"
    [] OTHER -> "pm-issue-updated"

\* Somebody comments on an issue in the tool.
UserComment(h) ==
  /\ h.action = "update" /\ h.mention
  /\ \E i \in 1..made : of[i] = h.change /\ h.done = (status[i] = "done")

\* handle_inbound_webhook and _write_bus_message: the file is new, or has the
\* name of one of the same second, type and title.
InboundWebhook(h) ==
  /\ h \in hooks \/ UserComment(h)
  /\ notices' = notices \cup {Route(h)}
  /\ UNCHANGED <<where, saved, watchVars, fileVars, toolVars, mishaps, calls, echoes,
                 botched, lagVars>>

-----------------------------------------------------------------------------
(* Other agents. *)

Publish(m) ==
  /\ where[m] = "absent"
  /\ \A n \in Messages : n < m => where[n] # "absent"
  /\ where' = [where EXCEPT ![m] = "active"]
  /\ UNCHANGED <<notices, saved, watchVars, fileVars, toolVars, mishaps, calls, echoes,
                 botched, lagVars>>

Archive(m) ==
  /\ where[m] = "active"
  /\ where' = [where EXCEPT ![m] = "archived"]
  /\ botched' = IF m \in saved \/ Change[m] = None THEN botched ELSE botched \cup {Change[m]}
  /\ UNCHANGED <<notices, saved, watchVars, fileVars, toolVars, mishaps, calls, echoes,
                 lagVars>>

-----------------------------------------------------------------------------

Watcher ==
  \/ ScanStart \/ ScanEnd
  \/ \E m \in Messages : Pick(m) \/ SearchFails(m) \/ SendFails(m)
  \/ \E type \in OutboundTypes \cup InboundTypes : PickNotice(type)
  \/ CallRaises \/ CreateIssue \/ SaveIssueId \/ WritePmSyncYaml \/ UpdateIssue \/ AddComment

Next ==
  \/ Watcher
  \/ Restart
  \/ \E h \in Hooks : InboundWebhook(h)
  \/ \E m \in Messages : Publish(m) \/ Archive(m)

Spec == Init /\ [][Next]_vars

-----------------------------------------------------------------------------
(* Properties. *)

\* A message makes one call that changes an issue; every further one is paid
\* for by a crash or a failure, as of the save at the end of a scan, or by its
\* entry being pruned while the message was still on the bus (_scan_once,
\* _save_state).  What the tool sends back leads to none, so that there is no echo.
CallsPaidFor ==
  /\ \A m \in Messages : calls[m] <= 1 + mishaps + pruned[m]
  /\ echoes = 0

\* The two files agree on the issue of a change, unless the message that made
\* it will be handled again, or a failure was logged (_resolve_issue_id
\* believes .pm-sync.yaml, "spec-side canonical", and never compares).
MapsAgree ==
  \A c \in Changes \ botched : yaml[c] \notin {0, map[c]} =>
    \/ map[c] = 0
    \/ \E m \in Active \ saved : Change[m] = c /\ Type[m] = "spec-change-approved"

\* Messages of change c that have been handled for good, of the types in T.
Handled(c, T) == {m \in saved : Change[m] = c /\ Type[m] \in T}

Last(S) == CHOOSE m \in S : \A n \in S : n <= m

\* What the bus says of change c, once its issue was made.
Wanted(c) ==
  LET a == Last(Handled(c, {"spec-change-approved"}))
      tasks == {m \in Handled(c, {"task-assignment", "task-complete"}) : m > a}
  IN IF tasks = {} THEN "new" ELSE StatusOf(Type[Last(tasks)])

\* When the bus has been gone through, the issue a change resolves to has the
\* status of its last message, however often a crash or pruning had messages
\* handled again (handle_bus_event, _save_issue_id): unless one of them was
\* left, by a failed send or by pruning, to be handled after a later one.
StatusFollows ==
  step = "idle" /\ Active \subseteq saved =>
    \A c \in Changes \ (botched \cup overtaken) : Handled(c, {"spec-change-approved"}) # {} =>
      \A i \in Resolve(c) : Cardinality(Resolve(c)) = 1 => status[i] = Wanted(c)

=============================================================================
