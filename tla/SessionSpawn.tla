---------------------------- MODULE SessionSpawn ----------------------------
(***************************************************************************)
(* Automatic sessions: a task assignment that appears on the bus starts a   *)
(* headless session on the runner, unless a warm one of the same agent and  *)
(* human absorbs it; a linger timer gives the row of the registry free      *)
(* again (triggers/filesystem.py, spawn_decision.py, runner_client.py,      *)
(* session_registry.py, session_linger.py).                                 *)
(*                                                                          *)
(* Two threads dispatch files: the watchdog's observer, and the one that    *)
(* calls process_pending after start() to take up what came while the       *)
(* bridge was off.  They share the set of seen paths, the registry and the  *)
(* timers, each under a lock of its own, and the handler holds none of      *)
(* these across its steps.  Each timer is a thread.  The registry is a      *)
(* database on disk, everything else of the bridge is in memory.            *)
(*                                                                          *)
(* The handler is called as tests/test_e2e_spawn.py calls it, with a linger *)
(* manager besides, and on_expire releases the row, as that manager's       *)
(* docstring asks; start() is followed by process_pending, as its docstring *)
(* asks.  heartbeat, cleanup_stale, reset and cancel have no caller and are *)
(* left out.                                                                *)
(***************************************************************************)
EXTENDS Naturals, FiniteSets

CONSTANTS
  Messages,     \* files of the active bus directory
  Header,       \* message -> what the file says, see Headers
  Agents,       \* all agents
  Owned,        \* those of owned_agents
  Humans,
  None,         \* no agent, no message, no session
  MaxSpawns,    \* bound: sessions started for one message
  MaxRestarts   \* bound: crashes and restarts of the bridge

Headers == [type : {"task-assignment", "other"}, to : Agents, from : Humans,
            line : Agents \cup {None},      \* agent of the first owned task line
            note : {"headless", "interactive", "absent", "bad"}]

ASSUME ConstantsAssumption ==
  /\ Header \in [Messages -> Headers]
  /\ Owned \subseteq Agents
  /\ None \notin Agents \cup Messages \cup (Messages \X (1..MaxSpawns))
  /\ MaxSpawns \in Nat /\ MaxRestarts \in Nat

Threads == {"observer", "pending"}
Addressees == Agents \X Humans
Sessions == Messages \X (1..MaxSpawns)

-----------------------------------------------------------------------------
(* What handle_bus_event makes of a file. *)

\* The text is there as far as the front matter: no task line is seen yet.
Line(m, file) == IF file = "head" THEN None ELSE Header[m].line

\* Anything else than a task for an owned agent is passed over, and so is one
\* with an annotation that is reserved or unknown.
IsTask(m, file) ==
  /\ Header[m].type = "task-assignment"
  /\ Header[m].to \in Owned
  /\ Line(m, file) \in Owned => Header[m].note # "bad"

\* The agent of the task line comes before the one the message is addressed to.
KeyOf(m, file) ==
  <<IF Line(m, file) \in Owned THEN Line(m, file) ELSE Header[m].to, Header[m].from>>

Headless(m, file) == Line(m, file) \in Owned /\ Header[m].note = "headless"

SessionKey(s) == KeyOf(s[1], "whole")

-----------------------------------------------------------------------------

VARIABLES
  bus,       \* message -> its file: absent, empty, garbled, head, whole, gone
  events,    \* files whose creation the observer has yet to dispatch
  seen,      \* paths some thread has dispatched
  todo,      \* what process_pending found; None before it has looked
  pc,        \* thread -> where it is
  msg,       \* thread -> the message it handles
  sid,       \* thread -> the session it has spawned
  row,       \* addressee -> the session of its row
  entry,     \* addressee -> the session its linger entry is of
  armed,     \* sessions whose timer runs
  fired,     \* sessions whose timer can no longer be cancelled
  expiring,  \* sessions whose on_expire is under way
  live,      \* sessions the runner has going
  restarts,  \* restarts so far
  spawns,    \* history: message -> sessions started for it
  outcome,   \* history: message -> what this life of the bridge made of it
  late,      \* history: sessions that were refused their row
  let,       \* history: sessions whose row was released
  excused,   \* history: addressees for which sessions got out of step
  orphans    \* history: sessions whose row lost what would give it free

threadVars == <<pc, msg, sid>>
lingerVars == <<entry, armed, fired, expiring>>
historyVars == <<spawns, outcome, late, let, excused, orphans>>
vars == <<bus, events, seen, todo, threadVars, row, lingerVars, live, restarts, historyVars>>

TypeOK ==
  /\ bus \in [Messages -> {"absent", "empty", "garbled", "head", "whole", "gone"}]
  /\ events \subseteq Messages /\ seen \subseteq Messages
  /\ todo \in {None} \cup SUBSET Messages
  /\ pc \in [Threads -> {"idle", "read", "check", "spawn", "claim", "linger", "review",
                      "dead"}]
  /\ msg \in [Threads -> Messages \cup {None}]
  /\ sid \in [Threads -> Sessions \cup {None}]
  /\ row \in [Addressees -> Sessions \cup {None}]
  /\ entry \in [Addressees -> Sessions \cup {None}]
  /\ armed \subseteq Sessions /\ fired \subseteq Sessions /\ expiring \subseteq Sessions
  /\ live \subseteq Sessions
  /\ restarts \in 0..MaxRestarts
  /\ spawns \in [Messages -> 0..MaxSpawns]
  /\ outcome \in [Messages -> {"none", "dropped", "skipped", "warm", "failed", "error",
                               "spawned", "review"}]
  /\ late \subseteq Sessions /\ let \subseteq Sessions
  /\ excused \subseteq Addressees /\ orphans \subseteq Sessions

\* The observer has been started, process_pending is yet to be called.
Init ==
  /\ bus = [m \in Messages |-> "absent"]
  /\ events = {} /\ seen = {} /\ todo = None
  /\ pc = [t \in Threads |-> "idle"]
  /\ msg = [t \in Threads |-> None]
  /\ sid = [t \in Threads |-> None]
  /\ row = [k \in Addressees |-> None]
  /\ entry = [k \in Addressees |-> None]
  /\ armed = {} /\ fired = {} /\ expiring = {} /\ live = {}
  /\ restarts = 0
  /\ spawns = [m \in Messages |-> 0]
  /\ outcome = [m \in Messages |-> "none"]
  /\ late = {} /\ let = {} /\ excused = {} /\ orphans = {}

-----------------------------------------------------------------------------
(* The world. *)

\* Another process creates a file, and its text arrives later; what is there may
\* end in the middle of a character, or be no UTF-8 at all.
Publish(m) ==
  /\ bus[m] = "absent"
  /\ bus' = [bus EXCEPT ![m] = "empty"]
  /\ events' = events \cup {m}
  /\ UNCHANGED <<seen, todo, threadVars, row, lingerVars, live, restarts, historyVars>>

Write(m) ==
  /\ bus[m] \in {"empty", "garbled", "head"}
  /\ \E file \in {"garbled", "head", "whole"} \ {bus[m]} : bus' = [bus EXCEPT ![m] = file]
  /\ UNCHANGED <<events, seen, todo, threadVars, row, lingerVars, live, restarts, historyVars>>

Archive(m) ==
  /\ bus[m] = "whole"
  /\ bus' = [bus EXCEPT ![m] = "gone"]
  /\ UNCHANGED <<events, seen, todo, threadVars, row, lingerVars, live, restarts, historyVars>>

\* A session comes to its end.
SessionEnds(s) ==
  /\ s \in live
  /\ live' = live \ {s}
  /\ UNCHANGED <<bus, events, seen, todo, threadVars, row, lingerVars, restarts, historyVars>>

\* POST /kill: the call may fail before or after its effect, and does nothing to
\* a session that has ended (404).
RunnerKill(s) == s \in live /\ live' \in {live, live \ {s}}

\* kill_session_for_user: its row in the registry stays, and absorbs tasks until
\* its timer fires.
KillSession(s) ==
  /\ RunnerKill(s)
  /\ UNCHANGED <<bus, events, seen, todo, threadVars, row, lingerVars, restarts, historyVars>>

-----------------------------------------------------------------------------
(* Dispatch. *)

At(t, l) == pc[t] = l
Goto(t, l) == pc' = [pc EXCEPT ![t] = l]

\* The handler returns, or what it raised is logged.
Returns(t, o) ==
  /\ Goto(t, "idle")
  /\ msg' = [msg EXCEPT ![t] = None] /\ sid' = [sid EXCEPT ![t] = None]
  /\ outcome' = [outcome EXCEPT ![msg[t]] = o]

\* Faulty: the path is marked in a step of its own.
DispatchUnmarked(t, m) ==
  /\ At(t, "idle")
  /\ Goto(t, "read") /\ msg' = [msg EXCEPT ![t] = m]
  /\ UNCHANGED <<bus, seen, sid, row, lingerVars, live, restarts, historyVars>>

\* _dispatch: test and mark under the lock.
Dispatch(t, m) ==
  /\ At(t, "idle")
  /\ seen' = seen \cup {m}
  /\ IF m \in seen THEN UNCHANGED threadVars
     ELSE Goto(t, "read") /\ msg' = [msg EXCEPT ![t] = m] /\ UNCHANGED sid
  /\ UNCHANGED <<bus, row, lingerVars, live, restarts, historyVars>>

Observe ==
  \E m \in events : Dispatch("observer", m) /\ events' = events \ {m} /\ UNCHANGED todo

\* Faulty: the directory is not looked at.
ListNothing ==
  /\ todo = None /\ todo' = {}
  /\ UNCHANGED <<bus, events, seen, threadVars, row, lingerVars, live, restarts, historyVars>>

\* process_pending lists the directory once ...
ListPending ==
  /\ todo = None
  /\ todo' = {m \in Messages : bus[m] \notin {"absent", "gone"}}
  /\ UNCHANGED <<bus, events, seen, threadVars, row, lingerVars, live, restarts, historyVars>>

\* ... and dispatches what it found.
TakePending ==
  /\ todo # None
  /\ \E m \in todo : Dispatch("pending", m) /\ todo' = todo \ {m} /\ UNCHANGED events

\* _read_with_retry: ready as soon as there is a front matter; otherwise it
\* tries again, and in the end the file is dropped, and stays seen.  Only OSError
\* is caught: a file that cannot be decoded ends the observer's thread, or the
\* loop of process_pending.
ReadFile(t) ==
  /\ At(t, "read")
  /\ \/ bus[msg[t]] \in {"head", "whole"} /\ Goto(t, "check") /\ UNCHANGED <<msg, sid, outcome>>
     \/ bus[msg[t]] \in {"empty", "gone"} /\ Returns(t, "dropped")
     \/ bus[msg[t]] = "garbled" /\ Goto(t, "dead") /\ UNCHANGED <<msg, sid, outcome>>
  /\ UNCHANGED <<bus, events, seen, todo, row, lingerVars, live, restarts,
                 spawns, late, let, excused, orphans>>

-----------------------------------------------------------------------------
(* The registry, and what a client sees of the runner. *)

Sessioned(k) == row[k] # None

\* claim_session refuses the row of another.
ClaimRow(k, s) ==
  IF row[k] \in {None, s} THEN row' = [row EXCEPT ![k] = s] /\ UNCHANGED late
  ELSE late' = late \cup {s} /\ UNCHANGED row

\* release_session deletes the row if it still is this session's.
ReleaseRow(k, s) ==
  IF row[k] = s THEN row' = [row EXCEPT ![k] = None] /\ let' = let \cup {s}
  ELSE UNCHANGED <<row, let>>

\* The runner starts a session for m.
Starts(m, s) ==
  /\ spawns[m] < MaxSpawns
  /\ s = <<m, spawns[m] + 1>>
  /\ spawns' = [spawns EXCEPT ![m] = @ + 1] /\ live' = live \cup {s}

-----------------------------------------------------------------------------
(* handle_bus_event. *)

Spawning(k) == {t \in Threads : pc[t] \in {"spawn", "claim"} /\ KeyOf(msg[t], "whole") = k}

\* Faulty: no look at the registry.
CheckNotWarm(t) ==
  /\ At(t, "check")
  /\ LET m == msg[t]
     IN IF bus[m] \in {"garbled", "gone"} \/ ~IsTask(m, bus[m]) THEN Returns(t, "skipped")
        ELSE /\ Goto(t, IF Headless(m, bus[m]) THEN "spawn" ELSE "review")
             /\ UNCHANGED <<msg, sid, outcome>>
  /\ UNCHANGED <<bus, events, seen, todo, row, lingerVars, live, restarts,
                 spawns, late, let, excused, orphans>>

\* The file is read anew; a row of the registry means a warm session.  What the
\* reading or the registry raises is logged by _dispatch.
CheckSession(t) ==
  /\ At(t, "check")
  /\ LET m == msg[t]
         k == KeyOf(m, bus[m])
     IN IF bus[m] \in {"garbled", "gone"} \/ ~IsTask(m, bus[m])
        THEN /\ Returns(t, IF bus[m] = "garbled" THEN "error" ELSE "skipped")
             /\ UNCHANGED excused
        ELSE \/ Returns(t, "error") /\ UNCHANGED excused
             \/ Sessioned(k) /\ Returns(t, "warm") /\ UNCHANGED excused
             \/ /\ ~Sessioned(k)
                /\ Goto(t, IF Headless(m, bus[m]) THEN "spawn" ELSE "review")
                /\ excused' = IF Headless(m, bus[m]) /\ Spawning(k) # {}
                              THEN excused \cup {k} ELSE excused
                /\ UNCHANGED <<msg, sid, outcome>>
  /\ UNCHANGED <<bus, events, seen, todo, row, lingerVars, live, restarts,
                 spawns, late, let, orphans>>

\* RunnerClient.spawn.  The runner starts a session and answers ...
SpawnAnswered(t) ==
  \E s \in Sessions :
    /\ Starts(msg[t], s)
    /\ Goto(t, "claim") /\ sid' = [sid EXCEPT ![t] = s]
    /\ UNCHANGED <<msg, outcome, excused>>

\* ... or starts one and the answer is lost or is no JSON, or it starts none.
SpawnLost(t) ==
  /\ \/ \E s \in Sessions : Starts(msg[t], s) /\ excused' = excused \cup {SessionKey(s)}
     \/ UNCHANGED <<live, spawns, excused>>
  /\ Returns(t, "failed") \/ Returns(t, "error")

\* A refused token and a broken answer raise what the handler does not catch
\* ("error"); the rest is reported as a failed spawn.
Spawn(t) ==
  /\ At(t, "spawn")
  /\ SpawnAnswered(t) \/ SpawnLost(t)
  /\ UNCHANGED <<bus, events, seen, todo, row, lingerVars, restarts, late, let, orphans>>

\* Faulty: INSERT OR REPLACE without the test.
ClaimAnyway(t) ==
  /\ At(t, "claim")
  /\ row' = [row EXCEPT ![SessionKey(sid[t])] = sid[t]]
  /\ Goto(t, "linger")
  /\ UNCHANGED <<bus, events, seen, todo, msg, sid, lingerVars, live, restarts, historyVars>>

\* A claim that is refused is logged, and the handler goes on; one that raises,
\* before or after the row is there, ends it, and the session has no timer.
Claim(t) ==
  /\ At(t, "claim")
  /\ LET s == sid[t]
         k == SessionKey(s)
     IN \/ /\ ClaimRow(k, s) /\ Goto(t, "linger")
           /\ UNCHANGED <<msg, sid, outcome, excused, orphans>>
        \/ /\ ClaimRow(k, s) \/ (late' = late \cup {s} /\ UNCHANGED row)
           /\ Returns(t, "error")
           /\ excused' = excused \cup {k} /\ orphans' = orphans \cup {s}
  /\ UNCHANGED <<bus, events, seen, todo, lingerVars, live, restarts, spawns, let>>

\* SessionLingerManager.start: an older timer of the addressee is cancelled,
\* unless it has fired, and the entry replaced.
StartTimer(k, s) ==
  /\ armed' = (armed \ {entry[k]}) \cup {s}
  /\ entry' = [entry EXCEPT ![k] = s]

\* Faulty: start is given the message for the session.
LingerWrongId(t) ==
  /\ At(t, "linger")
  /\ StartTimer(SessionKey(sid[t]), msg[t])
  /\ Returns(t, "spawned")
  /\ UNCHANGED <<bus, events, seen, todo, row, fired, expiring, live, restarts,
                 spawns, late, let, excused, orphans>>

\* A session without the row takes the timer of the one that has it.
LingerStart(t) ==
  /\ At(t, "linger")
  /\ LET k == SessionKey(sid[t])
     IN /\ StartTimer(k, sid[t])
        /\ orphans' = orphans \cup (({entry[k]} \cap {row[k]}) \ {None})
  /\ Returns(t, "spawned")
  /\ UNCHANGED <<bus, events, seen, todo, row, fired, expiring, live, restarts,
                 spawns, late, let, excused>>

\* _emit_request_human_review, under a name of its own.
Review(t) ==
  /\ At(t, "review")
  /\ Returns(t, "review")
  /\ UNCHANGED <<bus, events, seen, todo, row, lingerVars, live, restarts,
                 spawns, late, let, excused, orphans>>

-----------------------------------------------------------------------------
(* Timers. *)

\* The time is over: cancel() comes too late from here on.
TimeOut(s) ==
  /\ s \in armed
  /\ armed' = armed \ {s} /\ fired' = fired \cup {s}
  /\ UNCHANGED <<bus, events, seen, todo, threadVars, row, entry, expiring, live, restarts,
                 historyVars>>

\* Faulty: the entry is dropped, and the callback with it.
FireSilently(s) ==
  /\ s \in fired
  /\ fired' = fired \ {s}
  /\ entry' = [entry EXCEPT ![SessionKey(s)] = None]
  /\ UNCHANGED <<bus, events, seen, todo, threadVars, row, armed, expiring, live, restarts,
                 historyVars>>

\* _fire pops whatever entry its addressee has by now.
Fire(s) ==
  /\ s \in fired
  /\ LET k == SessionKey(s)
     IN /\ expiring' = expiring \cup ({entry[k]} \ {None})
        /\ entry' = [entry EXCEPT ![k] = None]
  /\ fired' = fired \ {s}
  /\ UNCHANGED <<bus, events, seen, todo, threadVars, row, armed, live, restarts, historyVars>>

\* on_expire gives the row free; what it raises, before or after that, is logged,
\* and nothing tries again.
Release(s) ==
  /\ s \in expiring
  /\ expiring' = expiring \ {s}
  /\ \/ /\ ReleaseRow(SessionKey(s), s)
        /\ excused' = IF row[SessionKey(s)] = s /\ s \in live
                      THEN excused \cup {SessionKey(s)} ELSE excused
        /\ UNCHANGED orphans
     \/ orphans' = orphans \cup {s} /\ UNCHANGED <<row, let, excused>>
  /\ UNCHANGED <<bus, events, seen, todo, threadVars, entry, armed, fired, live, restarts,
                 spawns, outcome, late>>

\* A crash or a stop, and the next start: the database stays.  What was
\* spawned and not claimed is forgotten.
Restart ==
  /\ restarts < MaxRestarts /\ restarts' = restarts + 1
  /\ events' = {} /\ seen' = {} /\ todo' = None
  /\ pc' = [t \in Threads |-> "idle"]
  /\ msg' = [t \in Threads |-> None]
  /\ sid' = [t \in Threads |-> None]
  /\ entry' = [k \in Addressees |-> None]
  /\ armed' = {} /\ fired' = {} /\ expiring' = {}
  /\ excused' = excused \cup {KeyOf(msg[t], "whole") : t \in {u \in Threads : pc[u] = "claim"}}
  /\ late' = late \cup {sid[t] : t \in {u \in Threads : pc[u] = "claim"}}
  /\ outcome' = [m \in Messages |-> "none"]
  /\ orphans' = orphans \cup ({row[k] : k \in Addressees} \ {None})
  /\ UNCHANGED <<bus, row, live, spawns, let>>

-----------------------------------------------------------------------------

ThreadNext(t) ==
  \/ ReadFile(t) \/ CheckSession(t) \/ Spawn(t) \/ Claim(t) \/ LingerStart(t) \/ Review(t)

TimerNext == \E s \in Sessions : TimeOut(s) \/ Fire(s) \/ Release(s)

Next ==
  \/ \E m \in Messages : Publish(m) \/ Write(m) \/ Archive(m)
  \/ \E s \in Sessions : SessionEnds(s) \/ KillSession(s)
  \/ Observe \/ ListPending \/ TakePending
  \/ \E t \in Threads : ThreadNext(t)
  \/ TimerNext
  \/ Restart

SafeSpec == Init /\ [][Next]_vars

\* Threads go on and timers fire.  Other processes owe nothing.
Spec ==
  /\ SafeSpec
  /\ WF_vars(Observe) /\ WF_vars(ListPending) /\ WF_vars(TakePending)
  /\ \A t \in Threads : WF_vars(ThreadNext(t))
  /\ \A s \in Sessions : WF_vars(TimeOut(s)) /\ WF_vars(Fire(s)) /\ WF_vars(Release(s))

-----------------------------------------------------------------------------
(* Properties. *)

\* One session per task assignment and life of the bridge, although two
\* threads may find the file (_dispatch's lock).  Only a restart repeats it.
SpawnedOnce == \A m \in Messages : spawns[m] <= 1 + restarts

\* An addressee has two sessions at a time only if its handlers overlapped,
\* an answer of the runner was lost, the row of a session still running
\* expired, the bridge went down before the claim, or the registry raised in it
\* (spawn_decision.py:282).
OneSessionEach ==
  \A s, r \in live : SessionKey(s) = SessionKey(r) /\ s # r => SessionKey(s) \in excused

\* A row has something that will give it free again: the handler before it
\* starts the timer, the timer, or on_expire.  A session loses it in four ways
\* only: a session that was refused the row replaces its timer, on_expire raises,
\* the claim raises after the row is there, or the bridge is restarted; then the
\* row stays for good (session_linger.py:70-99, 150-169, spawn_decision.py:340).
RowWillGo ==
  \A k \in Addressees : row[k] # None =>
    LET s == row[k]
    IN \/ s \in orphans
       \/ \E t \in Threads : pc[t] = "linger" /\ sid[t] = s
       \/ entry[k] = s /\ s \in armed \cup fired
       \/ s \in expiring

Table == INSTANCE SessionTable WITH Free <- None, holder <- row, over <- late \cup let

\* The registry keeps its promise whatever the threads do.
TableSpec == Table!Spec

Answered(m) == outcome[m] \notin {"none", "dropped"}

Dead(t) == pc[t] = "dead"

\* Only threads that have ended had m, or would have come to it.
Stranded(m) ==
  \/ \E t \in Threads : Dead(t) /\ msg[t] = m
  \/ /\ m \in events \/ (todo # None /\ m \in todo)
     /\ m \in events => Dead("observer")
     /\ todo # None /\ m \in todo => Dead("pending")

\* A task that is whole on the bus is answered in each life of the bridge, by the
\* observer or by process_pending, unless it is archived first.  It is not if it was
\* read too early and dropped, or if a file that cannot be decoded has ended the
\* threads that would have come to it (filesystem.py:160-197).
TaskAnswered ==
  \A m \in Messages :
    bus[m] = "whole" /\ outcome[m] # "dropped"
      ~> Answered(m) \/ bus[m] = "gone" \/ Stranded(m)

=============================================================================
