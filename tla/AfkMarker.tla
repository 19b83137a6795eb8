------------------------------ MODULE AfkMarker ------------------------------
(***************************************************************************)
(* The "away from keyboard" marker: one small file, .otaman/afk (or         *)
(* .maestro/afk, read as a fallback), that `otaman afk on` writes, `otaman  *)
(* afk off` removes, every hook reads and, when it has expired, deletes,    *)
(* and the daemon's idle monitor writes and removes on its own account      *)
(* (afk.py, idle_afk.py, afk_service.py).                                   *)
(*                                                                          *)
(* Nothing locks the file: commands, hooks and the monitor are processes,   *)
(* and each looks at the file in one step and acts on it in a later one.    *)
(* A write truncates the file when it opens it and the text arrives when    *)
(* it is closed; a file removed in between takes the text with it.          *)
(***************************************************************************)
EXTENDS Integers, FiniteSets

CONSTANTS
  Procs,        \* `otaman afk` commands and hooks
  Monitor,      \* the daemon's IdleAFKMonitor
  CliSources,   \* values of --source in use
  Ttl,          \* the DURATION of `otaman afk on DURATION`
  Threshold,    \* idle_minutes
  MaxTime,      \* bound: the clock stops there
  MaxCommands,  \* bound: on and off commands
  MaxFaults     \* bound: daemon restarts and crashes, and removals of a marker
                \*        that the system refuses

Sources == {"manual", "unattended", "idle-auto"}

ASSUME ConstantsAssumption ==
  /\ Monitor \notin Procs
  /\ CliSources \subseteq Sources
  /\ Ttl \in Nat \ {0} /\ Threshold \in Nat \ {0} /\ MaxTime \in Nat
  /\ MaxCommands \in Nat /\ MaxFaults \in Nat

Writers == Procs \cup {Monitor}
Dirs == {"otaman", "maestro"}
Never == 0                \* no expires_at
NoPrompt == -1            \* no last-user-activity file

\* What a marker file says: its first "source:" line, its expiry, and whether
\* it parses as a whole.
Text(source, until) == [source |-> source, until |-> until, whole |-> TRUE]
Blank == [source |-> "none", until |-> Never, whole |-> FALSE]
Gone == [source |-> "gone", until |-> Never, whole |-> FALSE]
IdleText == Text("idle-auto", Never)

Markers == [source : Sources \cup {"none", "gone"}, until : Nat, whole : BOOLEAN]

\* A file opened for writing: the text to come, and whether the file still is
\* at its path.
Pens == [dir : Dirs, text : Markers, linked : BOOLEAN]
NoPen == [dir |-> "otaman", text |-> Gone, linked |-> FALSE]

VARIABLES
  now,       \* the clock
  prompt,    \* mtime of last-user-activity
  inert,     \* the program's lifecycle state is suspended or archived
  file,      \* directory -> its marker file
  pen,       \* writer -> the file it has open for writing
  pc,        \* process -> where it is
  task,      \* process -> what it runs: "on", "off" or "hook"
  at,        \* process -> the directory it read the marker from
  mpc,       \* where the monitor's check is
  mdir,      \* the monitor's resolved afk path
  midle,     \* the monitor's is_idle
  mlast,     \* _last_notified_state
  said,      \* what the last AFK message to the user said
  lost,      \* the last message was the monitor's and was not delivered
  commands,  \* on and off commands so far
  restarts,  \* restarts so far
  refusals,  \* refused removals so far
  kept,      \* process -> directories whose marker it was refused to remove
  raced      \* history: writer -> another one changed a marker since it looked

worldVars == <<now, prompt, inert>>
diskVars == <<file, pen, raced>>
procVars == <<pc, task, at, commands>>
refusalVars == <<refusals, kept>>
userVars == <<said, lost>>
monitorVars == <<mpc, mdir, midle, mlast>>
vars == <<worldVars, diskVars, procVars, monitorVars, userVars, restarts, refusalVars>>

TypeOK ==
  /\ now \in 0..MaxTime /\ prompt \in -1..MaxTime /\ inert \in BOOLEAN
  /\ file \in [Dirs -> Markers]
  /\ pen \in [Writers -> Pens]
  /\ pc \in [Procs -> {"idle", "open", "save", "read", "drop", "clear", "clearOld"}]
  /\ task \in [Procs -> {"on", "off", "hook"}]
  /\ at \in [Procs -> Dirs]
  /\ mpc \in {"rest", "stat", "look", "open", "save", "unlink", "tell"}
  /\ mdir \in Dirs /\ midle \in BOOLEAN
  /\ mlast \in {"none", "on", "off"}
  /\ said \in {"on", "off"} /\ lost \in BOOLEAN
  /\ commands \in Nat /\ restarts \in Nat
  /\ raced \in [Writers -> BOOLEAN]
  /\ refusals \in Nat /\ kept \in [Procs -> SUBSET Dirs]

\* An earlier version may have left a marker under .maestro.
Init ==
  /\ now = 0 /\ prompt = NoPrompt /\ inert = FALSE
  /\ file \in {[d \in Dirs |-> IF d = "maestro" THEN old ELSE Gone] :
                 old \in {Gone, IdleText, Text("manual", Ttl)}}
  /\ pen = [w \in Writers |-> NoPen]
  /\ pc = [p \in Procs |-> "idle"]
  /\ task = [p \in Procs |-> "hook"]
  /\ at = [p \in Procs |-> "otaman"]
  /\ mpc = "rest" /\ mdir = "otaman" /\ midle = FALSE /\ mlast = "none"
  /\ said = (IF file["maestro"] = Gone THEN "off" ELSE "on") /\ lost = FALSE
  /\ commands = 0 /\ restarts = 0
  /\ refusals = 0 /\ kept = [p \in Procs |-> {}]
  /\ raced = [w \in Writers |-> FALSE]

-----------------------------------------------------------------------------
(* The file. *)

\* read_afk and _resolve_state_file prefer .otaman.
Resolved ==
  IF file["otaman"] = Gone /\ file["maestro"] # Gone THEN "maestro" ELSE "otaman"

Expired(m) == m.whole /\ m.until # Never /\ now >= m.until

\* What read_afk makes of a marker: AFK is on.
On(m) == m.whole /\ ~Expired(m)

\* Those that have looked at the file and are to act on what they saw.
Looked(x) == IF x = Monitor THEN mpc \in {"look", "open", "save", "unlink"}
             ELSE pc[x] \in {"drop", "clear", "clearOld"}

\* Writer w changed a marker: what the others saw is out of date.
Race(w) == raced' = [x \in Writers |-> raced[x] \/ (x # w /\ Looked(x))]
Looks(w) == raced' = [raced EXCEPT ![w] = FALSE]

\* unlink: a text still to be written there goes to a file no path names.
Unlink(w, d) ==
  /\ file' = [file EXCEPT ![d] = Gone]
  /\ pen' = [x \in Writers |->
               [dir |-> pen[x].dir, text |-> pen[x].text,
                linked |-> pen[x].linked /\ pen[x].dir # d]]
  /\ Race(w)

CanFault == restarts + refusals < MaxFaults

\* unlink in a `try` that passes over its OSError: the marker is gone, or stays.
TryUnlink(p, d) ==
  \/ /\ IF file[d] # Gone THEN Unlink(p, d) ELSE UNCHANGED diskVars
     /\ UNCHANGED refusals
  \/ /\ file[d] # Gone /\ CanFault /\ refusals' = refusals + 1
     /\ UNCHANGED diskVars

\* open(path, "w")
Truncate(w, d, text) ==
  /\ file' = [file EXCEPT ![d] = Blank]
  /\ pen' = [pen EXCEPT ![w] = [dir |-> d, text |-> text, linked |-> TRUE]]
  /\ Race(w)

\* close: over a longer text of another writer the end of that one remains,
\* which may break the file, or add an expiry to it.
Overlaid(text, old) ==
  IF old = Blank THEN {text}
  ELSE {[source |-> text.source, until |-> u, whole |-> whole] :
          u \in {text.until, old.until}, whole \in BOOLEAN}

Flush(w) ==
  /\ IF pen[w].linked
     THEN /\ \E m \in Overlaid(pen[w].text, file[pen[w].dir]) :
               file' = [file EXCEPT ![pen[w].dir] = m]
          /\ Race(w)
     ELSE UNCHANGED <<file, raced>>
  /\ pen' = [pen EXCEPT ![w] = NoPen]

-----------------------------------------------------------------------------
(* The world. *)

Tick == /\ now < MaxTime /\ now' = now + 1
        /\ UNCHANGED <<prompt, inert, diskVars, procVars, monitorVars, userVars, restarts, refusalVars>>

\* The UserPromptSubmit hook touches last-user-activity.
Prompt == /\ prompt # now /\ prompt' = now
          /\ UNCHANGED <<now, inert, diskVars, procVars, monitorVars, userVars, restarts, refusalVars>>

\* The program is suspended or resumed.
Lifecycle == /\ inert' = ~inert
             /\ UNCHANGED <<now, prompt, diskVars, procVars, monitorVars, userVars, restarts, refusalVars>>

-----------------------------------------------------------------------------
(* Commands and hooks. *)

Goto(p, l) == pc' = [pc EXCEPT ![p] = l]

\* The process ends, and its local variables with it.
Ends(p) ==
  /\ Goto(p, "idle")
  /\ task' = [task EXCEPT ![p] = "hook"] /\ at' = [at EXCEPT ![p] = "otaman"]
  /\ kept' = [kept EXCEPT ![p] = {}]

StartOn(p) ==
  /\ pc[p] = "idle" /\ commands < MaxCommands
  /\ commands' = commands + 1
  /\ task' = [task EXCEPT ![p] = "on"] /\ Goto(p, "open")
  /\ UNCHANGED <<worldVars, diskVars, at, monitorVars, userVars, restarts, refusalVars>>

StartOff(p) ==
  /\ pc[p] = "idle" /\ commands < MaxCommands
  /\ commands' = commands + 1
  /\ task' = [task EXCEPT ![p] = "off"] /\ Goto(p, "read")
  /\ UNCHANGED <<worldVars, diskVars, at, monitorVars, userVars, restarts, refusalVars>>

\* A PreToolUse or Stop hook, or `otaman afk status`.
StartHook(p) ==
  /\ pc[p] = "idle"
  /\ task' = [task EXCEPT ![p] = "hook"] /\ Goto(p, "read")
  /\ UNCHANGED <<worldVars, diskVars, at, commands, monitorVars, userVars, restarts, refusalVars>>

\* write_afk truncates .otaman/afk ...
OpenMarker(p) ==
  /\ pc[p] = "open"
  /\ \E s \in CliSources, u \in {Never, now + Ttl} : Truncate(p, "otaman", Text(s, u))
  /\ Goto(p, "save")
  /\ UNCHANGED <<worldVars, task, at, commands, monitorVars, userVars, restarts, refusalVars>>

\* ... and writes it; cmd_on then tells the user, if it can.
SaveMarker(p) ==
  /\ pc[p] = "save" /\ Flush(p)
  /\ said' \in {said, "on"} /\ lost' = FALSE
  /\ Ends(p)
  /\ UNCHANGED <<worldVars, commands, monitorVars, restarts, refusals>>

\* What comes after read_afk.
AfterRead(p) ==
  IF task[p] = "off" THEN Goto(p, "clear") /\ UNCHANGED <<task, at, kept>> ELSE Ends(p)

\* read_afk reads the file and finds whether it has expired ...
ReadAfk(p) ==
  /\ pc[p] = "read"
  /\ Looks(p)
  /\ IF Expired(file[Resolved])
     THEN /\ Goto(p, "drop")
          /\ at' = [at EXCEPT ![p] = Resolved] /\ UNCHANGED <<task, kept>>
     ELSE AfterRead(p)
  /\ UNCHANGED <<worldVars, file, pen, commands, monitorVars, userVars, restarts, refusals>>

\* Faulty: the expired file is not deleted.
DropNothing(p) ==
  /\ pc[p] = "drop"
  /\ AfterRead(p)
  /\ UNCHANGED <<worldVars, diskVars, commands, monitorVars, userVars, restarts, refusals>>

\* ... and deletes it if so; off or not on, the caller is told that AFK is off.
DropExpired(p) ==
  /\ pc[p] = "drop"
  /\ TryUnlink(p, at[p])
  /\ AfterRead(p)
  /\ UNCHANGED <<worldVars, commands, monitorVars, userVars, restarts>>

\* What a removal by `afk off` leaves behind.
Keeps(p, d) ==
  kept' = [kept EXCEPT ![p] = IF refusals' # refusals THEN @ \cup {d} ELSE @]

\* clear_afk removes .otaman/afk ...
ClearMarker(p) ==
  /\ pc[p] = "clear"
  /\ TryUnlink(p, "otaman") /\ Keeps(p, "otaman")
  /\ Goto(p, "clearOld")
  /\ UNCHANGED <<worldVars, task, at, commands, monitorVars, userVars, restarts>>

\* Faulty: only .otaman is cleared.
ClearNoLegacy(p) ==
  /\ pc[p] = "clearOld"
  /\ said' \in {said, "off"} /\ lost' = FALSE
  /\ Ends(p)
  /\ UNCHANGED <<worldVars, diskVars, commands, monitorVars, restarts, refusals>>

\* ... then .maestro/afk; cmd_off tells the user if it removed one, if it can.
ClearLegacy(p) ==
  /\ pc[p] = "clearOld"
  /\ TryUnlink(p, "maestro")
  /\ said' \in {said, "off"} /\ lost' = FALSE
  /\ Ends(p)
  /\ UNCHANGED <<worldVars, commands, monitorVars, restarts>>

-----------------------------------------------------------------------------
(* The idle monitor: _check_once, then poll_interval of rest. *)

\* The check ends; tell first if a message is due.
CheckEnds == mpc' = "rest" /\ mdir' = "otaman" /\ midle' = FALSE

\* A message is due unless the last one of this monitor said the same.
Due(state) == mlast # state
TellIf(state) ==
  IF Due(state) THEN mpc' = "tell" /\ UNCHANGED <<mdir, midle>> ELSE CheckEnds

\* Inert: the check returns at once and changes nothing.
MonitorGate ==
  /\ mpc = "rest" /\ ~inert
  /\ mpc' = "stat"
  /\ UNCHANGED <<worldVars, diskVars, procVars, mdir, midle, mlast, userVars, restarts, refusalVars>>

MonitorStat ==
  /\ mpc = "stat"
  /\ IF prompt = NoPrompt
     THEN CheckEnds /\ UNCHANGED raced
     ELSE /\ mdir' = Resolved
          /\ midle' = (now - prompt >= Threshold)
          /\ Looks(Monitor)
          /\ mpc' = "look"
  /\ UNCHANGED <<worldVars, file, pen, procVars, mlast, userVars, restarts, refusalVars>>

\* Faulty: an idle user's marker is written whatever is there.
DecideWithoutSource(source) ==
  IF midle THEN "open" ELSE IF source = "idle-auto" THEN "unlink" ELSE "rest"

\* _read_afk_source, and the decision.  An expired marker counts as one.
MonitorDecision(source) ==
  IF midle /\ source \in {"gone", "none"} THEN "open"
  ELSE IF ~midle /\ source = "idle-auto" THEN "unlink"
  ELSE "rest"

MonitorLook ==
  /\ mpc = "look"
  /\ LET next == MonitorDecision(file[mdir].source)
     IN IF next = "rest" THEN CheckEnds ELSE mpc' = next /\ UNCHANGED <<mdir, midle>>
  /\ UNCHANGED <<worldVars, diskVars, procVars, mlast, userVars, restarts, refusalVars>>

\* Faulty: a source that afk.py does not know.
MonitorOpenMisspelt ==
  /\ mpc = "open"
  /\ Truncate(Monitor, Resolved, Text("idle", Never))
  /\ mpc' = "save"
  /\ UNCHANGED <<worldVars, procVars, mdir, midle, mlast, userVars, restarts, refusalVars>>

\* _write_idle_afk resolves the path anew, truncates ...
MonitorOpen ==
  /\ mpc = "open"
  /\ Truncate(Monitor, Resolved, IdleText)
  /\ mpc' = "save"
  /\ UNCHANGED <<worldVars, procVars, mdir, midle, mlast, userVars, restarts, refusalVars>>

\* ... and writes.
MonitorSave ==
  /\ mpc = "save" /\ Flush(Monitor)
  /\ TellIf("on")
  /\ UNCHANGED <<worldVars, procVars, mlast, userVars, restarts, refusalVars>>

\* Faulty: the path read and the path removed differ.
UnlinkOtaman ==
  /\ mpc = "unlink"
  /\ IF file["otaman"] = Gone
     THEN CheckEnds /\ UNCHANGED diskVars
     ELSE Unlink(Monitor, "otaman") /\ TellIf("off")
  /\ UNCHANGED <<worldVars, procVars, mlast, userVars, restarts, refusalVars>>

\* afk.unlink(); a marker that is gone by now, or stays, ends the check.
MonitorUnlink ==
  /\ mpc = "unlink"
  /\ \/ /\ file[mdir] # Gone /\ Unlink(Monitor, mdir) /\ TellIf("off")
        /\ UNCHANGED refusals
     \/ /\ file[mdir] = Gone /\ CheckEnds
        /\ UNCHANGED <<diskVars, refusals>>
     \/ /\ file[mdir] # Gone /\ CanFault /\ refusals' = refusals + 1
        /\ CheckEnds /\ UNCHANGED diskVars
  /\ UNCHANGED <<worldVars, procVars, mlast, userVars, restarts, kept>>

\* The user has the message, or its send failed and was logged.
Sent(text) ==
  \/ said' = text /\ lost' = FALSE
  \/ UNCHANGED said /\ lost' = TRUE

\* Faulty: clearing does not reset the notified state.
TellKeepsOn ==
  /\ mpc = "tell"
  /\ mlast' = "on"
  /\ Sent(IF midle THEN "on" ELSE "off")
  /\ CheckEnds
  /\ UNCHANGED <<worldVars, diskVars, procVars, restarts, refusalVars>>

\* on_enabled or on_cleared; a failure to send is swallowed, and the state counts
\* as notified.
MonitorTell ==
  /\ mpc = "tell"
  /\ mlast' = (IF midle THEN "on" ELSE "off")
  /\ Sent(mlast')
  /\ CheckEnds
  /\ UNCHANGED <<worldVars, diskVars, procVars, restarts, refusalVars>>

\* The daemon is restarted, or killed between two steps of the monitor.
Restart ==
  /\ CanFault /\ restarts' = restarts + 1
  /\ CheckEnds /\ mlast' = "none" /\ lost' = FALSE
  /\ pen' = [pen EXCEPT ![Monitor] = NoPen]
  /\ UNCHANGED <<worldVars, file, raced, procVars, said, refusalVars>>

-----------------------------------------------------------------------------

ProcNext(p) ==
  \/ OpenMarker(p) \/ SaveMarker(p) \/ ReadAfk(p) \/ DropExpired(p)
  \/ ClearMarker(p) \/ ClearLegacy(p)

StartNext(p) == StartOn(p) \/ StartOff(p) \/ StartHook(p)

MonitorNext ==
  \/ MonitorGate \/ MonitorStat \/ MonitorLook \/ MonitorOpen
  \/ MonitorSave \/ MonitorUnlink \/ MonitorTell

Next ==
  \/ Tick \/ Prompt \/ Lifecycle \/ Restart
  \/ \E p \in Procs : StartNext(p) \/ ProcNext(p)
  \/ MonitorNext

SafeSpec == Init /\ [][Next]_vars

\* The monitor polls for ever and a started process runs to its end.  Nobody
\* has to run a command or a hook, to prompt or to resume a program.
Spec ==
  /\ SafeSpec
  /\ WF_vars(Tick) /\ WF_vars(MonitorNext)
  /\ \A p \in Procs : WF_vars(ProcNext(p))

-----------------------------------------------------------------------------
(* Properties. *)

Held == {"manual", "unattended"}

MonitorActs == mpc' # mpc
Acts(p) == pc'[p] # pc[p]

\* Nobody takes away what he had the chance to see.  A marker the user or an
\* unattended session holds is never overwritten or removed by the monitor,
\* and a marker that has not expired is never removed by a reader, unless it
\* came after that process had looked (idle_afk.py:186-225, read_afk).
NothingTakenUnseen ==
  [][\A d \in Dirs : file'[d] # file[d] =>
       /\ MonitorActs /\ file[d].source \in Held => raced[Monitor]
       /\ \A p \in Procs : pc[p] = "drop" /\ Acts(p) => Expired(file[d]) \/ raced[p]]_vars

\* `otaman afk off` ends AFK: when it returns no marker is left in either
\* directory, unless another process wrote one while it ran, or the system refused
\* to remove it (clear_afk tries both, whatever read_afk had made of them, and a
\* refusal in one directory keeps it from neither: afk.py:273-283).
OffEndsAfk ==
  [][\A p \in Procs : pc[p] = "clearOld" /\ Acts(p) /\ ~raced[p]
       => \A d \in Dirs \ kept[p] :
            file'[d] = Gone \/ (d = "maestro" /\ refusals' # refusals)]_vars

Alone == commands = 0 /\ restarts = 0

\* As long as nobody but the monitor switches AFK, the state it counts as notified
\* follows the marker, so that each transition is announced once and none twice
\* (_last_notified_state); and the user's last message says what the marker says
\* unless the send of the last announcement failed, which is not made up for
\* (afk_service.py:120-124, idle_afk.py:213-218).
AloneItTells ==
  Alone /\ mpc \in {"rest", "stat"} =>
    /\ mlast # "none" => (mlast = "on" <=> file[Resolved] = IdleText)
    /\ mlast # "none" => said = mlast \/ lost
    /\ file[Resolved] = IdleText => said = "on" \/ lost

\* The monitor never leaves AFK on without having told the user so
\* (idle_afk.py:116-118, afk_service.py:103-105).
NoSilentFlip ==
  [][mpc = "save" /\ mpc' = "rest" /\ file' # file /\ restarts' = restarts
       => said = "on"]_vars

Away == ~inert /\ prompt # NoPrompt /\ now - prompt >= Threshold
Back == ~inert /\ prompt # NoPrompt /\ now - prompt < Threshold
Torn(m) == m.source \in Sources /\ ~m.whole
HookReads == \E p \in Procs : pc[p] = "read"

\* If the user stays away and hooks keep running, they find AFK on in the end:
\* an expired marker does not keep the monitor from enabling for ever, since
\* a hook deletes it.  Only two writers at once can leave a file that no hook
\* can parse and that the monitor takes for a marker.
AwayRouted ==
  <>[]Away /\ []<>HookReads => <>[](On(file[Resolved]) \/ Torn(file[Resolved]))

\* If the user is back to stay, the idle marker goes.
BackLocal == <>[]Back => <>[](file[Resolved].source # "idle-auto")

=============================================================================
