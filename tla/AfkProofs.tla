------------------------------ MODULE AfkProofs ------------------------------
(***************************************************************************)
(* Proofs about AfkMarker, for any processes, expiry, threshold and bounds. *)
(***************************************************************************)
EXTENDS AfkMarker, TLAPS

-----------------------------------------------------------------------------
(* The inductive invariant. *)

\* What the monitor saw still is there unless it was raced.
MonitorSaw ==
  ~raced[Monitor] =>
    /\ mpc \in {"look", "open", "unlink"} => mdir = Resolved
    /\ mpc = "open" => file[mdir].source \in {"gone", "none"}
    /\ mpc = "unlink" => file[mdir].source = "idle-auto"
    /\ mpc = "save" /\ pen[Monitor].linked => file[pen[Monitor].dir] = Blank

\* The same for a reader about to drop, and for `afk off` half way.
ProcsSaw ==
  \A p \in Procs : ~raced[p] =>
    /\ pc[p] = "drop" => Expired(file[at[p]])
    /\ pc[p] = "clearOld" => file["otaman"] = Gone \/ "otaman" \in kept[p]

\* Without commands, processes only read, and drop what is under .maestro ...
AloneProcs ==
  Alone => \A p \in Procs :
    /\ pc[p] \in {"idle", "read", "drop"} /\ task[p] = "hook"
    /\ pc[p] = "drop" => at[p] = "maestro" /\ file["maestro"] # IdleText

\* ... and only the monitor writes, under .otaman when nothing is elsewhere.
AloneFile ==
  Alone =>
    /\ file["maestro"] \in {Gone, IdleText, Text("manual", Ttl)}
    /\ file["otaman"] \in {Gone, Blank, IdleText}
    /\ file["otaman"] # Gone => file["maestro"] = Gone
    /\ file["otaman"] = Blank <=> mpc = "save"
    /\ mpc = "save" => pen[Monitor].dir = "otaman" /\ pen[Monitor].linked
                       /\ pen[Monitor].text = IdleText

\* What the monitor last said, at each point of its check.
AloneSaid ==
  Alone =>
    /\ mpc \in {"look", "open", "unlink"} =>
         IF mdir = "maestro" THEN file["otaman"] = Gone ELSE file["maestro"] = Gone
    /\ mpc = "open" => file[mdir] = Gone
    /\ mpc = "unlink" => file[mdir] = IdleText /\ ~midle
    /\ mpc \in {"open", "save"} => midle
    /\ mpc = "tell" => (midle <=> file[Resolved] = IdleText)
    /\ mpc \notin {"save", "tell"} => (file[Resolved] = IdleText => said = "on" \/ lost)
    /\ mpc # "tell" /\ mlast # "none" => (mlast = "on" <=> file[Resolved] = IdleText)
    /\ mlast # "none" => said = mlast \/ lost

IInv == TypeOK /\ MonitorSaw /\ ProcsSaw /\ AloneProcs /\ AloneFile /\ AloneSaid

-----------------------------------------------------------------------------
(* What any change of a marker does. *)

\* Writer w acts on the disk: types are kept, and whoever else has looked is
\* raced if a marker changed.
Touches(w) ==
  /\ file' \in [Dirs -> Markers] /\ pen' \in [Writers -> Pens] /\ raced' \in [Writers -> BOOLEAN]
  /\ \A x \in Writers :
       /\ raced[x] => raced'[x]
       /\ x # w /\ Looked(x) /\ ~raced'[x] => file' = file

LEMMA TextTypes ==
  /\ Blank \in Markers /\ Gone \in Markers /\ IdleText \in Markers /\ NoPen \in Pens
  /\ \A s \in Sources, u \in Nat : Text(s, u) \in Markers
  /\ Gone # Blank /\ Gone # IdleText /\ Blank # IdleText
BY DEF Blank, Gone, IdleText, Markers, NoPen, Pens, Text, Never, Sources, Dirs

LEMMA ResolvedType == Resolved \in Dirs
BY DEF Resolved, Dirs

\* Removing a marker.
LEMMA UnlinkTouches ==
  ASSUME TypeOK, NEW w \in Writers, NEW d \in Dirs, Unlink(w, d)
  PROVE  Touches(w)
<1>1. file' \in [Dirs -> Markers] /\ raced' \in [Writers -> BOOLEAN]
  BY TextTypes DEF TypeOK, Unlink, Race, Looked
<1>2. ASSUME NEW x \in Writers PROVE pen'[x] \in Pens
  BY <1>2 DEF TypeOK, Unlink, Pens
<1>3. pen' \in [Writers -> Pens]
  BY <1>2 DEF Unlink
<1> QED BY <1>1, <1>3 DEF TypeOK, Touches, Unlink, Race

\* Opening one for writing.
LEMMA TruncateTouches ==
  ASSUME TypeOK, NEW w \in Writers, NEW d \in Dirs, NEW text \in Markers, Truncate(w, d, text)
  PROVE  Touches(w)
<1>1. file' \in [Dirs -> Markers] /\ raced' \in [Writers -> BOOLEAN]
  BY TextTypes DEF TypeOK, Truncate, Race, Looked
<1>2. pen' \in [Writers -> Pens]
  BY DEF TypeOK, Truncate, Pens
<1> QED BY <1>1, <1>2 DEF TypeOK, Touches, Truncate, Race

LEMMA OverlaidTypes ==
  ASSUME NEW t \in Markers, NEW o \in Markers, NEW m \in Overlaid(t, o)
  PROVE  m \in Markers /\ m.source = t.source
BY DEF Markers, Overlaid

\* Closing it.
LEMMA FlushTouches ==
  ASSUME TypeOK, NEW w \in Writers, Flush(w)
  PROVE  Touches(w)
<1>1. pen[w] \in Pens /\ pen[w].text \in Markers /\ pen[w].dir \in Dirs
  BY DEF TypeOK, Pens
<1>2. pen' \in [Writers -> Pens]
  BY TextTypes DEF TypeOK, Flush
<1>3. CASE pen[w].linked
  <2>1. PICK m \in Overlaid(pen[w].text, file[pen[w].dir]) : file' = [file EXCEPT ![pen[w].dir] = m]
    BY <1>3 DEF Flush
  <2>2. m \in Markers
    BY <1>1, OverlaidTypes DEF TypeOK
  <2>3. Race(w)
    BY <1>3 DEF Flush
  <2> QED BY <1>2, <2>1, <2>2, <2>3 DEF TypeOK, Touches, Race, Looked
<1>4. CASE ~pen[w].linked
  BY <1>2, <1>4 DEF TypeOK, Touches, Flush
<1> QED BY <1>3, <1>4

-----------------------------------------------------------------------------
(* Every step keeps the types.                                              *)

LEMMA TypeOKStep ==
  ASSUME TypeOK, [Next]_vars
  PROVE  TypeOK'
<1> USE ConstantsAssumption DEF userVars, refusalVars
<1>1. CASE Tick
  BY <1>1 DEF Tick, TypeOK, Dirs, diskVars, monitorVars, procVars
<1>2. CASE Prompt
  BY <1>2 DEF Prompt, TypeOK, Dirs, diskVars, monitorVars, procVars
<1>3. CASE Lifecycle
  BY <1>3 DEF Lifecycle, TypeOK, Dirs, diskVars, monitorVars, procVars
<1>4. CASE Restart
  <2>1. pen' \in [Writers -> Pens]
    BY <1>4, TextTypes DEF Restart, TypeOK
  <2>2. restarts' \in Nat /\ mdir' \in Dirs /\ mpc' = "rest" /\ mlast' = "none"
    BY <1>4 DEF Restart, TypeOK, CheckEnds, Dirs
  <2>3. midle' \in BOOLEAN
    BY <1>4, Zenon DEF Restart, CheckEnds
  <2> QED BY <1>4, <2>1, <2>2, <2>3 DEF Restart, TypeOK, procVars, worldVars
<1>5. CASE MonitorGate
  BY <1>5 DEF MonitorGate, TypeOK, Dirs, diskVars, procVars, worldVars
<1>6. CASE MonitorStat
  <2>1. raced' \in [Writers -> BOOLEAN]
    BY <1>6 DEF MonitorStat, TypeOK, Looks
  <2>2. mdir' \in Dirs /\ mpc' \in {"rest", "look"}
    BY <1>6, ResolvedType DEF MonitorStat, CheckEnds, Dirs
  <2>3. midle' \in BOOLEAN
    <3>1. midle' = FALSE \/ midle' = (now - prompt >= Threshold)
      BY <1>6 DEF MonitorStat, CheckEnds
    <3> DEFINE b == now - prompt >= Threshold
    <3>2. b \in BOOLEAN
      OBVIOUS
    <3> HIDE DEF b
    <3> QED BY <3>1, <3>2, Zenon DEF b
  <2> QED BY <1>6, <2>1, <2>2, <2>3 DEF MonitorStat, TypeOK, procVars, worldVars
<1>7. CASE MonitorLook
  BY <1>7 DEF MonitorLook, TypeOK, CheckEnds, Dirs, MonitorDecision, diskVars, procVars,
    worldVars
<1>8. CASE MonitorOpen
  <2>1. Touches(Monitor) \/ UNCHANGED diskVars
    BY <1>8, TextTypes, ResolvedType, TruncateTouches DEF MonitorOpen, TypeOK, Writers, Dirs
  <2> QED BY <1>8, <2>1 DEF MonitorOpen, Touches, TypeOK, Dirs, Looked, Never, Resolved,
      diskVars, procVars, worldVars
<1>9. CASE MonitorSave
  <2>1. Touches(Monitor) \/ UNCHANGED diskVars
    BY <1>9, FlushTouches DEF MonitorSave, TypeOK, Writers, Dirs
  <2> QED BY <1>9, <2>1 DEF MonitorSave, Touches, TypeOK, CheckEnds, Dirs, Due, Looked, Never,
      TellIf, diskVars, procVars, worldVars
<1>10. CASE MonitorUnlink
  <2>1. Touches(Monitor) \/ UNCHANGED diskVars
    BY <1>10, UnlinkTouches DEF MonitorUnlink, TypeOK, Writers, Dirs
  <2>2. file' \in [Dirs -> Markers] /\ pen' \in [Writers -> Pens] /\ raced' \in [Writers -> BOOLEAN]
    BY <2>1 DEF Touches, TypeOK, diskVars
  <2>3. mpc' \in {"rest", "tell"} /\ mdir' \in Dirs /\ refusals' \in Nat
    BY <1>10 DEF MonitorUnlink, TypeOK, CheckEnds, TellIf, Dirs
  <2>4. midle' \in {midle, FALSE}
    BY <1>10 DEF MonitorUnlink, CheckEnds, TellIf
  <2>5. midle' \in BOOLEAN
    BY <2>4, Zenon DEF TypeOK
  <2> QED BY <1>10, <2>2, <2>3, <2>5 DEF MonitorUnlink, TypeOK, procVars, worldVars
<1>11. CASE MonitorTell
  BY <1>11 DEF MonitorTell, Sent, TypeOK, CheckEnds, Dirs, diskVars, procVars, worldVars
<1>12. ASSUME NEW p \in Procs, StartOn(p) PROVE TypeOK'
  BY <1>12 DEF StartOn, TypeOK, Dirs, Goto, diskVars, monitorVars, worldVars
<1>13. ASSUME NEW p \in Procs, StartOff(p) PROVE TypeOK'
  BY <1>13 DEF StartOff, TypeOK, Dirs, Goto, diskVars, monitorVars, worldVars
<1>14. ASSUME NEW p \in Procs, StartHook(p) PROVE TypeOK'
  BY <1>14 DEF StartHook, TypeOK, Dirs, Goto, diskVars, monitorVars, worldVars
<1>15. ASSUME NEW p \in Procs, OpenMarker(p) PROVE TypeOK'
  <2>1. Touches(p) \/ UNCHANGED diskVars
    BY <1>15, TextTypes, ResolvedType, TruncateTouches DEF OpenMarker, TypeOK, Writers, Dirs,
      Never, Sources
  <2> QED BY <1>15, <2>1 DEF OpenMarker, Touches, TypeOK, Dirs, Goto, Looked, Never, diskVars,
      monitorVars, worldVars
<1>16. ASSUME NEW p \in Procs, SaveMarker(p) PROVE TypeOK'
  <2>1. Touches(p) \/ UNCHANGED diskVars
    BY <1>16, FlushTouches DEF SaveMarker, TypeOK, Writers, Dirs
  <2>2. file' \in [Dirs -> Markers] /\ pen' \in [Writers -> Pens] /\ raced' \in [Writers -> BOOLEAN]
    BY <2>1 DEF Touches, TypeOK, diskVars
  <2>3. /\ pc' \in [Procs -> {"idle", "open", "save", "read", "drop", "clear", "clearOld"}]
        /\ task' \in [Procs -> {"on", "off", "hook"}]
        /\ at' \in [Procs -> Dirs] /\ kept' \in [Procs -> SUBSET Dirs]
    BY <1>16 DEF SaveMarker, Ends, Goto, TypeOK, Dirs
  <2>4. said' \in {"on", "off"} /\ lost' = FALSE
    BY <1>16 DEF SaveMarker, TypeOK
  <2>5. UNCHANGED <<worldVars, commands, monitorVars, restarts, refusals>>
    BY <1>16 DEF SaveMarker
  <2> QED BY <2>2, <2>3, <2>4, <2>5 DEF TypeOK, monitorVars, worldVars
<1>17. ASSUME NEW p \in Procs, ReadAfk(p) PROVE TypeOK'
  <2>1. raced' \in [Writers -> BOOLEAN]
    BY <1>17 DEF ReadAfk, Looks, TypeOK, Writers
  <2>2. \/ Goto(p, "drop") /\ at' = [at EXCEPT ![p] = Resolved] /\ UNCHANGED <<task, kept>>
        \/ Goto(p, "clear") /\ UNCHANGED <<task, at, kept>>
        \/ Ends(p)
    BY <1>17 DEF ReadAfk, AfterRead
  <2>3. /\ pc' \in [Procs -> {"idle", "open", "save", "read", "drop", "clear", "clearOld"}]
        /\ task' \in [Procs -> {"on", "off", "hook"}]
        /\ at' \in [Procs -> Dirs] /\ kept' \in [Procs -> SUBSET Dirs]
    BY <2>2, ResolvedType DEF Ends, Goto, TypeOK, Dirs
  <2>4. UNCHANGED <<worldVars, file, pen, commands, monitorVars, userVars, restarts, refusals>>
    BY <1>17 DEF ReadAfk
  <2> QED BY <2>1, <2>3, <2>4 DEF TypeOK, monitorVars, worldVars, userVars
<1>18. ASSUME NEW p \in Procs, DropExpired(p) PROVE TypeOK'
  <2>1. Touches(p) \/ UNCHANGED diskVars
    BY <1>18, UnlinkTouches DEF DropExpired, TryUnlink, TypeOK, Writers, Dirs
  <2> QED BY <1>18, <2>1 DEF DropExpired, TryUnlink, Touches, TypeOK, AfterRead, Dirs, Ends, Goto, Looked,
      Never, diskVars, monitorVars, worldVars
<1>19. ASSUME NEW p \in Procs, ClearMarker(p) PROVE TypeOK'
  <2>1. Touches(p) \/ UNCHANGED diskVars
    BY <1>19, UnlinkTouches DEF ClearMarker, TryUnlink, Keeps, TypeOK, Writers, Dirs
  <2> QED BY <1>19, <2>1 DEF ClearMarker, TryUnlink, Keeps, Touches, TypeOK, Dirs, Goto, Looked, Never, diskVars,
      monitorVars, worldVars
<1>20. ASSUME NEW p \in Procs, ClearLegacy(p) PROVE TypeOK'
  <2>1. Touches(p) \/ UNCHANGED diskVars
    BY <1>20, UnlinkTouches DEF ClearLegacy, TryUnlink, TypeOK, Writers, Dirs
  <2>2. file' \in [Dirs -> Markers] /\ pen' \in [Writers -> Pens] /\ raced' \in [Writers -> BOOLEAN]
    BY <2>1 DEF Touches, TypeOK, diskVars
  <2>3. refusals' \in Nat /\ said' \in {"on", "off"}
    BY <1>20 DEF ClearLegacy, TryUnlink, TypeOK
  <2>4. lost' \in BOOLEAN
    BY <1>20, Zenon DEF ClearLegacy
  <2> QED BY <1>20, <2>2, <2>3, <2>4 DEF ClearLegacy, TypeOK, Ends, Goto, Dirs, monitorVars, worldVars
<1>21. CASE UNCHANGED vars
  BY <1>21 DEF vars, userVars, refusalVars, TypeOK, Dirs, diskVars, monitorVars, procVars, worldVars
<1> QED BY <1>1, <1>2, <1>3, <1>4, <1>5, <1>6, <1>7, <1>8, <1>9, <1>10, <1>11, <1>12, <1>13,
    <1>14, <1>15, <1>16, <1>17, <1>18, <1>19, <1>20, <1>21 DEF Next, MonitorNext, ProcNext, StartNext

-----------------------------------------------------------------------------
(* Every step keeps what the monitor saw, or marks it raced.                *)

LEMMA MonitorSawStep ==
  ASSUME TypeOK, MonitorSaw, [Next]_vars
  PROVE  MonitorSaw'
<1> USE ConstantsAssumption DEF userVars, refusalVars
<1>1. CASE Tick
  BY <1>1 DEF Tick, TypeOK, MonitorSaw, Blank, Dirs, Gone, Never, Resolved, Writers, diskVars,
    monitorVars, procVars
<1>2. CASE Prompt
  BY <1>2 DEF Prompt, TypeOK, MonitorSaw, Blank, Dirs, Gone, Never, Resolved, Writers, diskVars,
    monitorVars, procVars
<1>3. CASE Lifecycle
  BY <1>3 DEF Lifecycle, TypeOK, MonitorSaw, Blank, Dirs, Gone, Never, Resolved, Writers,
    diskVars, monitorVars, procVars
<1>4. CASE Restart
  BY <1>4 DEF Restart, TypeOK, MonitorSaw, Blank, CheckEnds, Dirs, Gone, Never, NoPen, Resolved,
    Writers, procVars, worldVars
<1>5. CASE MonitorGate
  BY <1>5 DEF MonitorGate, TypeOK, MonitorSaw, Blank, Dirs, Gone, Never, Resolved, Writers,
    diskVars, procVars, worldVars
<1>6. CASE MonitorStat
  BY <1>6 DEF MonitorStat, TypeOK, MonitorSaw, Blank, CheckEnds, Dirs, Gone, Looks, Never,
    NoPrompt, Resolved, Writers, procVars, worldVars
<1>7. CASE MonitorLook
  BY <1>7 DEF MonitorLook, TypeOK, MonitorSaw, Blank, CheckEnds, Dirs, Gone, MonitorDecision,
    Never, Resolved, Writers, diskVars, procVars, worldVars
<1>8. CASE MonitorOpen
  BY <1>8 DEF MonitorOpen, TypeOK, MonitorSaw, Blank, Dirs, Gone, IdleText, Looked, Never, Race,
    Resolved, Text, Truncate, Writers, procVars, worldVars
<1>9. CASE MonitorSave
  BY <1>9 DEF MonitorSave, TypeOK, MonitorSaw, Blank, CheckEnds, Dirs, Due, Flush, Gone, Looked,
    Never, NoPen, Overlaid, Race, Resolved, TellIf, Writers, procVars, worldVars
<1>10. CASE MonitorUnlink
  BY <1>10 DEF MonitorUnlink, TypeOK, MonitorSaw, Blank, CheckEnds, Dirs, Due, Gone, Looked,
    Never, Race, Resolved, TellIf, Unlink, Writers, diskVars, procVars, worldVars
<1>11. CASE MonitorTell
  BY <1>11 DEF MonitorTell, Sent, TypeOK, MonitorSaw, Blank, CheckEnds, Dirs, Gone, Never, Resolved,
    Writers, diskVars, procVars, worldVars
<1>12. ASSUME NEW p \in Procs, StartOn(p) PROVE MonitorSaw'
  BY <1>12 DEF StartOn, TypeOK, MonitorSaw, Blank, Dirs, Gone, Goto, Never, Resolved, Writers,
    diskVars, monitorVars, worldVars
<1>13. ASSUME NEW p \in Procs, StartOff(p) PROVE MonitorSaw'
  BY <1>13 DEF StartOff, TypeOK, MonitorSaw, Blank, Dirs, Gone, Goto, Never, Resolved, Writers,
    diskVars, monitorVars, worldVars
<1>14. ASSUME NEW p \in Procs, StartHook(p) PROVE MonitorSaw'
  BY <1>14 DEF StartHook, TypeOK, MonitorSaw, Blank, Dirs, Gone, Goto, Never, Resolved, Writers,
    diskVars, monitorVars, worldVars
<1>15. ASSUME NEW p \in Procs, OpenMarker(p) PROVE MonitorSaw'
  BY <1>15 DEF OpenMarker, TypeOK, MonitorSaw, Blank, Dirs, Gone, Goto, Looked, Never, Race,
    Resolved, Text, Truncate, Writers, monitorVars, worldVars
<1>16. ASSUME NEW p \in Procs, SaveMarker(p) PROVE MonitorSaw'
  <2>1. Touches(p) \/ UNCHANGED diskVars
    BY <1>16, FlushTouches DEF SaveMarker, TypeOK, Writers, Dirs
  <2> QED BY <1>16, <2>1 DEF SaveMarker, Touches, TypeOK, MonitorSaw, Ends, Flush, Goto, Looked,
      Never, Resolved, Writers, diskVars, monitorVars, worldVars
<1>17. ASSUME NEW p \in Procs, ReadAfk(p) PROVE MonitorSaw'
  BY <1>17 DEF ReadAfk, TypeOK, MonitorSaw, AfterRead, Blank, Dirs, Ends, Expired, Gone, Goto,
    Looks, Never, Resolved, Writers, monitorVars, worldVars
<1>18. ASSUME NEW p \in Procs, DropExpired(p) PROVE MonitorSaw'
  BY <1>18 DEF DropExpired, TryUnlink, TypeOK, MonitorSaw, AfterRead, Blank, Dirs, Ends, Gone, Goto,
    Looked, Never, Race, Resolved, Unlink, Writers, diskVars, monitorVars, worldVars
<1>19. ASSUME NEW p \in Procs, ClearMarker(p) PROVE MonitorSaw'
  BY <1>19 DEF ClearMarker, TryUnlink, Keeps, TypeOK, MonitorSaw, Blank, Dirs, Gone, Goto, Looked, Never, Race,
    Resolved, Unlink, Writers, diskVars, monitorVars, worldVars
<1>20. ASSUME NEW p \in Procs, ClearLegacy(p) PROVE MonitorSaw'
  BY <1>20 DEF ClearLegacy, TryUnlink, TypeOK, MonitorSaw, Blank, Dirs, Ends, Gone, Goto, Looked, Never,
    Race, Resolved, Unlink, Writers, diskVars, monitorVars, worldVars
<1>21. CASE UNCHANGED vars
  BY <1>21 DEF vars, userVars, refusalVars, TypeOK, MonitorSaw, Blank, Dirs, Gone, Never, Resolved, Writers, diskVars,
    monitorVars, procVars, worldVars
<1> QED BY <1>1, <1>2, <1>3, <1>4, <1>5, <1>6, <1>7, <1>8, <1>9, <1>10, <1>11, <1>12, <1>13,
    <1>14, <1>15, <1>16, <1>17, <1>18, <1>19, <1>20, <1>21 DEF Next, MonitorNext, ProcNext, StartNext

-----------------------------------------------------------------------------
(* The same for commands and hooks.                                         *)

LEMMA ProcsSawStep ==
  ASSUME TypeOK, ProcsSaw, [Next]_vars
  PROVE  ProcsSaw'
<1> USE ConstantsAssumption DEF userVars, refusalVars
<1>1. CASE Tick
  BY <1>1 DEF Tick, TypeOK, ProcsSaw, Dirs, Expired, Gone, Markers, Never, Writers, diskVars,
    monitorVars, procVars
<1>2. CASE Prompt
  BY <1>2 DEF Prompt, TypeOK, ProcsSaw, Dirs, Expired, Gone, Markers, Never, Writers, diskVars,
    monitorVars, procVars
<1>3. CASE Lifecycle
  BY <1>3 DEF Lifecycle, TypeOK, ProcsSaw, Dirs, Expired, Gone, Markers, Never, Writers,
    diskVars, monitorVars, procVars
<1>4. CASE Restart
  BY <1>4 DEF Restart, TypeOK, ProcsSaw, CheckEnds, Dirs, Expired, Gone, Markers, Never, NoPen,
    Writers, procVars, worldVars
<1>5. CASE MonitorGate
  BY <1>5 DEF MonitorGate, TypeOK, ProcsSaw, Dirs, Expired, Gone, Markers, Never, Writers,
    diskVars, procVars, worldVars
<1>6. CASE MonitorStat
  BY <1>6 DEF MonitorStat, TypeOK, ProcsSaw, CheckEnds, Dirs, Expired, Gone, Looks, Markers,
    Never, NoPrompt, Resolved, Writers, procVars, worldVars
<1>7. CASE MonitorLook
  BY <1>7 DEF MonitorLook, TypeOK, ProcsSaw, CheckEnds, Dirs, Expired, Gone, Markers,
    MonitorDecision, Never, Writers, diskVars, procVars, worldVars
<1>8. CASE MonitorOpen
  <2>1. Touches(Monitor) \/ UNCHANGED diskVars
    BY <1>8, TextTypes, ResolvedType, TruncateTouches DEF MonitorOpen, TypeOK, Writers, Dirs
  <2> QED BY <1>8, <2>1 DEF MonitorOpen, Touches, TypeOK, ProcsSaw, Expired, Looked, Never,
      Resolved, Writers, diskVars, procVars, worldVars
<1>9. CASE MonitorSave
  <2>1. Touches(Monitor) \/ UNCHANGED diskVars
    BY <1>9, FlushTouches DEF MonitorSave, TypeOK, Writers, Dirs
  <2> QED BY <1>9, <2>1 DEF MonitorSave, Touches, TypeOK, ProcsSaw, CheckEnds, Due, Expired,
      Looked, Never, TellIf, Writers, diskVars, procVars, worldVars
<1>10. CASE MonitorUnlink
  <2>1. Touches(Monitor) \/ UNCHANGED diskVars
    BY <1>10, UnlinkTouches DEF MonitorUnlink, TypeOK, Writers, Dirs
  <2> QED BY <1>10, <2>1 DEF MonitorUnlink, Touches, TypeOK, ProcsSaw, CheckEnds, Due, Expired,
      Looked, Never, TellIf, Writers, diskVars, procVars, worldVars
<1>11. CASE MonitorTell
  BY <1>11 DEF MonitorTell, Sent, TypeOK, ProcsSaw, CheckEnds, Dirs, Expired, Gone, Markers, Never,
    Writers, diskVars, procVars, worldVars
<1>12. ASSUME NEW p \in Procs, StartOn(p) PROVE ProcsSaw'
  BY <1>12 DEF StartOn, TypeOK, ProcsSaw, Dirs, Expired, Gone, Goto, Markers, Never, Writers,
    diskVars, monitorVars, worldVars
<1>13. ASSUME NEW p \in Procs, StartOff(p) PROVE ProcsSaw'
  BY <1>13 DEF StartOff, TypeOK, ProcsSaw, Dirs, Expired, Gone, Goto, Markers, Never, Writers,
    diskVars, monitorVars, worldVars
<1>14. ASSUME NEW p \in Procs, StartHook(p) PROVE ProcsSaw'
  BY <1>14 DEF StartHook, TypeOK, ProcsSaw, Dirs, Expired, Gone, Goto, Markers, Never, Writers,
    diskVars, monitorVars, worldVars
<1>15. ASSUME NEW p \in Procs, OpenMarker(p) PROVE ProcsSaw'
  <2>1. Touches(p) \/ UNCHANGED diskVars
    BY <1>15, TextTypes, ResolvedType, TruncateTouches DEF OpenMarker, TypeOK, Writers, Dirs,
      Never, Sources
  <2> QED BY <1>15, <2>1 DEF OpenMarker, Touches, TypeOK, ProcsSaw, Expired, Goto, Looked,
      Never, Writers, diskVars, monitorVars, worldVars
<1>16. ASSUME NEW p \in Procs, SaveMarker(p) PROVE ProcsSaw'
  <2>1. Touches(p) \/ UNCHANGED diskVars
    BY <1>16, FlushTouches DEF SaveMarker, TypeOK, Writers, Dirs
  <2> QED BY <1>16, <2>1 DEF SaveMarker, Touches, TypeOK, ProcsSaw, Ends, Expired, Goto, Looked,
      Never, Writers, diskVars, monitorVars, worldVars
<1>17. ASSUME NEW p \in Procs, ReadAfk(p) PROVE ProcsSaw'
  BY <1>17 DEF ReadAfk, TypeOK, ProcsSaw, AfterRead, Dirs, Ends, Expired, Gone, Goto, Looks,
    Markers, Never, Resolved, Writers, monitorVars, worldVars
<1>18. ASSUME NEW p \in Procs, DropExpired(p) PROVE ProcsSaw'
  <2>1. Touches(p) \/ UNCHANGED diskVars
    BY <1>18, UnlinkTouches DEF DropExpired, TryUnlink, TypeOK, Writers, Dirs
  <2> QED BY <1>18, <2>1 DEF DropExpired, TryUnlink, Touches, TypeOK, ProcsSaw, AfterRead, Ends, Expired,
      Goto, Looked, Never, Writers, diskVars, monitorVars, worldVars
<1>19. ASSUME NEW p \in Procs, ClearMarker(p) PROVE ProcsSaw'
  <2>1. Touches(p) \/ UNCHANGED diskVars
    BY <1>19, UnlinkTouches DEF ClearMarker, TryUnlink, Keeps, TypeOK, Writers, Dirs
  <2> QED BY <1>19, <2>1 DEF ClearMarker, TryUnlink, Keeps, Touches, TypeOK, ProcsSaw, Dirs, Expired, Goto,
      Looked, Never, Race, Unlink, Writers, diskVars, monitorVars, worldVars
<1>20. ASSUME NEW p \in Procs, ClearLegacy(p) PROVE ProcsSaw'
  <2>1. Touches(p) \/ UNCHANGED diskVars
    BY <1>20, UnlinkTouches DEF ClearLegacy, TryUnlink, TypeOK, Writers, Dirs
  <2> QED BY <1>20, <2>1 DEF ClearLegacy, TryUnlink, Touches, TypeOK, ProcsSaw, Ends, Expired, Goto,
      Looked, Never, Writers, diskVars, monitorVars, worldVars
<1>21. CASE UNCHANGED vars
  BY <1>21 DEF vars, userVars, refusalVars, TypeOK, ProcsSaw, Dirs, Expired, Gone, Markers, Never, Writers, diskVars,
    monitorVars, procVars, worldVars
<1> QED BY <1>1, <1>2, <1>3, <1>4, <1>5, <1>6, <1>7, <1>8, <1>9, <1>10, <1>11, <1>12, <1>13,
    <1>14, <1>15, <1>16, <1>17, <1>18, <1>19, <1>20, <1>21 DEF Next, MonitorNext, ProcNext, StartNext

-----------------------------------------------------------------------------
(* Without commands processes only read.                                    *)

LEMMA AloneProcsStep ==
  ASSUME TypeOK, AloneProcs, AloneFile, AloneSaid, [Next]_vars
  PROVE  AloneProcs'
<1> USE ConstantsAssumption DEF userVars, refusalVars
<1>1. CASE Tick
  BY <1>1 DEF Tick, TypeOK, AloneProcs, Alone, AloneFile, AloneSaid, Blank, Expired, Gone,
    IdleText, Never, Resolved, Text, diskVars, monitorVars, procVars
<1>2. CASE Prompt
  BY <1>2 DEF Prompt, TypeOK, AloneProcs, Alone, AloneFile, AloneSaid, Blank, Expired, Gone,
    IdleText, Never, Resolved, Text, diskVars, monitorVars, procVars
<1>3. CASE Lifecycle
  BY <1>3 DEF Lifecycle, TypeOK, AloneProcs, Alone, AloneFile, AloneSaid, Blank, Expired, Gone,
    IdleText, Never, Resolved, Text, diskVars, monitorVars, procVars
<1>4. CASE Restart
  BY <1>4 DEF Restart, TypeOK, AloneProcs, Alone, AloneFile, AloneSaid, Blank, CheckEnds,
    Expired, Gone, IdleText, Never, NoPen, Resolved, Text, procVars, worldVars
<1>5. CASE MonitorGate
  BY <1>5 DEF MonitorGate, TypeOK, AloneProcs, Alone, AloneFile, AloneSaid, Blank, Expired,
    Gone, IdleText, Never, Resolved, Text, diskVars, procVars, worldVars
<1>6. CASE MonitorStat
  BY <1>6 DEF MonitorStat, TypeOK, AloneProcs, Alone, AloneFile, AloneSaid, Blank, CheckEnds,
    Expired, Gone, IdleText, Looks, Never, NoPrompt, Resolved, Text, procVars, worldVars
<1>7. CASE MonitorLook
  BY <1>7 DEF MonitorLook, TypeOK, AloneProcs, Alone, AloneFile, AloneSaid, Blank, CheckEnds,
    Expired, Gone, IdleText, MonitorDecision, Never, Resolved, Text, diskVars, procVars,
    worldVars
<1>8. CASE MonitorOpen
  BY <1>8 DEF MonitorOpen, TypeOK, AloneProcs, Alone, AloneFile, AloneSaid, Blank, Expired,
    Gone, IdleText, Looked, Never, Race, Resolved, Text, Truncate, Writers, procVars, worldVars
<1>9. CASE MonitorSave
  BY <1>9 DEF MonitorSave, TypeOK, AloneProcs, Alone, AloneFile, AloneSaid, Blank, CheckEnds,
    Due, Expired, Flush, Gone, IdleText, Looked, Never, NoPen, Overlaid, Race, Resolved, TellIf,
    Text, Writers, procVars, worldVars
<1>10. CASE MonitorUnlink
  BY <1>10 DEF MonitorUnlink, TypeOK, AloneProcs, Alone, AloneFile, AloneSaid, Blank, CheckEnds,
    Due, Expired, Gone, IdleText, Looked, Never, Race, Resolved, TellIf, Text, Unlink, Writers,
    diskVars, procVars, worldVars
<1>11. CASE MonitorTell
  BY <1>11 DEF MonitorTell, Sent, TypeOK, AloneProcs, Alone, AloneFile, AloneSaid, Blank, CheckEnds,
    Expired, Gone, IdleText, Never, Resolved, Text, diskVars, procVars, worldVars
<1>12. ASSUME NEW p \in Procs, StartOn(p) PROVE AloneProcs'
  BY <1>12 DEF StartOn, TypeOK, AloneProcs, Alone, AloneFile, AloneSaid, Blank, Expired, Gone,
    Goto, IdleText, Never, Resolved, Text, diskVars, monitorVars, worldVars
<1>13. ASSUME NEW p \in Procs, StartOff(p) PROVE AloneProcs'
  BY <1>13 DEF StartOff, TypeOK, AloneProcs, Alone, AloneFile, AloneSaid, Blank, Expired, Gone,
    Goto, IdleText, Never, Resolved, Text, diskVars, monitorVars, worldVars
<1>14. ASSUME NEW p \in Procs, StartHook(p) PROVE AloneProcs'
  BY <1>14 DEF StartHook, TypeOK, AloneProcs, Alone, AloneFile, AloneSaid, Blank, Expired, Gone,
    Goto, IdleText, Never, Resolved, Text, diskVars, monitorVars, worldVars
<1>15. ASSUME NEW p \in Procs, OpenMarker(p) PROVE AloneProcs'
  BY <1>15 DEF OpenMarker, TypeOK, AloneProcs, Alone, AloneFile, AloneSaid, Blank, Expired,
    Gone, Goto, IdleText, Looked, Never, Race, Resolved, Text, Truncate, Writers, monitorVars,
    worldVars
<1>16. ASSUME NEW p \in Procs, SaveMarker(p) PROVE AloneProcs'
  BY <1>16 DEF SaveMarker, TypeOK, AloneProcs, Alone, AloneFile, AloneSaid, Blank, Ends,
    Expired, Flush, Gone, Goto, IdleText, Looked, Never, NoPen, Overlaid, Race, Resolved, Text,
    Writers, monitorVars, worldVars
<1>17. ASSUME NEW p \in Procs, ReadAfk(p) PROVE AloneProcs'
  BY <1>17 DEF ReadAfk, TypeOK, AloneProcs, Alone, AloneFile, AloneSaid, AfterRead, Blank, Ends,
    Expired, Gone, Goto, IdleText, Looks, Never, Resolved, Text, monitorVars, worldVars
<1>18. ASSUME NEW p \in Procs, DropExpired(p) PROVE AloneProcs'
  BY <1>18 DEF DropExpired, TryUnlink, TypeOK, AloneProcs, Alone, AloneFile, AloneSaid, AfterRead, Blank,
    Ends, Expired, Gone, Goto, IdleText, Looked, Never, Race, Resolved, Text, Unlink, Writers,
    diskVars, monitorVars, worldVars
<1>19. ASSUME NEW p \in Procs, ClearMarker(p) PROVE AloneProcs'
  BY <1>19 DEF ClearMarker, TryUnlink, Keeps, TypeOK, AloneProcs, Alone, AloneFile, AloneSaid, Blank, Expired,
    Gone, Goto, IdleText, Looked, Never, Race, Resolved, Text, Unlink, Writers, diskVars,
    monitorVars, worldVars
<1>20. ASSUME NEW p \in Procs, ClearLegacy(p) PROVE AloneProcs'
  BY <1>20 DEF ClearLegacy, TryUnlink, TypeOK, AloneProcs, Alone, AloneFile, AloneSaid, Blank, Ends,
    Expired, Gone, Goto, IdleText, Looked, Never, Race, Resolved, Text, Unlink, Writers,
    diskVars, monitorVars, worldVars
<1>21. CASE UNCHANGED vars
  BY <1>21 DEF vars, userVars, refusalVars, TypeOK, AloneProcs, Alone, AloneFile, AloneSaid, Blank, Expired, Gone,
    IdleText, Never, Resolved, Text, diskVars, monitorVars, procVars, worldVars
<1> QED BY <1>1, <1>2, <1>3, <1>4, <1>5, <1>6, <1>7, <1>8, <1>9, <1>10, <1>11, <1>12, <1>13,
    <1>14, <1>15, <1>16, <1>17, <1>18, <1>19, <1>20, <1>21 DEF Next, MonitorNext, ProcNext, StartNext

-----------------------------------------------------------------------------
(* Without commands the monitor alone writes.                               *)

LEMMA AloneFileStep ==
  ASSUME TypeOK, AloneProcs, AloneFile, AloneSaid, [Next]_vars
  PROVE  AloneFile'
<1> USE ConstantsAssumption DEF userVars, refusalVars
<1>1. CASE Tick
  BY <1>1 DEF Tick, TypeOK, AloneProcs, Alone, AloneFile, AloneSaid, Blank, Dirs, Gone,
    IdleText, Never, NoPen, Resolved, Text, Writers, diskVars, monitorVars, procVars
<1>2. CASE Prompt
  BY <1>2 DEF Prompt, TypeOK, AloneProcs, Alone, AloneFile, AloneSaid, Blank, Dirs, Gone,
    IdleText, Never, NoPen, Resolved, Text, Writers, diskVars, monitorVars, procVars
<1>3. CASE Lifecycle
  BY <1>3 DEF Lifecycle, TypeOK, AloneProcs, Alone, AloneFile, AloneSaid, Blank, Dirs, Gone,
    IdleText, Never, NoPen, Resolved, Text, Writers, diskVars, monitorVars, procVars
<1>4. CASE Restart
  BY <1>4 DEF Restart, TypeOK, AloneProcs, Alone, AloneFile, AloneSaid, Blank, CheckEnds, Dirs,
    Gone, IdleText, Never, NoPen, Resolved, Text, Writers, procVars, worldVars
<1>5. CASE MonitorGate
  BY <1>5 DEF MonitorGate, TypeOK, AloneProcs, Alone, AloneFile, AloneSaid, Blank, Dirs, Gone,
    IdleText, Never, NoPen, Resolved, Text, Writers, diskVars, procVars, worldVars
<1>6. CASE MonitorStat
  BY <1>6 DEF MonitorStat, TypeOK, AloneProcs, Alone, AloneFile, AloneSaid, Blank, CheckEnds,
    Dirs, Gone, IdleText, Looks, Never, NoPen, NoPrompt, Resolved, Text, Writers, procVars,
    worldVars
<1>7. CASE MonitorLook
  BY <1>7 DEF MonitorLook, TypeOK, AloneProcs, Alone, AloneFile, AloneSaid, Blank, CheckEnds,
    Dirs, Gone, IdleText, MonitorDecision, Never, NoPen, Resolved, Text, Writers, diskVars,
    procVars, worldVars
<1>8. CASE MonitorOpen
  BY <1>8 DEF MonitorOpen, TypeOK, AloneProcs, Alone, AloneFile, AloneSaid, Blank, Dirs, Gone,
    IdleText, Looked, Never, NoPen, Race, Resolved, Text, Truncate, Writers, procVars, worldVars
<1>9. CASE MonitorSave
  <2> SUFFICES ASSUME Alone PROVE AloneFile'
    BY <1>9 DEF MonitorSave, AloneFile, Alone, procVars
  <2>1. file' = [file EXCEPT !["otaman"] = IdleText]
    BY <1>9 DEF MonitorSave, Flush, Overlaid, AloneFile
  <2>2. mpc' \in {"tell", "rest"} /\ (mlast # "on" => mpc' = "tell" /\ UNCHANGED <<mdir, midle>>)
    BY <1>9 DEF MonitorSave, TellIf, Due, CheckEnds
  <2> QED BY <2>1, <2>2, TextTypes, <1>9 DEF MonitorSave, TypeOK, AloneFile, Dirs
<1>10. CASE MonitorUnlink
  <2> SUFFICES ASSUME Alone PROVE AloneFile'
    BY <1>10 DEF MonitorUnlink, AloneFile, Alone, procVars
  <2>1. /\ file'["otaman"] \in {file["otaman"], Gone}
        /\ file'["maestro"] \in {file["maestro"], Gone}
    BY <1>10 DEF MonitorUnlink, Unlink, diskVars, TypeOK, Dirs
  <2>2. mpc' # "save" /\ file["otaman"] # Blank
    BY <1>10 DEF MonitorUnlink, CheckEnds, TellIf, AloneFile
  <2> QED BY <2>1, <2>2, TextTypes DEF AloneFile
<1>11. CASE MonitorTell
  BY <1>11 DEF MonitorTell, Sent, TypeOK, AloneProcs, Alone, AloneFile, AloneSaid, Blank, CheckEnds,
    Dirs, Gone, IdleText, Never, NoPen, Resolved, Text, Writers, diskVars, procVars, worldVars
<1>12. ASSUME NEW p \in Procs, StartOn(p) PROVE AloneFile'
  BY <1>12 DEF StartOn, TypeOK, AloneProcs, Alone, AloneFile, AloneSaid, Blank, Dirs, Gone,
    Goto, IdleText, Never, NoPen, Resolved, Text, Writers, diskVars, monitorVars, worldVars
<1>13. ASSUME NEW p \in Procs, StartOff(p) PROVE AloneFile'
  BY <1>13 DEF StartOff, TypeOK, AloneProcs, Alone, AloneFile, AloneSaid, Blank, Dirs, Gone,
    Goto, IdleText, Never, NoPen, Resolved, Text, Writers, diskVars, monitorVars, worldVars
<1>14. ASSUME NEW p \in Procs, StartHook(p) PROVE AloneFile'
  BY <1>14 DEF StartHook, TypeOK, AloneProcs, Alone, AloneFile, AloneSaid, Blank, Dirs, Gone,
    Goto, IdleText, Never, NoPen, Resolved, Text, Writers, diskVars, monitorVars, worldVars
<1>15. ASSUME NEW p \in Procs, OpenMarker(p) PROVE AloneFile'
  BY <1>15 DEF OpenMarker, TypeOK, AloneProcs, Alone, AloneFile, AloneSaid, Blank, Dirs, Gone,
    Goto, IdleText, Looked, Never, NoPen, Race, Resolved, Text, Truncate, Writers, monitorVars,
    worldVars
<1>16. ASSUME NEW p \in Procs, SaveMarker(p) PROVE AloneFile'
  BY <1>16 DEF SaveMarker, TypeOK, AloneProcs, Alone, AloneFile, AloneSaid, Blank, Dirs, Ends,
    Flush, Gone, Goto, IdleText, Looked, Never, NoPen, Overlaid, Race, Resolved, Text, Writers,
    monitorVars, worldVars
<1>17. ASSUME NEW p \in Procs, ReadAfk(p) PROVE AloneFile'
  BY <1>17 DEF ReadAfk, TypeOK, AloneProcs, Alone, AloneFile, AloneSaid, AfterRead, Blank, Dirs,
    Ends, Expired, Gone, Goto, IdleText, Looks, Never, NoPen, Resolved, Text, Writers,
    monitorVars, worldVars
<1>18. ASSUME NEW p \in Procs, DropExpired(p) PROVE AloneFile'
  <2> SUFFICES ASSUME Alone PROVE AloneFile'
    BY <1>18 DEF DropExpired, TryUnlink, AloneFile, Alone
  <2>1. /\ file'["otaman"] = file["otaman"]
        /\ file'["maestro"] \in {file["maestro"], Gone} /\ file["maestro"] # IdleText
    BY <1>18 DEF DropExpired, TryUnlink, Unlink, diskVars, TypeOK, AloneProcs, Dirs
  <2>2. pen[Monitor].dir = "otaman" => pen'[Monitor].dir = "otaman"
             /\ pen'[Monitor].linked = pen[Monitor].linked /\ pen'[Monitor].text = pen[Monitor].text
    BY <1>18 DEF DropExpired, TryUnlink, Unlink, diskVars, TypeOK, Pens, AloneProcs, Writers
  <2> QED BY <2>1, <2>2, <1>18 DEF DropExpired, TryUnlink, AloneFile, monitorVars
<1>19. ASSUME NEW p \in Procs, ClearMarker(p) PROVE AloneFile'
  BY <1>19 DEF ClearMarker, TryUnlink, Keeps, TypeOK, AloneProcs, Alone, AloneFile, AloneSaid, Blank, Dirs, Gone,
    Goto, IdleText, Looked, Never, NoPen, Race, Resolved, Text, Unlink, Writers, diskVars,
    monitorVars, worldVars
<1>20. ASSUME NEW p \in Procs, ClearLegacy(p) PROVE AloneFile'
  BY <1>20 DEF ClearLegacy, TryUnlink, TypeOK, AloneProcs, Alone, AloneFile, AloneSaid, Blank, Dirs, Ends,
    Gone, Goto, IdleText, Looked, Never, NoPen, Race, Resolved, Text, Unlink, Writers, diskVars,
    monitorVars, worldVars
<1>21. CASE UNCHANGED vars
  BY <1>21 DEF vars, userVars, refusalVars, TypeOK, AloneProcs, Alone, AloneFile, AloneSaid, Blank, Dirs, Gone,
    IdleText, Never, NoPen, Resolved, Text, Writers, diskVars, monitorVars, procVars, worldVars
<1> QED BY <1>1, <1>2, <1>3, <1>4, <1>5, <1>6, <1>7, <1>8, <1>9, <1>10, <1>11, <1>12, <1>13,
    <1>14, <1>15, <1>16, <1>17, <1>18, <1>19, <1>20, <1>21 DEF Next, MonitorNext, ProcNext, StartNext

-----------------------------------------------------------------------------
(* Without commands messages follow the marker.                             *)

LEMMA AloneSaidStep ==
  ASSUME TypeOK, AloneProcs, AloneFile, AloneSaid, [Next]_vars
  PROVE  AloneSaid'
<1> USE ConstantsAssumption DEF userVars, refusalVars
<1>1. CASE Tick
  BY <1>1 DEF Tick, TypeOK, AloneProcs, Alone, AloneFile, AloneSaid, Blank, Dirs, Gone,
    IdleText, Never, Resolved, Text, Writers, diskVars, monitorVars, procVars
<1>2. CASE Prompt
  BY <1>2 DEF Prompt, TypeOK, AloneProcs, Alone, AloneFile, AloneSaid, Blank, Dirs, Gone,
    IdleText, Never, Resolved, Text, Writers, diskVars, monitorVars, procVars
<1>3. CASE Lifecycle
  BY <1>3 DEF Lifecycle, TypeOK, AloneProcs, Alone, AloneFile, AloneSaid, Blank, Dirs, Gone,
    IdleText, Never, Resolved, Text, Writers, diskVars, monitorVars, procVars
<1>4. CASE Restart
  BY <1>4 DEF Restart, TypeOK, AloneProcs, Alone, AloneFile, AloneSaid, Blank, CheckEnds, Dirs,
    Gone, IdleText, Never, NoPen, Resolved, Text, Writers, procVars, worldVars
<1>5. CASE MonitorGate
  BY <1>5 DEF MonitorGate, TypeOK, AloneProcs, Alone, AloneFile, AloneSaid, Blank, Dirs, Gone,
    IdleText, Never, Resolved, Text, Writers, diskVars, procVars, worldVars
<1>6. CASE MonitorStat
  BY <1>6 DEF MonitorStat, TypeOK, AloneProcs, Alone, AloneFile, AloneSaid, Blank, CheckEnds,
    Dirs, Gone, IdleText, Looks, Never, NoPrompt, Resolved, Text, Writers, procVars, worldVars
<1>7. CASE MonitorLook
  <2> SUFFICES ASSUME Alone PROVE AloneSaid'
    BY <1>7 DEF MonitorLook, AloneSaid, Alone, procVars
  <2>1. file[mdir] \in {Gone, IdleText, Text("manual", Ttl)}
    BY <1>7 DEF MonitorLook, TypeOK, AloneFile, Dirs
  <2>2. /\ MonitorDecision(file[mdir].source) = "open" => file[mdir] = Gone /\ midle
        /\ MonitorDecision(file[mdir].source) = "unlink" => file[mdir] = IdleText /\ ~midle
        /\ MonitorDecision(file[mdir].source) \in {"open", "unlink", "rest"}
    <3>1. CASE file[mdir] = Gone
      BY <3>1 DEF MonitorDecision, Gone, IdleText, Text
    <3>2. CASE file[mdir] = IdleText
      BY <3>2 DEF MonitorDecision, Gone, IdleText, Text
    <3>3. CASE file[mdir] = Text("manual", Ttl)
      BY <3>3 DEF MonitorDecision, Text
    <3> QED BY <2>1, <3>1, <3>2, <3>3
  <2>3. Resolved' = Resolved /\ file' = file
    BY <1>7 DEF MonitorLook, Resolved, diskVars
  <2> QED BY <2>2, <2>3, <1>7 DEF MonitorLook, CheckEnds, AloneSaid
<1>8. CASE MonitorOpen
  BY <1>8 DEF MonitorOpen, TypeOK, AloneProcs, Alone, AloneFile, AloneSaid, Blank, Dirs, Gone,
    IdleText, Looked, Never, Race, Resolved, Text, Truncate, Writers, procVars, worldVars
<1>9. CASE MonitorSave
  <2> SUFFICES ASSUME Alone PROVE AloneSaid'
    BY <1>9 DEF MonitorSave, AloneSaid, Alone, procVars
  <2>1. file' = [file EXCEPT !["otaman"] = IdleText]
    BY <1>9 DEF MonitorSave, Flush, Overlaid, AloneFile
  <2>2. mpc' \in {"tell", "rest"} /\ (mlast # "on" => mpc' = "tell" /\ UNCHANGED <<mdir, midle>>)
    BY <1>9 DEF MonitorSave, TellIf, Due, CheckEnds
  <2>3. Resolved = "otaman" /\ file["otaman"] = Blank /\ midle /\ mlast # "on"
    BY <1>9, TextTypes DEF MonitorSave, TypeOK, AloneFile, AloneSaid, Resolved
  <2>4. Resolved' = "otaman" /\ file'["otaman"] = IdleText
    BY <2>1, TextTypes DEF TypeOK, Resolved, Dirs
  <2> QED BY <1>9, <2>2, <2>3, <2>4 DEF MonitorSave, AloneSaid
<1>10. CASE MonitorUnlink
  BY <1>10 DEF MonitorUnlink, TypeOK, AloneProcs, Alone, AloneFile, AloneSaid, Blank, CheckEnds,
    Dirs, Due, Gone, IdleText, Looked, Never, Race, Resolved, TellIf, Text, Unlink, Writers,
    diskVars, procVars, worldVars
<1>11. CASE MonitorTell
  BY <1>11 DEF MonitorTell, Sent, TypeOK, AloneProcs, Alone, AloneFile, AloneSaid, Blank, CheckEnds,
    Dirs, Gone, IdleText, Never, Resolved, Text, Writers, diskVars, procVars, worldVars
<1>12. ASSUME NEW p \in Procs, StartOn(p) PROVE AloneSaid'
  BY <1>12 DEF StartOn, TypeOK, AloneProcs, Alone, AloneFile, AloneSaid, Blank, Dirs, Gone,
    Goto, IdleText, Never, Resolved, Text, Writers, diskVars, monitorVars, worldVars
<1>13. ASSUME NEW p \in Procs, StartOff(p) PROVE AloneSaid'
  BY <1>13 DEF StartOff, TypeOK, AloneProcs, Alone, AloneFile, AloneSaid, Blank, Dirs, Gone,
    Goto, IdleText, Never, Resolved, Text, Writers, diskVars, monitorVars, worldVars
<1>14. ASSUME NEW p \in Procs, StartHook(p) PROVE AloneSaid'
  BY <1>14 DEF StartHook, TypeOK, AloneProcs, Alone, AloneFile, AloneSaid, Blank, Dirs, Gone,
    Goto, IdleText, Never, Resolved, Text, Writers, diskVars, monitorVars, worldVars
<1>15. ASSUME NEW p \in Procs, OpenMarker(p) PROVE AloneSaid'
  BY <1>15 DEF OpenMarker, TypeOK, AloneProcs, Alone, AloneFile, AloneSaid, Blank, Dirs, Gone,
    Goto, IdleText, Looked, Never, Race, Resolved, Text, Truncate, Writers, monitorVars,
    worldVars
<1>16. ASSUME NEW p \in Procs, SaveMarker(p) PROVE AloneSaid'
  BY <1>16 DEF SaveMarker, TypeOK, AloneProcs, Alone, AloneFile, AloneSaid, Blank, Dirs, Ends,
    Flush, Gone, Goto, IdleText, Looked, Never, NoPen, Overlaid, Race, Resolved, Text, Writers,
    monitorVars, worldVars
<1>17. ASSUME NEW p \in Procs, ReadAfk(p) PROVE AloneSaid'
  BY <1>17 DEF ReadAfk, TypeOK, AloneProcs, Alone, AloneFile, AloneSaid, AfterRead, Blank, Dirs,
    Ends, Expired, Gone, Goto, IdleText, Looks, Never, Resolved, Text, Writers, monitorVars,
    worldVars
<1>18. ASSUME NEW p \in Procs, DropExpired(p) PROVE AloneSaid'
  <2> SUFFICES ASSUME Alone PROVE AloneSaid'
    BY <1>18 DEF DropExpired, TryUnlink, AloneSaid, Alone
  <2>1. /\ file'["otaman"] = file["otaman"]
        /\ file'["maestro"] \in {file["maestro"], Gone} /\ file["maestro"] # IdleText
    BY <1>18 DEF DropExpired, TryUnlink, Unlink, diskVars, TypeOK, AloneProcs, Dirs
  <2>2. /\ Resolved' = "maestro" => Resolved = "maestro"
        /\ file[Resolved] = IdleText <=> file'[Resolved'] = IdleText
    BY <2>1, TextTypes DEF Resolved, AloneFile
  <2> QED BY <2>1, <2>2, <1>18, TextTypes DEF DropExpired, TryUnlink, AloneSaid, monitorVars, TypeOK, Dirs
<1>19. ASSUME NEW p \in Procs, ClearMarker(p) PROVE AloneSaid'
  BY <1>19 DEF ClearMarker, TryUnlink, Keeps, TypeOK, AloneProcs, Alone, AloneFile, AloneSaid, Blank, Dirs, Gone,
    Goto, IdleText, Looked, Never, Race, Resolved, Text, Unlink, Writers, diskVars, monitorVars,
    worldVars
<1>20. ASSUME NEW p \in Procs, ClearLegacy(p) PROVE AloneSaid'
  BY <1>20 DEF ClearLegacy, TryUnlink, TypeOK, AloneProcs, Alone, AloneFile, AloneSaid, Blank, Dirs, Ends,
    Gone, Goto, IdleText, Looked, Never, Race, Resolved, Text, Unlink, Writers, diskVars,
    monitorVars, worldVars
<1>21. CASE UNCHANGED vars
  BY <1>21 DEF vars, userVars, refusalVars, TypeOK, AloneProcs, Alone, AloneFile, AloneSaid, Blank, Dirs, Gone,
    IdleText, Never, Resolved, Text, Writers, diskVars, monitorVars, procVars, worldVars
<1> QED BY <1>1, <1>2, <1>3, <1>4, <1>5, <1>6, <1>7, <1>8, <1>9, <1>10, <1>11, <1>12, <1>13,
    <1>14, <1>15, <1>16, <1>17, <1>18, <1>19, <1>20, <1>21 DEF Next, MonitorNext, ProcNext, StartNext

-----------------------------------------------------------------------------
(* Theorems. *)

\* The inductive invariant holds in every reachable state of the marker.
THEOREM Invariance == SafeSpec => []IInv
<1> USE ConstantsAssumption DEF userVars, refusalVars
<1>1. Init => IInv
  <2> SUFFICES ASSUME Init PROVE IInv
    OBVIOUS
  <2>1. /\ Text("manual", Ttl) \in Markers /\ Text("manual", Ttl) # Gone
        /\ file \in [Dirs -> Markers] /\ file["otaman"] = Gone
        /\ file["maestro"] \in {Gone, IdleText, Text("manual", Ttl)}
    <3>1. Text("manual", Ttl) \in Markers /\ Text("manual", Ttl) # Gone
      BY TextTypes DEF Sources, Text, Gone
    <3> QED BY <3>1, TextTypes DEF Init, Dirs
  <2>2. TypeOK
    <3>1. /\ pen \in [Writers -> Pens] /\ raced \in [Writers -> BOOLEAN]
          /\ now \in 0..MaxTime /\ prompt \in -1..MaxTime /\ said \in {"on", "off"}
      BY TextTypes DEF Init, NoPrompt
    <3>2. /\ pc \in [Procs -> {"idle", "open", "save", "read", "drop", "clear", "clearOld"}]
          /\ task \in [Procs -> {"on", "off", "hook"}] /\ at \in [Procs -> Dirs]
          /\ mdir \in Dirs /\ mlast = "none" /\ mpc = "rest" /\ commands \in Nat /\ restarts \in Nat
      BY DEF Init, Dirs
    <3>3. inert \in BOOLEAN /\ midle \in BOOLEAN /\ lost \in BOOLEAN
      BY Zenon DEF Init
    <3>4. refusals \in Nat /\ kept \in [Procs -> SUBSET Dirs]
      BY DEF Init
    <3> QED BY <2>1, <3>1, <3>2, <3>3, <3>4 DEF TypeOK
  <2>3. MonitorSaw /\ ProcsSaw /\ AloneProcs
    BY DEF Init, MonitorSaw, ProcsSaw, AloneProcs
  <2>4. AloneFile /\ AloneSaid
    BY <2>1, TextTypes DEF Init, AloneFile, AloneSaid, Resolved
  <2> QED BY <2>2, <2>3, <2>4 DEF IInv
<1>2. IInv /\ [Next]_vars => IInv'
  BY TypeOKStep, MonitorSawStep, ProcsSawStep, AloneProcsStep, AloneFileStep, AloneSaidStep
  DEF IInv
<1> QED BY <1>1, <1>2, PTL DEF SafeSpec

\* Types: in every reachable state each variable has its type.
THEOREM TypeCorrect == SafeSpec => []TypeOK
<1>1. IInv => TypeOK
  BY DEF IInv
<1> QED BY <1>1, Invariance, PTL

\* While nobody runs a command and the daemon is not restarted, the state the
\* monitor counts as notified agrees with the marker whenever it rests, and so
\* does the last message unless its send failed (idle_afk.py:213-227).
THEOREM MessagesFollowMarker == SafeSpec => []AloneItTells
<1>1. IInv => AloneItTells
  BY DEF IInv, AloneSaid, AloneItTells
<1> QED BY <1>1, Invariance, PTL

\* `otaman afk off` leaves no marker behind in a directory unless it was raced or
\* refused the removal there (clear_afk).
THEOREM OffLeavesNothing == SafeSpec => OffEndsAfk
<1> DEFINE Act == \A p \in Procs : pc[p] = "clearOld" /\ Acts(p) /\ ~raced[p]
                     => \A d \in Dirs \ kept[p] :
                          file'[d] = Gone \/ (d = "maestro" /\ refusals' # refusals)
<1>1. IInv /\ [Next]_vars => [Act]_vars
  <2> SUFFICES ASSUME IInv, [Next]_vars, vars' # vars,
                      NEW p \in Procs, pc[p] = "clearOld", Acts(p), ~raced[p]
               PROVE  \A d \in Dirs \ kept[p] :
                        file'[d] = Gone \/ (d = "maestro" /\ refusals' # refusals)
    BY DEF vars, userVars, refusalVars
  <2>1. ClearLegacy(p)
    <3>1. ~(MonitorNext \/ Tick \/ Prompt \/ Lifecycle \/ Restart)
      BY DEF Acts, MonitorNext, Tick, Prompt, Lifecycle, Restart, MonitorGate, MonitorStat, MonitorLook,
        MonitorOpen, MonitorSave, MonitorUnlink, MonitorTell, procVars
    <3>2. PICK q \in Procs : StartNext(q) \/ ProcNext(q)
      BY <3>1 DEF Next
    <3>3. q = p
      BY <3>2 DEF Acts, StartNext, ProcNext, StartOn, StartOff, StartHook, OpenMarker, SaveMarker,
        ReadAfk, DropExpired, ClearMarker, ClearLegacy, Goto, Ends, AfterRead, IInv, TypeOK
    <3> QED BY <3>2, <3>3 DEF StartNext, ProcNext, StartOn, StartOff, StartHook, OpenMarker,
          SaveMarker, ReadAfk, DropExpired, ClearMarker
  <2>2. file["otaman"] = Gone \/ "otaman" \in kept[p]
    BY DEF IInv, ProcsSaw
  <2> QED BY <2>1, <2>2 DEF ClearLegacy, TryUnlink, Unlink, diskVars, IInv, TypeOK, Dirs
<1> QED BY <1>1, Invariance, PTL DEF SafeSpec, OffEndsAfk

\* A step that changes a marker is of a writer, and of one marker only.
LEMMA WhoChanges ==
  ASSUME IInv, [Next]_vars, NEW d \in Dirs, file'[d] # file[d]
  PROVE  \/ MonitorOpen \/ MonitorSave \/ MonitorUnlink
         \/ \E q \in Procs : OpenMarker(q) \/ SaveMarker(q) \/ DropExpired(q)
                              \/ ClearMarker(q) \/ ClearLegacy(q)
<1>1. CASE UNCHANGED vars
  BY <1>1 DEF vars, userVars, refusalVars, diskVars
<1>2. ~(Tick \/ Prompt \/ Lifecycle \/ Restart \/ MonitorGate \/ MonitorStat \/ MonitorLook \/ MonitorTell)
  BY DEF Tick, Prompt, Lifecycle, Restart, MonitorGate, MonitorStat, MonitorLook, MonitorTell, diskVars
<1>3. ASSUME NEW q \in Procs PROVE ~(StartNext(q) \/ ReadAfk(q))
  BY DEF StartNext, StartOn, StartOff, StartHook, ReadAfk, diskVars
<1> QED BY <1>1, <1>2, <1>3 DEF Next, MonitorNext, ProcNext

\* The monitor takes no held marker it could see, and a reader no valid one
\* (idle_afk.py:186-225, read_afk).
THEOREM NothingSeenIsTaken == SafeSpec => NothingTakenUnseen
<1> DEFINE Act == \A d \in Dirs : file'[d] # file[d] =>
       /\ MonitorActs /\ file[d].source \in Held => raced[Monitor]
       /\ \A p \in Procs : pc[p] = "drop" /\ Acts(p) => Expired(file[d]) \/ raced[p]
<1>1. IInv /\ [Next]_vars => [Act]_vars
  <2> SUFFICES ASSUME IInv, [Next]_vars, NEW d \in Dirs, file'[d] # file[d]
               PROVE  /\ MonitorActs /\ file[d].source \in Held => raced[Monitor]
                      /\ \A p \in Procs : pc[p] = "drop" /\ Acts(p) => Expired(file[d]) \/ raced[p]
    BY DEF vars, userVars, refusalVars
  <2> USE DEF IInv, TypeOK
  <2>1. CASE MonitorOpen
    <3>1. d = Resolved /\ mpc = "open"
      BY <2>1, ResolvedType DEF MonitorOpen, Truncate
    <3>2. file[d].source \in Held => raced[Monitor]
      BY <3>1 DEF MonitorSaw, Held
    <3> QED BY <2>1, <3>2 DEF MonitorOpen, procVars, Acts
  <2>2. CASE MonitorSave
    <3>1. pen[Monitor].linked /\ d = pen[Monitor].dir /\ mpc = "save"
      BY <2>2 DEF MonitorSave, Flush
    <3>2. file[d].source \in Held => raced[Monitor]
      BY <3>1 DEF MonitorSaw, Held, Blank
    <3> QED BY <2>2, <3>2 DEF MonitorSave, procVars, Acts
  <2>3. CASE MonitorUnlink
    <3>1. d = mdir /\ mpc = "unlink"
      BY <2>3 DEF MonitorUnlink, Unlink, diskVars
    <3>2. file[d].source \in Held => raced[Monitor]
      BY <3>1 DEF MonitorSaw, Held
    <3> QED BY <2>3, <3>2 DEF MonitorUnlink, procVars, Acts
  <2>4. ASSUME NEW q \in Procs, DropExpired(q)
        PROVE  /\ ~MonitorActs
               /\ \A p \in Procs : pc[p] = "drop" /\ Acts(p) => Expired(file[d]) \/ raced[p]
    <3>1. d = at[q] /\ pc[q] = "drop" /\ ~MonitorActs
      BY <2>4 DEF DropExpired, TryUnlink, Unlink, diskVars, monitorVars, MonitorActs
    <3>2. \A p \in Procs : Acts(p) => p = q
      BY <2>4 DEF DropExpired, TryUnlink, AfterRead, Ends, Goto, Acts
    <3> QED BY <3>1, <3>2 DEF ProcsSaw
  <2>5. ASSUME NEW q \in Procs, OpenMarker(q) \/ SaveMarker(q) \/ ClearMarker(q) \/ ClearLegacy(q)
        PROVE  /\ ~MonitorActs
               /\ \A p \in Procs : pc[p] = "drop" /\ Acts(p) => Expired(file[d]) \/ raced[p]
    BY <2>5 DEF OpenMarker, SaveMarker, ClearMarker, TryUnlink, Keeps, ClearLegacy, Ends, Goto, Acts, monitorVars,
      MonitorActs
  <2> QED BY WhoChanges, <2>1, <2>2, <2>3, <2>4, <2>5
<1> QED BY <1>1, Invariance, PTL DEF SafeSpec, NothingTakenUnseen

=============================================================================
