------------------------------ MODULE BusProofs ------------------------------
(***************************************************************************)
(* Proofs about BusSurface, for any messages, kinds and bounds: the table   *)
(* of pending cards agrees with what is on disk, duplicates are paid for by *)
(* mishaps, files without provenance stay out, and decisions are kept as    *)
(* DecisionLog promises.                                                    *)
(***************************************************************************)
EXTENDS BusSurface, TLAPS

-----------------------------------------------------------------------------
(* The inductive invariant. *)

\* What the daemon knows of is or was on the bus.
KnownFiles ==
  \A f \in saved \cup seen \cup todo \cup current : where[f] # "unwritten"

\* The watcher runs in a daemon that is up and holds one message at most.
WatcherRuns ==
  /\ life # "up" => watcher = "idle"
  /\ life = "down" => todo = {} /\ pending = {}
  /\ watcher = "idle" => seen = {} /\ current = {} /\ (life = "up" => todo = {})
  /\ watcher \in {"scanning", "alerting"} => current = {}
  /\ \A m, n \in current : m = n

\* A scan's work list, the message it sends and what it counts as surfaced are apart.
ScanDisjoint ==
  life = "up" =>
    /\ todo \cap (saved \cup seen) = {}
    /\ current \cap (saved \cup seen \cup todo) = {}
    /\ watcher # "idle" => saved \subseteq seen

ScanInv == KnownFiles /\ WatcherRuns /\ ScanDisjoint

Undecided(m) == Kind[m] \in Interactive /\ ack[m] \in {NoAck, Torn} /\ m \notin halfway

\* The decision under way is the one acked, and verdicts are of proposals.
DecideInv ==
  /\ \A d, e \in deciding : d = e
  /\ \A d \in deciding : ack[d.about] = d.what
  /\ \A m \in Messages : ack[m] \in Verdicts => Kind[m] = "proposal"
  /\ \A m \in Messages : ack[m] = Torn => Kind[m] \in Interactive
  /\ \A m \in pending : Kind[m] \in Interactive
  /\ \A d \in deciding : d.about \in pending

\* The table holds what is undecided, also while it is being rebuilt.
TableInv ==
  /\ \A m \in current : Undecided(m) => m \in pending
  /\ life = "starting" =>
       \A m \in Messages \cap saved : (m \in Bus /\ Undecided(m)) => m \in pending \cup todo
  /\ NoDeadCard

\* A half-made decision is in the table, or its daemon is gone.
HalfInv ==
  \A m \in Messages : (HalfDecided(m) /\ m \notin halfway) =>
    /\ life # "down"
    /\ life = "starting" => m \in pending
    /\ life = "up" /\ m \in (saved \cup seen \cup current) \cap Bus => m \in pending

Settled(m) == m \in saved \cup seen \/ (m \in current /\ watcher = "sent")

\* A message that may be delivered once more was delivered at most once per mishap.
DupInv ==
  \A m \in Messages : posted[m] <= mishaps + (IF Settled(m) THEN 1 ELSE 0)

\* The newest card of m has no edit scheduled.
Fresh(m) == m \in handle \/ (m \in current /\ watcher = "sent" /\ Kind[m] \in Interactive)

\* Scheduled edits and handles are of different cards, each with buttons still.
EditRight(m) ==
  /\ live[m] <= posted[m]
  /\ edits[m] + (IF Fresh(m) THEN 1 ELSE 0) <= live[m]
  /\ m \in current => m \notin handle

EditInv == \A m \in Messages : EditRight(m)

Decided(m) == \E v \in Verdicts : where[[about |-> m, what |-> v]] # "unwritten"

\* Taps and decisions are of delivered messages.
TapInv ==
  /\ \A m \in Messages, a \in Actions : <<m, a>> \in taps => posted[m] > 0
  /\ \A d \in deciding : posted[d.about] > 0
  /\ \A m \in Messages : Decided(m) => posted[m] > 0

\* Without a mishap the daemon is in its first run, and a decided message is out of play.
FirstRun ==
  mishaps = 0 =>
    /\ life # "up" => saved = {}
    /\ \A m \in Messages : Decided(m) => m \notin pending
    /\ \A d \in deciding : ~Decided(d.about)

IInv ==
  /\ TypeOK /\ ScanInv /\ ForgedInert /\ DecideInv /\ BroadcastBacked
  /\ TableInv /\ HalfInv /\ DupInv /\ EditInv /\ TapInv /\ FirstRun /\ OneVerdict

-----------------------------------------------------------------------------
(* Files. *)

\* Writing a file of the daemon's own disturbs no message, and other files of
\* the daemon's own at most by overwriting them.
LEMMA WriteKeeps ==
  ASSUME TypeOK, NEW f \in Written, WriteFile(f)
  PROVE  /\ where' \in [Files -> Places]
         /\ where'[f] = "active"
         /\ \A g \in Files \ {f} :
              where'[g] = where[g] \/ (where[g] = "active" /\ where'[g] = "overwritten")
         /\ \A m \in Messages : where'[m] = where[m]
<1>1. PICK lost \in Overwritten(f) :
        where' = [g \in Files |-> IF g = f THEN "active"
                                  ELSE IF g \in lost THEN "overwritten" ELSE where[g]]
  BY DEF WriteFile
<1>2. lost \subseteq Bus \cap Written
  BY <1>1 DEF Overwritten
<1>3. f \in Files
  BY DEF Files
<1> QED
  BY <1>1, <1>2, <1>3, NamesAssumption DEF TypeOK, Places, Bus, Files

\* A write that fails leaves the file unwritten, and may cost another one.
LEMMA TearKeeps ==
  ASSUME TypeOK, NEW f \in Written, TearFile(f)
  PROVE  /\ where' \in [Files -> Places]
         /\ \A g \in Files :
              where'[g] = where[g] \/ (where[g] = "active" /\ where'[g] = "overwritten")
         /\ \A m \in Messages : where'[m] = where[m]
<1>1. PICK lost \in Overwritten(f) :
        where' = [g \in Files |-> IF g \in lost THEN "overwritten" ELSE where[g]]
  BY DEF TearFile
<1>2. lost \subseteq Bus \cap Written
  BY <1>1 DEF Overwritten
<1> QED
  BY <1>1, <1>2, NamesAssumption DEF TypeOK, Places, Bus, Files

\* What the listener writes is a file of the daemon's own.
LEMMA WritesWritten ==
  ASSUME TypeOK
  PROVE  /\ \A m \in Messages : [about |-> m, what |-> "reply"] \in Written
         /\ \A m \in Messages, v \in Verdicts : [about |-> m, what |-> v] \in Written
         /\ deciding \subseteq Written
         /\ Written \subseteq Files
BY DEF TypeOK, Written, Files, Verdicts

\* Approve and Reject stand for a verdict.
LEMMA ButtonVerdict ==
  \A a \in Actions : a # "comment" => ToVerdict[a] \in Verdicts
BY ConstantsAssumption DEF ToVerdict, Verdicts

\* A refused ack or comment: what is written stays written, and an ack is as it was
\* or torn.
LEMMA RefusedKeeps ==
  ASSUME TypeOK, NEW m \in Messages, NEW a \in Actions, WriteFails(m, a)
  PROVE  /\ LoopFree /\ m \in pending /\ <<m, a>> \in taps /\ taps' = taps \ {<<m, a>>}
         /\ where' \in [Files -> Places]
         /\ \A g \in Files :
              where'[g] = where[g] \/ (where[g] = "active" /\ where'[g] = "overwritten")
         /\ \A n \in Messages : where'[n] = where[n]
         /\ ack' = ack \/ (a # "comment" /\ ack' = [ack EXCEPT ![m] = Torn])
         /\ UNCHANGED <<life, saved, watcher, todo, seen, current, pending, handle, deciding,
                        edits, posted, live, mishaps, halfway>>
<1>1. /\ LoopFree /\ m \in pending /\ <<m, a>> \in taps /\ taps' = taps \ {<<m, a>>}
      /\ UNCHANGED <<life, saved, watcher, todo, seen, current, pending, handle, deciding,
                     edits, posted, live, mishaps, halfway>>
  BY DEF WriteFails, Dispatch, scanVars, tableVars
<1>2. CASE a = "comment"
  <2>1. TearFile([about |-> m, what |-> "reply"]) /\ UNCHANGED ack
    BY <1>2 DEF WriteFails
  <2>2. [about |-> m, what |-> "reply"] \in Written
    BY WritesWritten
  <2> QED BY <1>1, <2>1, <2>2, TearKeeps
<1>3. CASE a # "comment"
  <2>1. UNCHANGED where /\ (ack' = ack \/ ack' = [ack EXCEPT ![m] = Torn])
    BY <1>3 DEF WriteFails
  <2> QED BY <1>1, <1>3, <2>1 DEF TypeOK
<1> QED BY <1>2, <1>3

\* A broadcast that fails.
LEMMA UntoldKeeps ==
  ASSUME TypeOK, NEW d \in deciding, BroadcastFails(d)
  PROVE  /\ where' \in [Files -> Places] /\ deciding' = {}
         /\ \A g \in Files :
              where'[g] = where[g] \/ (where[g] = "active" /\ where'[g] = "overwritten")
         /\ \A n \in Messages : where'[n] = where[n]
         /\ UNCHANGED <<life, ack, saved, watcher, todo, seen, current, pending, handle, taps,
                        edits, posted, live, mishaps, halfway>>
<1>1. TearFile(d) /\ d \in Written
  BY WritesWritten DEF BroadcastFails
<1> QED BY <1>1, TearKeeps DEF BroadcastFails, scanVars, chatVars

-----------------------------------------------------------------------------
(* One lemma per part of the invariant, one step per action. *)

\* Every step keeps the types.
LEMMA TypeStep == ASSUME TypeOK, EditInv, Next PROVE TypeOK'
<1> USE DEF TypeOK, diskVars, scanVars, tableVars, chatVars
<1>1. ASSUME NEW m \in Messages, Publish(m) PROVE TypeOK'
  BY <1>1 DEF Publish, Files, Places
<1>2. ASSUME NEW m \in Messages, Archive(m) PROVE TypeOK'
  BY <1>2 DEF Archive, Files, Places
<1>3. CASE ScanStart
  BY <1>3 DEF ScanStart, Bus, LoopFree
<1>4. ASSUME NEW f \in Files, Quarantine(f) PROVE TypeOK'
  BY <1>4 DEF Quarantine, Bus, Places
<1>5. CASE AlertDone
  BY <1>5 DEF AlertDone, LoopFree
<1>6. ASSUME NEW f \in Files, PassOver(f) PROVE TypeOK'
  BY <1>6 DEF PassOver
<1>7. ASSUME NEW m \in Messages, StartSend(m) PROVE TypeOK'
  BY <1>7 DEF StartSend
<1>8. ASSUME NEW m \in Messages, Delivered(m) PROVE TypeOK'
  BY <1>8 DEF Delivered
<1>9. ASSUME NEW m \in Messages, SendReturns(m) PROVE TypeOK'
  BY <1>9 DEF SendReturns, LoopFree, Files
<1>10. ASSUME NEW m \in Messages, SendFails(m) PROVE TypeOK'
  BY <1>10 DEF SendFails, LoopFree, Mishap
<1>11. CASE ScanEnd
  BY <1>11 DEF ScanEnd, Mishap
<1>12. CASE ScanAborts
  BY <1>12 DEF ScanAborts, Mishap
<1>13. ASSUME NEW m \in Messages, NEW a \in Actions, Tap(m, a) PROVE TypeOK'
  BY <1>13 DEF Tap
<1>14. ASSUME NEW m \in Messages, NEW a \in Actions, DropTap(m, a) PROVE TypeOK'
  BY <1>14 DEF DropTap, LoopFree
<1>15. ASSUME NEW m \in Messages, RecordComment(m) PROVE TypeOK'
  <2>1. WriteFile([about |-> m, what |-> "reply"])
    BY <1>15 DEF RecordComment
  <2> QED
    BY <1>15, <2>1, WritesWritten, WriteKeeps DEF RecordComment, Dispatch, LoopFree
<1>16. ASSUME NEW m \in Messages, NEW a \in Actions, Acknowledge(m, a) PROVE TypeOK'
  BY <1>16 DEF Acknowledge, Dispatch, LoopFree, Settle
<1>17. ASSUME NEW m \in Messages, NEW a \in Actions, WriteAck(m, a) PROVE TypeOK'
  BY <1>17, ButtonVerdict DEF WriteAck, Dispatch, LoopFree
<1>18. ASSUME NEW m \in Messages, NEW a \in Actions, WriteFails(m, a) PROVE TypeOK'
  BY <1>18, RefusedKeeps, WritesWritten DEF LoopFree
<1>19. ASSUME NEW d \in deciding, Broadcast(d) PROVE TypeOK'
  <2>1. WriteFile(d)
    BY <1>19 DEF Broadcast
  <2> QED
    BY <1>19, <2>1, WritesWritten, WriteKeeps DEF Broadcast, Settle
<1>20. ASSUME NEW d \in deciding, BroadcastFails(d) PROVE TypeOK'
  BY <1>20, UntoldKeeps, WritesWritten
<1>21. ASSUME NEW m \in Messages, RunEdit(m) PROVE TypeOK'
  BY <1>21 DEF RunEdit, LoopFree, EditInv, EditRight, Fresh
<1>22. CASE GoDown
  BY <1>22 DEF GoDown, Mishap
<1>23. CASE Boot
  BY <1>23 DEF Boot, Bus
<1>24. ASSUME NEW f \in Files, Recover(f) PROVE TypeOK'
  BY <1>24 DEF Recover, KindOf, Interactive
<1>25. CASE StartWatcher
  BY <1>25 DEF StartWatcher
<1> QED BY <1>1, <1>2, <1>3, <1>4, <1>5, <1>6, <1>7, <1>8, <1>9, <1>10, <1>11, <1>12,
        <1>13, <1>14, <1>15, <1>16, <1>17, <1>18, <1>19, <1>20, <1>21, <1>22, <1>23,
        <1>24, <1>25
     DEF Next, Scan, ScanWork, SendEnds, Listen, Decide, Transport, Restart, Environment

\* Every step keeps the watcher's bookkeeping.
LEMMA ScanStep == ASSUME TypeOK, ScanInv, Next PROVE ScanInv'
<1> USE DEF TypeOK, ScanInv, KnownFiles, WatcherRuns, ScanDisjoint, diskVars, scanVars,
            tableVars, chatVars
<1>1. ASSUME NEW m \in Messages, Publish(m) PROVE ScanInv'
  BY <1>1 DEF Publish
<1>2. ASSUME NEW m \in Messages, Archive(m) PROVE ScanInv'
  BY <1>2 DEF Archive
<1>3. CASE ScanStart
  BY <1>3 DEF ScanStart, Bus, LoopFree
<1>4. ASSUME NEW f \in Files, Quarantine(f) PROVE ScanInv'
  BY <1>4 DEF Quarantine, Bus
<1>5. CASE AlertDone
  BY <1>5 DEF AlertDone, LoopFree
<1>6. ASSUME NEW f \in Files, PassOver(f) PROVE ScanInv'
  BY <1>6 DEF PassOver
<1>7. ASSUME NEW m \in Messages, StartSend(m) PROVE ScanInv'
  BY <1>7 DEF StartSend
<1>8. ASSUME NEW m \in Messages, Delivered(m) PROVE ScanInv'
  BY <1>8 DEF Delivered
<1>9. ASSUME NEW m \in Messages, SendReturns(m) PROVE ScanInv'
  BY <1>9 DEF SendReturns, LoopFree
<1>10. ASSUME NEW m \in Messages, SendFails(m) PROVE ScanInv'
  BY <1>10 DEF SendFails, LoopFree, Mishap
<1>11. CASE ScanEnd
  BY <1>11 DEF ScanEnd, Mishap
<1>12. CASE ScanAborts
  BY <1>12 DEF ScanAborts, Mishap
<1>13. ASSUME NEW m \in Messages, NEW a \in Actions, Tap(m, a) PROVE ScanInv'
  BY <1>13 DEF Tap
<1>14. ASSUME NEW m \in Messages, NEW a \in Actions, DropTap(m, a) PROVE ScanInv'
  BY <1>14 DEF DropTap, LoopFree
<1>15. ASSUME NEW m \in Messages, RecordComment(m) PROVE ScanInv'
  <2>1. WriteFile([about |-> m, what |-> "reply"])
    BY <1>15 DEF RecordComment
  <2> QED
    BY <1>15, <2>1, WritesWritten, WriteKeeps DEF RecordComment, Dispatch, LoopFree
<1>16. ASSUME NEW m \in Messages, NEW a \in Actions, Acknowledge(m, a) PROVE ScanInv'
  BY <1>16 DEF Acknowledge, Dispatch, LoopFree, Settle
<1>17. ASSUME NEW m \in Messages, NEW a \in Actions, WriteAck(m, a) PROVE ScanInv'
  BY <1>17 DEF WriteAck, Dispatch, LoopFree
<1>18. ASSUME NEW m \in Messages, NEW a \in Actions, WriteFails(m, a) PROVE ScanInv'
  BY <1>18, RefusedKeeps, WritesWritten DEF LoopFree
<1>19. ASSUME NEW d \in deciding, Broadcast(d) PROVE ScanInv'
  <2>1. WriteFile(d)
    BY <1>19 DEF Broadcast
  <2> QED
    BY <1>19, <2>1, WritesWritten, WriteKeeps DEF Broadcast, Settle
<1>20. ASSUME NEW d \in deciding, BroadcastFails(d) PROVE ScanInv'
  BY <1>20, UntoldKeeps, WritesWritten
<1>21. ASSUME NEW m \in Messages, RunEdit(m) PROVE ScanInv'
  BY <1>21 DEF RunEdit, LoopFree
<1>22. CASE GoDown
  BY <1>22 DEF GoDown, Mishap
<1>23. CASE Boot
  BY <1>23 DEF Boot, Bus
<1>24. ASSUME NEW f \in Files, Recover(f) PROVE ScanInv'
  BY <1>24 DEF Recover
<1>25. CASE StartWatcher
  BY <1>25 DEF StartWatcher
<1> QED BY <1>1, <1>2, <1>3, <1>4, <1>5, <1>6, <1>7, <1>8, <1>9, <1>10, <1>11, <1>12,
        <1>13, <1>14, <1>15, <1>16, <1>17, <1>18, <1>19, <1>20, <1>21, <1>22, <1>23,
        <1>24, <1>25
     DEF Next, Scan, ScanWork, SendEnds, Listen, Decide, Transport, Restart, Environment

\* No step takes a forged file for anything but quarantine.
LEMMA ForgedStep == ASSUME TypeOK, ForgedInert, Next PROVE ForgedInert'
<1> USE DEF ForgedInert, diskVars, scanVars, tableVars, chatVars
<1>1. ASSUME NEW m \in Messages, Publish(m) PROVE ForgedInert'
  BY <1>1 DEF Publish
<1>2. ASSUME NEW m \in Messages, Archive(m) PROVE ForgedInert'
  BY <1>2 DEF Archive
<1>3. CASE ScanStart
  BY <1>3 DEF ScanStart, Bus, LoopFree
<1>4. ASSUME NEW f \in Files, Quarantine(f) PROVE ForgedInert'
  BY <1>4 DEF Quarantine, Bus
<1>5. CASE AlertDone
  BY <1>5 DEF AlertDone, LoopFree
<1>6. ASSUME NEW f \in Files, PassOver(f) PROVE ForgedInert'
  BY <1>6 DEF PassOver
<1>7. ASSUME NEW m \in Messages, StartSend(m) PROVE ForgedInert'
  BY <1>7 DEF StartSend, KindOf, Interactive
<1>8. ASSUME NEW m \in Messages, Delivered(m) PROVE ForgedInert'
  BY <1>8 DEF Delivered
<1>9. ASSUME NEW m \in Messages, SendReturns(m) PROVE ForgedInert'
  BY <1>9 DEF SendReturns, LoopFree
<1>10. ASSUME NEW m \in Messages, SendFails(m) PROVE ForgedInert'
  BY <1>10 DEF SendFails, LoopFree, Mishap
<1>11. CASE ScanEnd
  BY <1>11 DEF ScanEnd, Mishap
<1>12. CASE ScanAborts
  BY <1>12 DEF ScanAborts, Mishap
<1>13. ASSUME NEW m \in Messages, NEW a \in Actions, Tap(m, a) PROVE ForgedInert'
  BY <1>13 DEF Tap
<1>14. ASSUME NEW m \in Messages, NEW a \in Actions, DropTap(m, a) PROVE ForgedInert'
  BY <1>14 DEF DropTap, LoopFree
<1>15. ASSUME NEW m \in Messages, RecordComment(m) PROVE ForgedInert'
  BY <1>15 DEF RecordComment, Dispatch, LoopFree, WriteFile
<1>16. ASSUME NEW m \in Messages, NEW a \in Actions, Acknowledge(m, a) PROVE ForgedInert'
  BY <1>16 DEF Acknowledge, Dispatch, LoopFree, Settle
<1>17. ASSUME NEW m \in Messages, NEW a \in Actions, WriteAck(m, a) PROVE ForgedInert'
  BY <1>17 DEF WriteAck, Dispatch, LoopFree
<1>18. ASSUME NEW m \in Messages, NEW a \in Actions, WriteFails(m, a) PROVE ForgedInert'
  BY <1>18, RefusedKeeps, WritesWritten DEF LoopFree
<1>19. ASSUME NEW d \in deciding, Broadcast(d) PROVE ForgedInert'
  BY <1>19 DEF Broadcast, WriteFile, Settle
<1>20. ASSUME NEW d \in deciding, BroadcastFails(d) PROVE ForgedInert'
  BY <1>20, UntoldKeeps, WritesWritten
<1>21. ASSUME NEW m \in Messages, RunEdit(m) PROVE ForgedInert'
  BY <1>21 DEF RunEdit, LoopFree
<1>22. CASE GoDown
  BY <1>22 DEF GoDown, Mishap
<1>23. CASE Boot
  BY <1>23 DEF Boot, Bus
<1>24. ASSUME NEW f \in Files, Recover(f) PROVE ForgedInert'
  BY <1>24 DEF Recover, KindOf, Interactive
<1>25. CASE StartWatcher
  BY <1>25 DEF StartWatcher
<1> QED BY <1>1, <1>2, <1>3, <1>4, <1>5, <1>6, <1>7, <1>8, <1>9, <1>10, <1>11, <1>12,
        <1>13, <1>14, <1>15, <1>16, <1>17, <1>18, <1>19, <1>20, <1>21, <1>22, <1>23,
        <1>24, <1>25
     DEF Next, Scan, ScanWork, SendEnds, Listen, Decide, Transport, Restart, Environment

\* Every step keeps acks and the decision under way in agreement.
LEMMA DecideStep == ASSUME TypeOK, DecideInv, Next PROVE DecideInv'
<1> USE DEF TypeOK, DecideInv, Verdicts, Torn, diskVars, scanVars, tableVars, chatVars
<1>1. ASSUME NEW m \in Messages, Publish(m) PROVE DecideInv'
  BY <1>1 DEF Publish
<1>2. ASSUME NEW m \in Messages, Archive(m) PROVE DecideInv'
  BY <1>2 DEF Archive
<1>3. CASE ScanStart
  BY <1>3 DEF ScanStart, Bus, LoopFree
<1>4. ASSUME NEW f \in Files, Quarantine(f) PROVE DecideInv'
  BY <1>4 DEF Quarantine, Bus
<1>5. CASE AlertDone
  BY <1>5 DEF AlertDone, LoopFree
<1>6. ASSUME NEW f \in Files, PassOver(f) PROVE DecideInv'
  BY <1>6 DEF PassOver
<1>7. ASSUME NEW m \in Messages, StartSend(m) PROVE DecideInv'
  BY <1>7 DEF StartSend, KindOf, Interactive
<1>8. ASSUME NEW m \in Messages, Delivered(m) PROVE DecideInv'
  BY <1>8 DEF Delivered
<1>9. ASSUME NEW m \in Messages, SendReturns(m) PROVE DecideInv'
  BY <1>9 DEF SendReturns, LoopFree
<1>10. ASSUME NEW m \in Messages, SendFails(m) PROVE DecideInv'
  BY <1>10 DEF SendFails, LoopFree, Mishap
<1>11. CASE ScanEnd
  BY <1>11 DEF ScanEnd, Mishap
<1>12. CASE ScanAborts
  BY <1>12 DEF ScanAborts, Mishap
<1>13. ASSUME NEW m \in Messages, NEW a \in Actions, Tap(m, a) PROVE DecideInv'
  BY <1>13 DEF Tap
<1>14. ASSUME NEW m \in Messages, NEW a \in Actions, DropTap(m, a) PROVE DecideInv'
  BY <1>14 DEF DropTap, LoopFree
<1>15. ASSUME NEW m \in Messages, RecordComment(m) PROVE DecideInv'
  BY <1>15 DEF RecordComment, Dispatch, LoopFree, WriteFile
<1>16. ASSUME NEW m \in Messages, NEW a \in Actions, Acknowledge(m, a) PROVE DecideInv'
  BY <1>16 DEF Acknowledge, Dispatch, LoopFree, Settle
<1>17. ASSUME NEW m \in Messages, NEW a \in Actions, WriteAck(m, a) PROVE DecideInv'
  BY <1>17 DEF WriteAck, Dispatch, LoopFree
<1>18. ASSUME NEW m \in Messages, NEW a \in Actions, WriteFails(m, a) PROVE DecideInv'
  <2>1. /\ m \in pending /\ deciding = {} /\ taps' \subseteq taps
        /\ ack' = ack \/ ack' = [ack EXCEPT ![m] = Torn]
        /\ UNCHANGED <<life, saved, watcher, todo, seen, current, pending, handle, deciding,
                       posted, mishaps, halfway>>
    <3> HIDE DEF TypeOK, DecideInv
    <3> QED BY <1>18, RefusedKeeps DEF LoopFree
  <2> QED BY <2>1
<1>19. ASSUME NEW d \in deciding, Broadcast(d) PROVE DecideInv'
  BY <1>19 DEF Broadcast, WriteFile, Settle
<1>20. ASSUME NEW d \in deciding, BroadcastFails(d) PROVE DecideInv'
  BY <1>20, UntoldKeeps, WritesWritten
<1>21. ASSUME NEW m \in Messages, RunEdit(m) PROVE DecideInv'
  BY <1>21 DEF RunEdit, LoopFree
<1>22. CASE GoDown
  BY <1>22 DEF GoDown, Mishap
<1>23. CASE Boot
  BY <1>23 DEF Boot, Bus
<1>24. ASSUME NEW f \in Files, Recover(f) PROVE DecideInv'
  BY <1>24 DEF Recover, KindOf, Interactive
<1>25. CASE StartWatcher
  BY <1>25 DEF StartWatcher
<1> QED BY <1>1, <1>2, <1>3, <1>4, <1>5, <1>6, <1>7, <1>8, <1>9, <1>10, <1>11, <1>12,
        <1>13, <1>14, <1>15, <1>16, <1>17, <1>18, <1>19, <1>20, <1>21, <1>22, <1>23,
        <1>24, <1>25
     DEF Next, Scan, ScanWork, SendEnds, Listen, Decide, Transport, Restart, Environment

\* Every step keeps decision files backed by acks.
LEMMA BackedStep == ASSUME TypeOK, DecideInv, BroadcastBacked, Next PROVE BroadcastBacked'
<1> USE DEF TypeOK, DecideInv, BroadcastBacked, diskVars, scanVars, tableVars, chatVars
<1>1. ASSUME NEW m \in Messages, Publish(m) PROVE BroadcastBacked'
  BY <1>1, WritesWritten, NamesAssumption DEF Publish
<1>2. ASSUME NEW m \in Messages, Archive(m) PROVE BroadcastBacked'
  BY <1>2 DEF Archive
<1>3. CASE ScanStart
  BY <1>3 DEF ScanStart, Bus, LoopFree
<1>4. ASSUME NEW f \in Files, Quarantine(f) PROVE BroadcastBacked'
  BY <1>4 DEF Quarantine, Bus
<1>5. CASE AlertDone
  BY <1>5 DEF AlertDone, LoopFree
<1>6. ASSUME NEW f \in Files, PassOver(f) PROVE BroadcastBacked'
  BY <1>6 DEF PassOver
<1>7. ASSUME NEW m \in Messages, StartSend(m) PROVE BroadcastBacked'
  BY <1>7 DEF StartSend
<1>8. ASSUME NEW m \in Messages, Delivered(m) PROVE BroadcastBacked'
  BY <1>8 DEF Delivered
<1>9. ASSUME NEW m \in Messages, SendReturns(m) PROVE BroadcastBacked'
  BY <1>9 DEF SendReturns, LoopFree
<1>10. ASSUME NEW m \in Messages, SendFails(m) PROVE BroadcastBacked'
  BY <1>10 DEF SendFails, LoopFree, Mishap
<1>11. CASE ScanEnd
  BY <1>11 DEF ScanEnd, Mishap
<1>12. CASE ScanAborts
  BY <1>12 DEF ScanAborts, Mishap
<1>13. ASSUME NEW m \in Messages, NEW a \in Actions, Tap(m, a) PROVE BroadcastBacked'
  BY <1>13 DEF Tap
<1>14. ASSUME NEW m \in Messages, NEW a \in Actions, DropTap(m, a) PROVE BroadcastBacked'
  BY <1>14 DEF DropTap, LoopFree
<1>15. ASSUME NEW m0 \in Messages, RecordComment(m0) PROVE BroadcastBacked'
  <2>1. WriteFile([about |-> m0, what |-> "reply"])
    BY <1>15 DEF RecordComment
  <2>2. \A m \in Messages, v \in Verdicts :
          where'[[about |-> m, what |-> v]] # "unwritten"
          => where[[about |-> m, what |-> v]] # "unwritten" \/ [about |-> m, what |-> v] =
                  [about |-> m0, what |-> "reply"]
    BY <1>15, <2>1, WritesWritten, WriteKeeps
  <2> QED
    BY <1>15, <2>2 DEF RecordComment, Verdicts
<1>16. ASSUME NEW m \in Messages, NEW a \in Actions, Acknowledge(m, a)
        PROVE  BroadcastBacked'
  BY <1>16 DEF Acknowledge, Dispatch, LoopFree, Settle
<1>17. ASSUME NEW m \in Messages, NEW a \in Actions, WriteAck(m, a) PROVE BroadcastBacked'
  BY <1>17, ButtonVerdict DEF WriteAck, Dispatch, LoopFree
<1>18. ASSUME NEW m \in Messages, NEW a \in Actions, WriteFails(m, a) PROVE BroadcastBacked'
  <2>1. /\ m \in pending /\ deciding = {} /\ taps' \subseteq taps
        /\ ack' = ack \/ ack' = [ack EXCEPT ![m] = Torn]
        /\ UNCHANGED <<life, saved, watcher, todo, seen, current, pending, handle, deciding,
                       posted, mishaps, halfway>>
    <3> HIDE DEF TypeOK, DecideInv, BroadcastBacked
    <3> QED BY <1>18, RefusedKeeps DEF LoopFree
  <2>2. \A n \in Messages : where'[n] = where[n]
    <3> HIDE DEF TypeOK, DecideInv, BroadcastBacked
    <3> QED BY <1>18, RefusedKeeps
  <2>3. \A n \in Messages, v \in Verdicts :
          (where'[[about |-> n, what |-> v]] = "unwritten")
          <=> (where[[about |-> n, what |-> v]] = "unwritten")
    <3> HIDE DEF TypeOK, DecideInv, BroadcastBacked
    <3> QED BY <1>18, RefusedKeeps, WritesWritten
  <2> QED BY <2>1, <2>3
<1>19. ASSUME NEW d \in deciding, Broadcast(d) PROVE BroadcastBacked'
  <2>1. WriteFile(d)
    BY <1>19 DEF Broadcast
  <2>2. \A m \in Messages, v \in Verdicts :
          where'[[about |-> m, what |-> v]] # "unwritten"
          => where[[about |-> m, what |-> v]] # "unwritten" \/ [about |-> m, what |-> v] = d
    BY <1>19, <2>1, WritesWritten, WriteKeeps
  <2> QED
    BY <1>19, <2>2 DEF Broadcast
<1>20. ASSUME NEW d \in deciding, BroadcastFails(d) PROVE BroadcastBacked'
  BY <1>20, UntoldKeeps, WritesWritten
<1>21. ASSUME NEW m \in Messages, RunEdit(m) PROVE BroadcastBacked'
  BY <1>21 DEF RunEdit, LoopFree
<1>22. CASE GoDown
  BY <1>22 DEF GoDown, Mishap
<1>23. CASE Boot
  BY <1>23 DEF Boot, Bus
<1>24. ASSUME NEW f \in Files, Recover(f) PROVE BroadcastBacked'
  BY <1>24 DEF Recover
<1>25. CASE StartWatcher
  BY <1>25 DEF StartWatcher
<1> QED BY <1>1, <1>2, <1>3, <1>4, <1>5, <1>6, <1>7, <1>8, <1>9, <1>10, <1>11, <1>12,
        <1>13, <1>14, <1>15, <1>16, <1>17, <1>18, <1>19, <1>20, <1>21, <1>22, <1>23,
        <1>24, <1>25
     DEF Next, Scan, ScanWork, SendEnds, Listen, Decide, Transport, Restart, Environment

\* Every step keeps the undecided messages in the table.
LEMMA TableStep ==
  ASSUME TypeOK, ScanInv, DecideInv, TableInv, HalfInv, Next
  PROVE  TableInv'
<1> USE DEF TypeOK, ScanInv, KnownFiles, WatcherRuns, ScanDisjoint, DecideInv, TableInv,
            NoDeadCard, Undecided, Bus, NoAck, Torn, Verdicts, diskVars, scanVars, tableVars,
            chatVars
<1>1. ASSUME NEW m \in Messages, Publish(m) PROVE TableInv'
  BY <1>1 DEF Publish, Files
<1>2. ASSUME NEW m \in Messages, Archive(m) PROVE TableInv'
  BY <1>2 DEF Archive
<1>3. CASE ScanStart
  BY <1>3 DEF ScanStart, LoopFree
<1>4. ASSUME NEW f \in Files, Quarantine(f) PROVE TableInv'
  BY <1>4 DEF Quarantine
<1>5. CASE AlertDone
  BY <1>5 DEF AlertDone, LoopFree
<1>6. ASSUME NEW f \in Files, PassOver(f) PROVE TableInv'
  BY <1>6 DEF PassOver, KindOf, Interactive
<1>7. ASSUME NEW m \in Messages, StartSend(m) PROVE TableInv'
  BY <1>7 DEF StartSend, KindOf, Interactive
<1>8. ASSUME NEW m \in Messages, Delivered(m) PROVE TableInv'
  BY <1>8 DEF Delivered
<1>9. ASSUME NEW m \in Messages, SendReturns(m) PROVE TableInv'
  BY <1>9 DEF SendReturns, LoopFree
<1>10. ASSUME NEW m \in Messages, SendFails(m) PROVE TableInv'
  BY <1>10 DEF SendFails, LoopFree, Mishap
<1>11. CASE ScanEnd
  BY <1>11 DEF ScanEnd, Mishap
<1>12. CASE ScanAborts
  BY <1>12 DEF ScanAborts, Mishap
<1>13. ASSUME NEW m \in Messages, NEW a \in Actions, Tap(m, a) PROVE TableInv'
  BY <1>13 DEF Tap
<1>14. ASSUME NEW m \in Messages, NEW a \in Actions, DropTap(m, a) PROVE TableInv'
  BY <1>14 DEF DropTap, LoopFree
<1>15. ASSUME NEW m \in Messages, RecordComment(m) PROVE TableInv'
  <2>1. WriteFile([about |-> m, what |-> "reply"])
    BY <1>15 DEF RecordComment
  <2> QED
    BY <1>15, <2>1, WritesWritten, WriteKeeps DEF RecordComment, Dispatch, LoopFree, Files
<1>16. ASSUME NEW m \in Messages, NEW a \in Actions, Acknowledge(m, a) PROVE TableInv'
  BY <1>16 DEF Acknowledge, Dispatch, LoopFree, Settle
<1>17. ASSUME NEW m \in Messages, NEW a \in Actions, WriteAck(m, a) PROVE TableInv'
  BY <1>17, ButtonVerdict DEF WriteAck, Dispatch, LoopFree
<1>18. ASSUME NEW m \in Messages, NEW a \in Actions, WriteFails(m, a) PROVE TableInv'
  <2>1. /\ m \in pending /\ deciding = {} /\ taps' \subseteq taps
        /\ ack' = ack \/ ack' = [ack EXCEPT ![m] = Torn]
        /\ UNCHANGED <<life, saved, watcher, todo, seen, current, pending, handle, deciding,
                       posted, mishaps, halfway>>
    <3> HIDE DEF TypeOK, ScanInv, DecideInv, TableInv
    <3> QED BY <1>18, RefusedKeeps DEF LoopFree
  <2>2. \A n \in Messages : where'[n] = where[n]
    <3> HIDE DEF TypeOK, ScanInv, DecideInv, TableInv
    <3> QED BY <1>18, RefusedKeeps
  <2> QED BY <2>1, <2>2
<1>19. ASSUME NEW d \in deciding, Broadcast(d) PROVE TableInv'
  <2>1. WriteFile(d)
    BY <1>19 DEF Broadcast
  <2> QED
    BY <1>19, <2>1, WritesWritten, WriteKeeps DEF Broadcast, Settle, Files
<1>20. ASSUME NEW d \in deciding, BroadcastFails(d) PROVE TableInv'
  BY <1>20, UntoldKeeps, WritesWritten
<1>21. ASSUME NEW m \in Messages, RunEdit(m) PROVE TableInv'
  BY <1>21 DEF RunEdit, LoopFree
<1>22. CASE GoDown
  BY <1>22 DEF GoDown, Mishap
<1>23. CASE Boot
  BY <1>23 DEF Boot
<1>24. ASSUME NEW f \in Files, Recover(f) PROVE TableInv'
  BY <1>24 DEF Recover, KindOf, Interactive, HalfInv, HalfDecided
<1>25. CASE StartWatcher
  BY <1>25 DEF StartWatcher
<1> QED BY <1>1, <1>2, <1>3, <1>4, <1>5, <1>6, <1>7, <1>8, <1>9, <1>10, <1>11, <1>12,
        <1>13, <1>14, <1>15, <1>16, <1>17, <1>18, <1>19, <1>20, <1>21, <1>22, <1>23,
        <1>24, <1>25
     DEF Next, Scan, ScanWork, SendEnds, Listen, Decide, Transport, Restart, Environment

\* Every step keeps half-made decisions in the table of their daemon.
LEMMA HalfStep == ASSUME TypeOK, ScanInv, DecideInv, HalfInv, Next PROVE HalfInv'
<1> USE DEF TypeOK, ScanInv, KnownFiles, WatcherRuns, ScanDisjoint, DecideInv, HalfInv,
            HalfDecided, Unbroadcast, Bus, NoAck, Torn, diskVars, scanVars, tableVars, chatVars
<1>1. ASSUME NEW m \in Messages, Publish(m) PROVE HalfInv'
  BY <1>1, WritesWritten, NamesAssumption DEF Publish
<1>2. ASSUME NEW m \in Messages, Archive(m) PROVE HalfInv'
  BY <1>2 DEF Archive
<1>3. CASE ScanStart
  BY <1>3 DEF ScanStart, LoopFree
<1>4. ASSUME NEW f \in Files, Quarantine(f) PROVE HalfInv'
  BY <1>4 DEF Quarantine
<1>5. CASE AlertDone
  BY <1>5 DEF AlertDone, LoopFree
<1>6. ASSUME NEW f \in Files, PassOver(f) PROVE HalfInv'
  BY <1>6 DEF PassOver, KindOf, Interactive
<1>7. ASSUME NEW m \in Messages, StartSend(m) PROVE HalfInv'
  BY <1>7 DEF StartSend, KindOf, Interactive
<1>8. ASSUME NEW m \in Messages, Delivered(m) PROVE HalfInv'
  BY <1>8 DEF Delivered
<1>9. ASSUME NEW m \in Messages, SendReturns(m) PROVE HalfInv'
  BY <1>9 DEF SendReturns, LoopFree
<1>10. ASSUME NEW m \in Messages, SendFails(m) PROVE HalfInv'
  BY <1>10 DEF SendFails, LoopFree, Mishap
<1>11. CASE ScanEnd
  BY <1>11 DEF ScanEnd, Mishap
<1>12. CASE ScanAborts
  BY <1>12 DEF ScanAborts, Mishap
<1>13. ASSUME NEW m \in Messages, NEW a \in Actions, Tap(m, a) PROVE HalfInv'
  BY <1>13 DEF Tap
<1>14. ASSUME NEW m \in Messages, NEW a \in Actions, DropTap(m, a) PROVE HalfInv'
  BY <1>14 DEF DropTap, LoopFree
<1>15. ASSUME NEW m \in Messages, RecordComment(m) PROVE HalfInv'
  <2>1. WriteFile([about |-> m, what |-> "reply"])
    BY <1>15 DEF RecordComment
  <2> QED
    BY <1>15, <2>1, WritesWritten, WriteKeeps DEF RecordComment, Dispatch, LoopFree, Files
<1>16. ASSUME NEW m \in Messages, NEW a \in Actions, Acknowledge(m, a) PROVE HalfInv'
  BY <1>16 DEF Acknowledge, Dispatch, LoopFree, Settle, Verdicts
<1>17. ASSUME NEW m \in Messages, NEW a \in Actions, WriteAck(m, a) PROVE HalfInv'
  BY <1>17 DEF WriteAck, Dispatch, LoopFree
<1>18. ASSUME NEW m \in Messages, NEW a \in Actions, WriteFails(m, a) PROVE HalfInv'
  <2>1. /\ m \in pending /\ deciding = {} /\ taps' \subseteq taps
        /\ ack' = ack \/ ack' = [ack EXCEPT ![m] = Torn]
        /\ UNCHANGED <<life, saved, watcher, todo, seen, current, pending, handle, deciding,
                       posted, mishaps, halfway>>
    <3> HIDE DEF TypeOK, ScanInv, DecideInv, HalfInv
    <3> QED BY <1>18, RefusedKeeps DEF LoopFree
  <2>2. \A n \in Messages : where'[n] = where[n]
    <3> HIDE DEF TypeOK, ScanInv, DecideInv, HalfInv
    <3> QED BY <1>18, RefusedKeeps
  <2>3. \A n \in Messages, v \in Verdicts :
          (where'[[about |-> n, what |-> v]] = "unwritten")
          <=> (where[[about |-> n, what |-> v]] = "unwritten")
    <3> HIDE DEF TypeOK, ScanInv, DecideInv, HalfInv
    <3> QED BY <1>18, RefusedKeeps, WritesWritten
  <2> QED BY <2>1, <2>2, <2>3
<1>19. ASSUME NEW d \in deciding, Broadcast(d) PROVE HalfInv'
  <2>1. WriteFile(d)
    BY <1>19 DEF Broadcast
  <2>2. /\ \A n \in Messages : where'[n] = where[n]
        /\ \A n \in Messages, v \in Verdicts :
             where'[[about |-> n, what |-> v]] = "unwritten"
             => where[[about |-> n, what |-> v]] = "unwritten"
        /\ where'[d] # "unwritten"
    <3> HIDE DEF ScanInv, DecideInv, HalfInv
    <3> QED BY <2>1, WritesWritten, WriteKeeps
  <2>3. /\ ack[d.about] = d.what /\ d = [about |-> d.about, what |-> d.what]
        /\ d.about \in Messages /\ d.what \in Verdicts
    OBVIOUS
  <2>4. /\ UNCHANGED <<life, ack, saved, watcher, todo, seen, current, halfway>>
        /\ pending' = pending \ {d.about}
    BY <1>19 DEF Broadcast, Settle
  <2>5. ~HalfDecided(d.about)'
    BY <2>2, <2>3, <2>4 DEF Verdicts
  <2>6. \A n \in Messages : HalfDecided(n)' => HalfDecided(n) /\ n # d.about
    BY <2>2, <2>4, <2>5
  <2> HIDE DEF HalfDecided
  <2> QED
    BY <2>2, <2>4, <2>6
<1>20. ASSUME NEW d \in deciding, BroadcastFails(d) PROVE HalfInv'
  BY <1>20, UntoldKeeps, WritesWritten
<1>21. ASSUME NEW m \in Messages, RunEdit(m) PROVE HalfInv'
  BY <1>21 DEF RunEdit, LoopFree
<1>22. CASE GoDown
  BY <1>22 DEF GoDown, Mishap
<1>23. CASE Boot
  BY <1>23 DEF Boot
<1>24. ASSUME NEW f \in Files, Recover(f) PROVE HalfInv'
  BY <1>24 DEF Recover, KindOf, Interactive
<1>25. CASE StartWatcher
  BY <1>25 DEF StartWatcher
<1> QED BY <1>1, <1>2, <1>3, <1>4, <1>5, <1>6, <1>7, <1>8, <1>9, <1>10, <1>11, <1>12,
        <1>13, <1>14, <1>15, <1>16, <1>17, <1>18, <1>19, <1>20, <1>21, <1>22, <1>23,
        <1>24, <1>25
     DEF Next, Scan, ScanWork, SendEnds, Listen, Decide, Transport, Restart, Environment

\* Every step keeps deliveries within the mishaps.
LEMMA DupStep == ASSUME TypeOK, ScanInv, DupInv, Next PROVE DupInv'
<1> USE DEF TypeOK, ScanInv, WatcherRuns, ScanDisjoint, DupInv, Settled, diskVars,
            scanVars, tableVars, chatVars
<1>1. ASSUME NEW m \in Messages, Publish(m) PROVE DupInv'
  BY <1>1 DEF Publish
<1>2. ASSUME NEW m \in Messages, Archive(m) PROVE DupInv'
  BY <1>2 DEF Archive
<1>3. CASE ScanStart
  BY <1>3 DEF ScanStart, Bus, LoopFree
<1>4. ASSUME NEW f \in Files, Quarantine(f) PROVE DupInv'
  BY <1>4 DEF Quarantine, Bus
<1>5. CASE AlertDone
  BY <1>5 DEF AlertDone, LoopFree
<1>6. ASSUME NEW f \in Files, PassOver(f) PROVE DupInv'
  BY <1>6 DEF PassOver
<1>7. ASSUME NEW m \in Messages, StartSend(m) PROVE DupInv'
  BY <1>7 DEF StartSend
<1>8. ASSUME NEW m \in Messages, Delivered(m) PROVE DupInv'
  BY <1>8 DEF Delivered
<1>9. ASSUME NEW m \in Messages, SendReturns(m) PROVE DupInv'
  BY <1>9 DEF SendReturns, LoopFree
<1>10. ASSUME NEW m \in Messages, SendFails(m) PROVE DupInv'
  BY <1>10 DEF SendFails, LoopFree, Mishap
<1>11. CASE ScanEnd
  BY <1>11 DEF ScanEnd, Mishap
<1>12. CASE ScanAborts
  BY <1>12 DEF ScanAborts, Mishap
<1>13. ASSUME NEW m \in Messages, NEW a \in Actions, Tap(m, a) PROVE DupInv'
  BY <1>13 DEF Tap
<1>14. ASSUME NEW m \in Messages, NEW a \in Actions, DropTap(m, a) PROVE DupInv'
  BY <1>14 DEF DropTap, LoopFree
<1>15. ASSUME NEW m \in Messages, RecordComment(m) PROVE DupInv'
  BY <1>15 DEF RecordComment, Dispatch, LoopFree, WriteFile
<1>16. ASSUME NEW m \in Messages, NEW a \in Actions, Acknowledge(m, a) PROVE DupInv'
  BY <1>16 DEF Acknowledge, Dispatch, LoopFree, Settle
<1>17. ASSUME NEW m \in Messages, NEW a \in Actions, WriteAck(m, a) PROVE DupInv'
  BY <1>17 DEF WriteAck, Dispatch, LoopFree
<1>18. ASSUME NEW m \in Messages, NEW a \in Actions, WriteFails(m, a) PROVE DupInv'
  BY <1>18, RefusedKeeps, WritesWritten DEF LoopFree
<1>19. ASSUME NEW d \in deciding, Broadcast(d) PROVE DupInv'
  BY <1>19 DEF Broadcast, WriteFile, Settle
<1>20. ASSUME NEW d \in deciding, BroadcastFails(d) PROVE DupInv'
  BY <1>20, UntoldKeeps, WritesWritten
<1>21. ASSUME NEW m \in Messages, RunEdit(m) PROVE DupInv'
  BY <1>21 DEF RunEdit, LoopFree
<1>22. CASE GoDown
  BY <1>22 DEF GoDown, Mishap
<1>23. CASE Boot
  BY <1>23 DEF Boot, Bus
<1>24. ASSUME NEW f \in Files, Recover(f) PROVE DupInv'
  BY <1>24 DEF Recover
<1>25. CASE StartWatcher
  BY <1>25 DEF StartWatcher
<1> QED BY <1>1, <1>2, <1>3, <1>4, <1>5, <1>6, <1>7, <1>8, <1>9, <1>10, <1>11, <1>12,
        <1>13, <1>14, <1>15, <1>16, <1>17, <1>18, <1>19, <1>20, <1>21, <1>22, <1>23,
        <1>24, <1>25
     DEF Next, Scan, ScanWork, SendEnds, Listen, Decide, Transport, Restart, Environment

\* Every step keeps scheduled edits and handles on cards with buttons.
LEMMA EditStep == ASSUME TypeOK, ScanInv, DecideInv, EditInv, Next PROVE EditInv'
<1> USE DEF TypeOK, ScanInv, WatcherRuns, ScanDisjoint, EditInv, EditRight, Fresh,
            diskVars, scanVars, tableVars, chatVars
<1>1. ASSUME NEW m \in Messages, Publish(m) PROVE EditInv'
  BY <1>1 DEF Publish
<1>2. ASSUME NEW m \in Messages, Archive(m) PROVE EditInv'
  BY <1>2 DEF Archive
<1>3. CASE ScanStart
  BY <1>3 DEF ScanStart, Bus, LoopFree
<1>4. ASSUME NEW f \in Files, Quarantine(f) PROVE EditInv'
  BY <1>4 DEF Quarantine, Bus
<1>5. CASE AlertDone
  BY <1>5 DEF AlertDone, LoopFree
<1>6. ASSUME NEW f \in Files, PassOver(f) PROVE EditInv'
  BY <1>6 DEF PassOver
<1>7. ASSUME NEW m \in Messages, StartSend(m) PROVE EditInv'
  BY <1>7 DEF StartSend
<1>8. ASSUME NEW m \in Messages, Delivered(m) PROVE EditInv'
  <2>1. ASSUME NEW n \in Messages, n = m PROVE EditRight(n)'
    BY <1>8, <2>1 DEF Delivered, KindOf
  <2>2. ASSUME NEW n \in Messages, n # m PROVE EditRight(n)'
    BY <1>8, <2>2 DEF Delivered, KindOf
  <2> QED BY <2>1, <2>2
<1>9. ASSUME NEW m \in Messages, SendReturns(m) PROVE EditInv'
  <2>1. ASSUME NEW n \in Messages, n = m PROVE EditRight(n)'
    BY <1>9, <2>1 DEF SendReturns, LoopFree, DecideInv
  <2>2. ASSUME NEW n \in Messages, n # m PROVE EditRight(n)'
    BY <1>9, <2>2 DEF SendReturns, LoopFree, DecideInv
  <2> QED BY <2>1, <2>2
<1>10. ASSUME NEW m \in Messages, SendFails(m) PROVE EditInv'
  BY <1>10 DEF SendFails, LoopFree, Mishap
<1>11. CASE ScanEnd
  BY <1>11 DEF ScanEnd, Mishap
<1>12. CASE ScanAborts
  BY <1>12 DEF ScanAborts, Mishap
<1>13. ASSUME NEW m \in Messages, NEW a \in Actions, Tap(m, a) PROVE EditInv'
  BY <1>13 DEF Tap
<1>14. ASSUME NEW m \in Messages, NEW a \in Actions, DropTap(m, a) PROVE EditInv'
  BY <1>14 DEF DropTap, LoopFree
<1>15. ASSUME NEW m \in Messages, RecordComment(m) PROVE EditInv'
  BY <1>15 DEF RecordComment, Dispatch, LoopFree, WriteFile
<1>16. ASSUME NEW m \in Messages, NEW a \in Actions, Acknowledge(m, a) PROVE EditInv'
  BY <1>16 DEF Acknowledge, Dispatch, LoopFree, Settle
<1>17. ASSUME NEW m \in Messages, NEW a \in Actions, WriteAck(m, a) PROVE EditInv'
  BY <1>17 DEF WriteAck, Dispatch, LoopFree
<1>18. ASSUME NEW m \in Messages, NEW a \in Actions, WriteFails(m, a) PROVE EditInv'
  BY <1>18, RefusedKeeps, WritesWritten DEF LoopFree
<1>19. ASSUME NEW d \in deciding, Broadcast(d) PROVE EditInv'
  BY <1>19 DEF Broadcast, WriteFile, Settle
<1>20. ASSUME NEW d \in deciding, BroadcastFails(d) PROVE EditInv'
  BY <1>20, UntoldKeeps, WritesWritten
<1>21. ASSUME NEW m \in Messages, RunEdit(m) PROVE EditInv'
  BY <1>21 DEF RunEdit, LoopFree
<1>22. CASE GoDown
  BY <1>22 DEF GoDown, Mishap
<1>23. CASE Boot
  BY <1>23 DEF Boot, Bus
<1>24. ASSUME NEW f \in Files, Recover(f) PROVE EditInv'
  BY <1>24 DEF Recover
<1>25. CASE StartWatcher
  BY <1>25 DEF StartWatcher
<1> QED BY <1>1, <1>2, <1>3, <1>4, <1>5, <1>6, <1>7, <1>8, <1>9, <1>10, <1>11, <1>12,
        <1>13, <1>14, <1>15, <1>16, <1>17, <1>18, <1>19, <1>20, <1>21, <1>22, <1>23,
        <1>24, <1>25
     DEF Next, Scan, ScanWork, SendEnds, Listen, Decide, Transport, Restart, Environment

\* Every step keeps taps and decisions to delivered messages.
LEMMA TapStep == ASSUME TypeOK, EditInv, TapInv, Next PROVE TapInv'
<1> USE DEF TypeOK, EditInv, EditRight, TapInv, Decided, diskVars, scanVars, tableVars,
            chatVars
<1>1. ASSUME NEW m \in Messages, Publish(m) PROVE TapInv'
  BY <1>1, WritesWritten, NamesAssumption DEF Publish
<1>2. ASSUME NEW m \in Messages, Archive(m) PROVE TapInv'
  BY <1>2 DEF Archive
<1>3. CASE ScanStart
  BY <1>3 DEF ScanStart, Bus, LoopFree
<1>4. ASSUME NEW f \in Files, Quarantine(f) PROVE TapInv'
  BY <1>4, WritesWritten, NamesAssumption DEF Quarantine, Bus
<1>5. CASE AlertDone
  BY <1>5 DEF AlertDone, LoopFree
<1>6. ASSUME NEW f \in Files, PassOver(f) PROVE TapInv'
  BY <1>6 DEF PassOver
<1>7. ASSUME NEW m \in Messages, StartSend(m) PROVE TapInv'
  BY <1>7 DEF StartSend
<1>8. ASSUME NEW m \in Messages, Delivered(m) PROVE TapInv'
  BY <1>8 DEF Delivered
<1>9. ASSUME NEW m \in Messages, SendReturns(m) PROVE TapInv'
  BY <1>9 DEF SendReturns, LoopFree
<1>10. ASSUME NEW m \in Messages, SendFails(m) PROVE TapInv'
  BY <1>10 DEF SendFails, LoopFree, Mishap
<1>11. CASE ScanEnd
  BY <1>11 DEF ScanEnd, Mishap
<1>12. CASE ScanAborts
  BY <1>12 DEF ScanAborts, Mishap
<1>13. ASSUME NEW m \in Messages, NEW a \in Actions, Tap(m, a) PROVE TapInv'
  BY <1>13 DEF Tap
<1>14. ASSUME NEW m \in Messages, NEW a \in Actions, DropTap(m, a) PROVE TapInv'
  BY <1>14 DEF DropTap, LoopFree
<1>15. ASSUME NEW m \in Messages, RecordComment(m) PROVE TapInv'
  <2>1. WriteFile([about |-> m, what |-> "reply"])
    BY <1>15 DEF RecordComment
  <2> QED
    BY <1>15, <2>1, WritesWritten, WriteKeeps
       DEF RecordComment, Dispatch, LoopFree, Verdicts, Files
<1>16. ASSUME NEW m \in Messages, NEW a \in Actions, Acknowledge(m, a) PROVE TapInv'
  BY <1>16 DEF Acknowledge, Dispatch, LoopFree, Settle
<1>17. ASSUME NEW m \in Messages, NEW a \in Actions, WriteAck(m, a) PROVE TapInv'
  BY <1>17 DEF WriteAck, Dispatch, LoopFree
<1>18. ASSUME NEW m \in Messages, NEW a \in Actions, WriteFails(m, a) PROVE TapInv'
  <2>1. /\ m \in pending /\ deciding = {} /\ taps' \subseteq taps
        /\ ack' = ack \/ ack' = [ack EXCEPT ![m] = Torn]
        /\ UNCHANGED <<life, saved, watcher, todo, seen, current, pending, handle, deciding,
                       posted, mishaps, halfway>>
    <3> HIDE DEF TypeOK, EditInv, TapInv
    <3> QED BY <1>18, RefusedKeeps DEF LoopFree
  <2>2. \A n \in Messages : where'[n] = where[n]
    <3> HIDE DEF TypeOK, EditInv, TapInv
    <3> QED BY <1>18, RefusedKeeps
  <2>3. \A n \in Messages, v \in Verdicts :
          (where'[[about |-> n, what |-> v]] = "unwritten")
          <=> (where[[about |-> n, what |-> v]] = "unwritten")
    <3> HIDE DEF TypeOK, EditInv, TapInv
    <3> QED BY <1>18, RefusedKeeps, WritesWritten
  <2> QED BY <2>1, <2>3
<1>19. ASSUME NEW d \in deciding, Broadcast(d) PROVE TapInv'
  <2>1. WriteFile(d)
    BY <1>19 DEF Broadcast
  <2> QED
    BY <1>19, <2>1, WritesWritten, WriteKeeps DEF Broadcast, Settle, Verdicts, Files
<1>20. ASSUME NEW d \in deciding, BroadcastFails(d) PROVE TapInv'
  BY <1>20, UntoldKeeps, WritesWritten
<1>21. ASSUME NEW m \in Messages, RunEdit(m) PROVE TapInv'
  BY <1>21 DEF RunEdit, LoopFree
<1>22. CASE GoDown
  BY <1>22 DEF GoDown, Mishap
<1>23. CASE Boot
  BY <1>23 DEF Boot, Bus
<1>24. ASSUME NEW f \in Files, Recover(f) PROVE TapInv'
  BY <1>24 DEF Recover
<1>25. CASE StartWatcher
  BY <1>25 DEF StartWatcher
<1> QED BY <1>1, <1>2, <1>3, <1>4, <1>5, <1>6, <1>7, <1>8, <1>9, <1>10, <1>11, <1>12,
        <1>13, <1>14, <1>15, <1>16, <1>17, <1>18, <1>19, <1>20, <1>21, <1>22, <1>23,
        <1>24, <1>25
     DEF Next, Scan, ScanWork, SendEnds, Listen, Decide, Transport, Restart, Environment

\* Every step of a run without mishap keeps decided messages out of play.
LEMMA FirstRunStep == ASSUME TypeOK, ScanInv, DupInv, TapInv, FirstRun, Next PROVE FirstRun'
<1> USE DEF TypeOK, ScanInv, KnownFiles, WatcherRuns, ScanDisjoint, DupInv, Settled,
            TapInv, FirstRun, diskVars, scanVars, tableVars, chatVars
<1>1. ASSUME NEW m \in Messages, Publish(m) PROVE FirstRun'
  <2>1. \A n \in Messages : Decided(n)' => Decided(n)
    BY <1>1, WritesWritten, NamesAssumption DEF Publish, Bus, Decided
  <2> QED
    BY <1>1, <2>1 DEF Publish
<1>2. ASSUME NEW m \in Messages, Archive(m) PROVE FirstRun'
  <2>1. \A n \in Messages : Decided(n)' => Decided(n)
    BY <1>2, WritesWritten, NamesAssumption DEF Archive, Decided
  <2> QED
    BY <1>2, <2>1 DEF Archive
<1>3. CASE ScanStart
  BY <1>3 DEF ScanStart, Bus, LoopFree, Decided
<1>4. ASSUME NEW f \in Files, Quarantine(f) PROVE FirstRun'
  <2>1. \A n \in Messages : Decided(n)' => Decided(n)
    BY <1>4, WritesWritten, NamesAssumption DEF Quarantine, Bus, Decided
  <2> QED
    BY <1>4, <2>1 DEF Quarantine
<1>5. CASE AlertDone
  BY <1>5 DEF AlertDone, LoopFree, Decided
<1>6. ASSUME NEW f \in Files, PassOver(f) PROVE FirstRun'
  BY <1>6 DEF PassOver, Decided
<1>7. ASSUME NEW m \in Messages, StartSend(m) PROVE FirstRun'
  <2>1. /\ UNCHANGED <<life, where, saved, deciding, posted, mishaps>>
        /\ pending' \subseteq pending \cup {m} /\ m \in todo
    BY <1>7 DEF StartSend
  <2>2. \A n \in Messages : Decided(n)' <=> Decided(n)
    BY <2>1 DEF Decided
  <2>3. mishaps = 0 => ~Decided(m)
    BY <1>7 DEF StartSend
  <2> HIDE DEF DupInv, ScanInv
  <2> QED BY <2>1, <2>2, <2>3
<1>8. ASSUME NEW m \in Messages, Delivered(m) PROVE FirstRun'
  BY <1>8 DEF Delivered, Decided
<1>9. ASSUME NEW m \in Messages, SendReturns(m) PROVE FirstRun'
  BY <1>9 DEF SendReturns, LoopFree, Decided
<1>10. ASSUME NEW m \in Messages, SendFails(m) PROVE FirstRun'
  BY <1>10 DEF SendFails, LoopFree, Mishap, Decided
<1>11. CASE ScanEnd
  <2>1. \A n \in Messages : Decided(n)' = Decided(n)
    BY <1>11 DEF ScanEnd, Decided
  <2>2. life = "up" /\ UNCHANGED <<life, pending, deciding>> /\ (mishaps' = 0 => mishaps = 0)
    BY <1>11 DEF ScanEnd, Mishap
  <2> HIDE DEF TypeOK, ScanInv, KnownFiles, WatcherRuns, ScanDisjoint, DupInv, Settled, TapInv
  <2> QED
    BY <2>1, <2>2 DEF TypeOK
<1>12. CASE ScanAborts
  BY <1>12 DEF ScanAborts, Mishap, Decided
<1>13. ASSUME NEW m \in Messages, NEW a \in Actions, Tap(m, a) PROVE FirstRun'
  BY <1>13 DEF Tap, Decided
<1>14. ASSUME NEW m \in Messages, NEW a \in Actions, DropTap(m, a) PROVE FirstRun'
  BY <1>14 DEF DropTap, LoopFree, Decided
<1>15. ASSUME NEW m \in Messages, RecordComment(m) PROVE FirstRun'
  <2>1. WriteFile([about |-> m, what |-> "reply"])
    BY <1>15 DEF RecordComment
  <2> QED
    BY <1>15, <2>1, WritesWritten, WriteKeeps
       DEF RecordComment, Dispatch, LoopFree, Decided, Files, Verdicts
<1>16. ASSUME NEW m \in Messages, NEW a \in Actions, Acknowledge(m, a) PROVE FirstRun'
  BY <1>16 DEF Acknowledge, Dispatch, LoopFree, Settle, Decided
<1>17. ASSUME NEW m \in Messages, NEW a \in Actions, WriteAck(m, a) PROVE FirstRun'
  BY <1>17 DEF WriteAck, Dispatch, LoopFree, Decided
<1>18. ASSUME NEW m \in Messages, NEW a \in Actions, WriteFails(m, a) PROVE FirstRun'
  <2>1. /\ m \in pending /\ deciding = {} /\ taps' \subseteq taps
        /\ ack' = ack \/ ack' = [ack EXCEPT ![m] = Torn]
        /\ UNCHANGED <<life, saved, watcher, todo, seen, current, pending, handle, deciding,
                       posted, mishaps, halfway>>
    <3> HIDE DEF TypeOK, ScanInv, DupInv, TapInv, FirstRun
    <3> QED BY <1>18, RefusedKeeps DEF LoopFree
  <2>2. \A n \in Messages : where'[n] = where[n]
    <3> HIDE DEF TypeOK, ScanInv, DupInv, TapInv, FirstRun
    <3> QED BY <1>18, RefusedKeeps
  <2>3. \A n \in Messages, v \in Verdicts :
          (where'[[about |-> n, what |-> v]] = "unwritten")
          <=> (where[[about |-> n, what |-> v]] = "unwritten")
    <3> HIDE DEF TypeOK, ScanInv, DupInv, TapInv, FirstRun
    <3> QED BY <1>18, RefusedKeeps, WritesWritten
  <2> QED BY <2>1, <2>3 DEF Decided
<1>19. ASSUME NEW d \in deciding, Broadcast(d) PROVE FirstRun'
  <2>1. WriteFile(d)
    BY <1>19 DEF Broadcast
  <2> QED
    BY <1>19, <2>1, WritesWritten, WriteKeeps
       DEF Broadcast, Settle, Decided, Files, Verdicts
<1>20. ASSUME NEW d \in deciding, BroadcastFails(d) PROVE FirstRun'
  BY <1>20, UntoldKeeps, WritesWritten DEF Decided
<1>21. ASSUME NEW m \in Messages, RunEdit(m) PROVE FirstRun'
  BY <1>21 DEF RunEdit, LoopFree, Decided
<1>22. CASE GoDown
  BY <1>22 DEF GoDown, Mishap, Decided
<1>23. CASE Boot
  BY <1>23 DEF Boot, Bus, Decided
<1>24. ASSUME NEW f \in Files, Recover(f) PROVE FirstRun'
  <2>1. /\ UNCHANGED <<life, where, saved, deciding, mishaps>> /\ life = "starting"
        /\ pending' \subseteq pending \cup {f} /\ f \in todo
    BY <1>24 DEF Recover
  <2>2. \A n \in Messages : Decided(n)' = Decided(n)
    BY <2>1 DEF Decided
  <2>3. ASSUME mishaps = 0, NEW n \in Messages PROVE ~Decided(n)
    <3>1. saved = {} /\ seen = {} /\ current = {}
      BY <2>1, <2>3
    <3>2. posted[n] <= 0
      BY <2>3, <3>1
    <3> QED
      BY <3>2
  <2>4. \A d \in deciding : d.about \in Messages
    OBVIOUS
  <2> HIDE DEF TypeOK, KnownFiles, WatcherRuns, ScanDisjoint, DupInv, Settled, TapInv, Decided
  <2> QED
    BY <2>1, <2>2, <2>3, <2>4
<1>25. CASE StartWatcher
  BY <1>25 DEF StartWatcher, Decided
<1> QED BY <1>1, <1>2, <1>3, <1>4, <1>5, <1>6, <1>7, <1>8, <1>9, <1>10, <1>11, <1>12,
        <1>13, <1>14, <1>15, <1>16, <1>17, <1>18, <1>19, <1>20, <1>21, <1>22, <1>23,
        <1>24, <1>25
     DEF Next, Scan, ScanWork, SendEnds, Listen, Decide, Transport, Restart, Environment

\* Every step of a run without mishap writes a first verdict at most.
LEMMA OneVerdictStep ==
  ASSUME TypeOK, DecideInv, FirstRun, OneVerdict, Next
  PROVE  OneVerdict'
<1> USE DEF TypeOK, DecideInv, FirstRun, OneVerdict, Decided, diskVars, scanVars,
            tableVars, chatVars
<1>1. ASSUME NEW m \in Messages, Publish(m) PROVE OneVerdict'
  BY <1>1, WritesWritten, NamesAssumption DEF Publish
<1>2. ASSUME NEW m \in Messages, Archive(m) PROVE OneVerdict'
  <2>1. UNCHANGED mishaps /\ where' = [where EXCEPT ![m] = "archived"] /\ where[m] = "active"
    BY <1>2 DEF Archive
  <2>2. \A f \in Files : where'[f] = "unwritten" <=> where[f] = "unwritten"
    BY <2>1
  <2> QED
    BY <2>1, <2>2, WritesWritten DEF Files
<1>3. CASE ScanStart
  BY <1>3 DEF ScanStart, Bus, LoopFree
<1>4. ASSUME NEW f \in Files, Quarantine(f) PROVE OneVerdict'
  <2>1. UNCHANGED mishaps /\ where' = [where EXCEPT ![f] = "quarantine"] /\ where[f] = "active"
    BY <1>4 DEF Quarantine, Bus
  <2>2. \A g \in Files : where'[g] = "unwritten" <=> where[g] = "unwritten"
    BY <2>1
  <2> QED
    BY <2>1, <2>2, WritesWritten
<1>5. CASE AlertDone
  BY <1>5 DEF AlertDone, LoopFree
<1>6. ASSUME NEW f \in Files, PassOver(f) PROVE OneVerdict'
  BY <1>6 DEF PassOver
<1>7. ASSUME NEW m \in Messages, StartSend(m) PROVE OneVerdict'
  BY <1>7 DEF StartSend
<1>8. ASSUME NEW m \in Messages, Delivered(m) PROVE OneVerdict'
  BY <1>8 DEF Delivered
<1>9. ASSUME NEW m \in Messages, SendReturns(m) PROVE OneVerdict'
  BY <1>9 DEF SendReturns, LoopFree
<1>10. ASSUME NEW m \in Messages, SendFails(m) PROVE OneVerdict'
  <2>1. UNCHANGED where /\ (mishaps' = mishaps \/ mishaps' = mishaps + 1)
    BY <1>10 DEF SendFails, Mishap
  <2>2. mishaps \in Nat
    OBVIOUS
  <2> HIDE DEF TypeOK, DecideInv, FirstRun
  <2> QED BY <2>1, <2>2
<1>11. CASE ScanEnd
  <2>1. UNCHANGED where /\ (mishaps' = mishaps \/ mishaps' = mishaps + 1)
    BY <1>11 DEF ScanEnd, Mishap
  <2>2. mishaps \in Nat
    OBVIOUS
  <2> HIDE DEF TypeOK, DecideInv, FirstRun
  <2> QED BY <2>1, <2>2
<1>12. CASE ScanAborts
  <2>1. UNCHANGED where /\ (mishaps' = mishaps \/ mishaps' = mishaps + 1)
    BY <1>12 DEF ScanAborts, Mishap
  <2>2. mishaps \in Nat
    OBVIOUS
  <2> HIDE DEF TypeOK, DecideInv, FirstRun
  <2> QED BY <2>1, <2>2
<1>13. ASSUME NEW m \in Messages, NEW a \in Actions, Tap(m, a) PROVE OneVerdict'
  BY <1>13 DEF Tap
<1>14. ASSUME NEW m \in Messages, NEW a \in Actions, DropTap(m, a) PROVE OneVerdict'
  BY <1>14 DEF DropTap, LoopFree
<1>15. ASSUME NEW m0 \in Messages, RecordComment(m0) PROVE OneVerdict'
  <2>1. WriteFile([about |-> m0, what |-> "reply"])
    BY <1>15 DEF RecordComment
  <2>2. \A m \in Messages, v \in Verdicts :
          where'[[about |-> m, what |-> v]] # "unwritten"
          => where[[about |-> m, what |-> v]] # "unwritten" \/ [about |-> m, what |-> v] =
                  [about |-> m0, what |-> "reply"]
    BY <1>15, <2>1, WritesWritten, WriteKeeps
  <2> QED
    BY <1>15, <2>2 DEF RecordComment, Verdicts
<1>16. ASSUME NEW m \in Messages, NEW a \in Actions, Acknowledge(m, a) PROVE OneVerdict'
  BY <1>16 DEF Acknowledge, Dispatch, LoopFree, Settle
<1>17. ASSUME NEW m \in Messages, NEW a \in Actions, WriteAck(m, a) PROVE OneVerdict'
  BY <1>17 DEF WriteAck, Dispatch, LoopFree
<1>18. ASSUME NEW m \in Messages, NEW a \in Actions, WriteFails(m, a) PROVE OneVerdict'
  <2>1. /\ m \in pending /\ deciding = {} /\ taps' \subseteq taps
        /\ ack' = ack \/ ack' = [ack EXCEPT ![m] = Torn]
        /\ UNCHANGED <<life, saved, watcher, todo, seen, current, pending, handle, deciding,
                       posted, mishaps, halfway>>
    <3> HIDE DEF TypeOK, DecideInv, FirstRun, OneVerdict
    <3> QED BY <1>18, RefusedKeeps DEF LoopFree
  <2>2. \A n \in Messages : where'[n] = where[n]
    <3> HIDE DEF TypeOK, DecideInv, FirstRun, OneVerdict
    <3> QED BY <1>18, RefusedKeeps
  <2>3. \A n \in Messages, v \in Verdicts :
          (where'[[about |-> n, what |-> v]] = "unwritten")
          <=> (where[[about |-> n, what |-> v]] = "unwritten")
    <3> HIDE DEF TypeOK, DecideInv, FirstRun, OneVerdict
    <3> QED BY <1>18, RefusedKeeps, WritesWritten
  <2> HIDE DEF FirstRun, DecideInv, TypeOK
  <2> QED BY <2>1, <2>3
<1>19. ASSUME NEW d \in deciding, Broadcast(d) PROVE OneVerdict'
  <2>1. WriteFile(d)
    BY <1>19 DEF Broadcast
  <2>2. \A m \in Messages, v \in Verdicts :
          where'[[about |-> m, what |-> v]] # "unwritten"
          => where[[about |-> m, what |-> v]] # "unwritten" \/ [about |-> m, what |-> v] = d
    BY <1>19, <2>1, WritesWritten, WriteKeeps
  <2>3. mishaps = 0 => ~Decided(d.about)
    BY <1>19
  <2>4. ASSUME NEW m \in Messages, mishaps = 0, m = d.about
        PROVE  \E v \in Verdicts : where'[[about |-> m, what |-> v]] = "unwritten"
    <3>1. PICK v \in Verdicts : v # d.what
      BY DEF Verdicts
    <3> QED
      BY <2>2, <2>3, <2>4, <3>1
  <2>5. ASSUME NEW m \in Messages, mishaps = 0, m # d.about
        PROVE  \E v \in Verdicts : where'[[about |-> m, what |-> v]] = "unwritten"
    <3>1. PICK v \in Verdicts : where[[about |-> m, what |-> v]] = "unwritten"
      BY <2>5
    <3>2. [about |-> m, what |-> v] # d
      BY <2>5
    <3> QED
      BY <2>2, <3>1, <3>2
  <2> QED
    BY <1>19, <2>4, <2>5 DEF Broadcast, Verdicts
<1>20. ASSUME NEW d \in deciding, BroadcastFails(d) PROVE OneVerdict'
  BY <1>20, UntoldKeeps, WritesWritten
<1>21. ASSUME NEW m \in Messages, RunEdit(m) PROVE OneVerdict'
  BY <1>21 DEF RunEdit, LoopFree
<1>22. CASE GoDown
  BY <1>22 DEF GoDown, Mishap
<1>23. CASE Boot
  <2>1. UNCHANGED <<where, mishaps>>
    BY <1>23 DEF Boot
  <2> HIDE DEF TypeOK, DecideInv, FirstRun, Decided
  <2> QED
    BY <2>1
<1>24. ASSUME NEW f \in Files, Recover(f) PROVE OneVerdict'
  <2>1. UNCHANGED <<where, mishaps>>
    BY <1>24 DEF Recover
  <2> HIDE DEF TypeOK, DecideInv, FirstRun, Decided
  <2> QED
    BY <2>1
<1>25. CASE StartWatcher
  <2>1. UNCHANGED <<where, mishaps>>
    BY <1>25 DEF StartWatcher
  <2> HIDE DEF TypeOK, DecideInv, FirstRun, Decided
  <2> QED
    BY <2>1
<1> QED BY <1>1, <1>2, <1>3, <1>4, <1>5, <1>6, <1>7, <1>8, <1>9, <1>10, <1>11, <1>12,
        <1>13, <1>14, <1>15, <1>16, <1>17, <1>18, <1>19, <1>20, <1>21, <1>22, <1>23,
        <1>24, <1>25
     DEF Next, Scan, ScanWork, SendEnds, Listen, Decide, Transport, Restart, Environment

-----------------------------------------------------------------------------
(* The theorems. *)

\* The invariant holds when the daemon has not been started.
LEMMA InitInv == Init => IInv
<1> SUFFICES ASSUME Init PROVE IInv
  OBVIOUS
<1>1. TypeOK
  BY ConstantsAssumption DEF Init, TypeOK, Places, NoAck
<1>2. ScanInv /\ ForgedInert /\ DecideInv
  BY DEF Init, ScanInv, KnownFiles, WatcherRuns, ScanDisjoint, ForgedInert, DecideInv,
         Verdicts, NoAck, Torn
<1>3. BroadcastBacked /\ OneVerdict
  <2>1. \A m \in Messages, v \in Verdicts : where[[about |-> m, what |-> v]] = "unwritten"
    BY <1>1, WritesWritten DEF Init
  <2>2. "approved" \in Verdicts
    BY DEF Verdicts
  <2> QED
    BY <2>1, <2>2 DEF BroadcastBacked, OneVerdict
<1>4. TableInv /\ HalfInv
  BY DEF Init, TableInv, NoDeadCard, Undecided, HalfInv, HalfDecided, Unbroadcast, Verdicts, NoAck, Torn
<1>5. DupInv /\ EditInv
  BY DEF Init, DupInv, Settled, EditInv, EditRight, Fresh
<1>6. TapInv /\ FirstRun
  BY <1>1, WritesWritten DEF Init, TapInv, FirstRun, Decided
<1> QED
  BY <1>1, <1>2, <1>3, <1>4, <1>5, <1>6 DEF IInv

\* A stuttering step changes nothing the invariant speaks of.
LEMMA Stutter == IInv /\ UNCHANGED vars => IInv'
<1> SUFFICES ASSUME IInv, UNCHANGED vars PROVE IInv'
  OBVIOUS
<1> USE DEF IInv, vars, diskVars, scanVars, tableVars, chatVars
<1>1. TypeOK' /\ ForgedInert' /\ DecideInv'
  BY DEF TypeOK, ForgedInert, DecideInv
<1>2. ScanInv'
  BY DEF ScanInv, KnownFiles, WatcherRuns, ScanDisjoint
<1>3. TableInv' /\ HalfInv'
  BY DEF TableInv, NoDeadCard, Undecided, HalfInv, HalfDecided, Unbroadcast, Bus
<1>4. DupInv' /\ EditInv' /\ TapInv'
  BY DEF DupInv, Settled, EditInv, EditRight, Fresh, TapInv, Decided
<1>5. BroadcastBacked' /\ FirstRun' /\ OneVerdict'
  BY DEF BroadcastBacked, FirstRun, Decided, OneVerdict
<1> QED
  BY <1>1, <1>2, <1>3, <1>4, <1>5

\* The invariant holds of every run of the daemon, its crashes and restarts included.
THEOREM Invariance == SafeSpec => []IInv
<1>1. Init => IInv
  BY InitInv
<1>2. IInv /\ [Next]_vars => IInv'
  <2> SUFFICES ASSUME IInv, [Next]_vars PROVE IInv'
    OBVIOUS
  <2>1. CASE Next
    BY <2>1, TypeStep, ScanStep, ForgedStep, DecideStep, BackedStep, TableStep, HalfStep,
       DupStep, EditStep, TapStep, FirstRunStep, OneVerdictStep DEF IInv
  <2>2. CASE UNCHANGED vars
    BY <2>2, Stutter
  <2> QED
    BY <2>1, <2>2
<1> QED
  BY <1>1, <1>2, PTL DEF SafeSpec

\* Every variable of the bus path keeps its type.
THEOREM TypeCorrect == SafeSpec => []TypeOK
<1>1. IInv => TypeOK
  BY DEF IInv
<1> QED
  BY <1>1, Invariance, PTL

\* A tap on a surfaced, undecided message finds it in the table, after any number of
\* restarts, failed saves and failed sends (_recover_undecided_pendings).
THEOREM TapsNeverDead == SafeSpec => []NoDeadCard
<1>1. IInv => NoDeadCard
  BY DEF IInv, TableInv
<1> QED
  BY <1>1, Invariance, PTL

\* A decision acked and not broadcast can be tapped again as long as its daemon lives
\* (_dispatch_bus_decision leaves the entry when record_decision fails).
THEOREM HalfDecisionStaysOpen == SafeSpec => []HalfDecisionRetriable
<1>1. IInv => HalfDecisionRetriable
  BY DEF IInv, HalfInv, HalfDecided, HalfDecisionRetriable
<1> QED
  BY <1>1, Invariance, PTL

\* Whatever interrupts record_decision, no decision file is without an ack.
THEOREM AckBeforeBroadcast == SafeSpec => []BroadcastBacked
<1>1. IInv => BroadcastBacked
  BY DEF IInv
<1> QED
  BY <1>1, Invariance, PTL

\* No message is delivered more often than once and once per mishap
\* (surfaced state, save at the end of a scan, retry of failed sends).
THEOREM DuplicatesPaidFor == SafeSpec => []DuplicatesNeedMishaps
<1>1. IInv => DuplicatesNeedMishaps
  BY DEF IInv, DupInv, DuplicatesNeedMishaps, Settled, TypeOK
<1> QED
  BY <1>1, Invariance, PTL

\* Without a mishap no proposal gets both verdicts, however many taps were on their way
\* (the entry is popped before the next dispatch).
THEOREM OneVerdictEach == SafeSpec => []OneVerdict
<1>1. IInv => OneVerdict
  BY DEF IInv
<1> QED
  BY <1>1, Invariance, PTL

\* No file without provenance is surfaced or becomes decidable, by scan or by recovery.
THEOREM ForgedStayOut == SafeSpec => []ForgedInert
<1>1. IInv => ForgedInert
  BY DEF IInv
<1> QED
  BY <1>1, Invariance, PTL

-----------------------------------------------------------------------------
(* The refinement of DecisionLog. *)

Shown == {m \in Messages : posted[m] > 0}
Rulings == [about : Messages, what : Verdicts]
Told == {d \in Rulings : where[d] # "unwritten"}
Word == [m \in Messages |-> IF ack[m] = Torn THEN NoAck ELSE ack[m]]

\* What DecisionLog speaks of.
LogVars == <<Shown, taps, pending, ack, deciding, Told>>

\* A file that agents or the quarantine move was told before, or is no decision.
LEMMA ToldStays ==
  ASSUME TypeOK, TypeOK',
         \A d \in Rulings : where'[d] = where[d] \/ (where[d] # "unwritten" /\ where'[d] # "unwritten")
  PROVE  Told' = Told
BY DEF Told

\* Decisions are files of the daemon's own.
LEMMA RulingsWritten == Rulings \subseteq Written /\ Rulings \cap Messages = {} /\ Rulings \subseteq Files
BY NamesAssumption DEF Rulings, Written, Files, Verdicts

\* A step that changes nothing of it is a stutter.
LEMMA LogStutter ==
  ASSUME UNCHANGED LogVars
  PROVE  [Log!Next]_(Log!vars)
BY DEF LogVars, Log!vars, Shown, Told, Rulings

LEMMA LogInit == Init => Log!Init
<1> SUFFICES ASSUME Init PROVE Log!Init
  OBVIOUS
<1>1. Told = {}
  BY RulingsWritten DEF Init, Told
<1>2. Shown = {}
  BY DEF Init, Shown
<1> QED
  BY <1>1, <1>2 DEF Init, Log!Init, Told, Shown, Rulings

\* Each step of the bus path is one of DecisionLog's, or a stutter.
LEMMA LogStep == IInv /\ TypeOK' /\ [Next]_vars => [Log!Next]_(Log!vars)
<1> SUFFICES ASSUME IInv, TypeOK', [Next]_vars PROVE [Log!Next]_(Log!vars)
  OBVIOUS
<1> USE DEF diskVars, scanVars, tableVars, chatVars
<1>a. TypeOK /\ DecideInv /\ EditInv
  BY DEF IInv
<1>1. ASSUME NEW m \in Messages, Publish(m) PROVE [Log!Next]_(Log!vars)
  <2>1. Told' = Told
    BY <1>1, <1>a, ToldStays, RulingsWritten DEF Publish, TypeOK, Bus
  <2>2. UNCHANGED <<posted, taps, pending, ack, deciding>>
    BY <1>1 DEF Publish
  <2> QED
    BY <2>1, <2>2, LogStutter DEF LogVars, Shown
<1>2. ASSUME NEW m \in Messages, Archive(m) PROVE [Log!Next]_(Log!vars)
  <2>1. Told' = Told
    BY <1>2, <1>a, ToldStays, RulingsWritten DEF Archive, TypeOK, Bus
  <2>2. UNCHANGED <<posted, taps, pending, ack, deciding>>
    BY <1>2 DEF Archive
  <2> QED
    BY <2>1, <2>2, LogStutter DEF LogVars, Shown
<1>3. CASE ScanStart
  <2>1. UNCHANGED <<posted, taps, pending, ack, deciding, where>>
    BY <1>3 DEF ScanStart
  <2> QED
    BY <2>1, LogStutter DEF LogVars, Shown, Told
<1>4. ASSUME NEW f \in Files, Quarantine(f) PROVE [Log!Next]_(Log!vars)
  <2>1. Told' = Told
    BY <1>4, <1>a, ToldStays, RulingsWritten DEF Quarantine, TypeOK, Bus
  <2>2. UNCHANGED <<posted, taps, pending, ack, deciding>>
    BY <1>4 DEF Quarantine
  <2> QED
    BY <2>1, <2>2, LogStutter DEF LogVars, Shown
<1>5. CASE AlertDone
  <2>1. UNCHANGED <<posted, taps, pending, ack, deciding, where>>
    BY <1>5 DEF AlertDone
  <2> QED
    BY <2>1, LogStutter DEF LogVars, Shown, Told
<1>6. ASSUME NEW f \in Files, PassOver(f) PROVE [Log!Next]_(Log!vars)
  <2>1. UNCHANGED <<posted, taps, pending, ack, deciding, where>>
    BY <1>6 DEF PassOver
  <2> QED
    BY <2>1, LogStutter DEF LogVars, Shown, Told
<1>7. ASSUME NEW m \in Messages, StartSend(m) PROVE [Log!Next]_(Log!vars)
  <2>1. UNCHANGED <<posted, taps, ack, deciding, where>>
    BY <1>7 DEF StartSend
  <2>2. CASE pending' = pending
    BY <2>1, <2>2, LogStutter DEF LogVars, Shown, Told
  <2>3. CASE Kind[m] \in Interactive /\ pending' = pending \cup {m}
    <3>1. Log!Open(m)
      BY <2>1, <2>3 DEF Log!Open, Interactive
    <3> QED
      BY <3>1 DEF Log!Next
  <2> QED
    BY <1>7, <2>2, <2>3 DEF StartSend, KindOf
<1>8. ASSUME NEW m \in Messages, Delivered(m) PROVE [Log!Next]_(Log!vars)
  <2>1. UNCHANGED <<taps, pending, ack, deciding, where>> /\ posted' = [posted EXCEPT ![m] = posted[m] + 1]
    BY <1>8 DEF Delivered
  <2>2. Shown' = Shown \cup {m}
    <3>1. posted \in [Messages -> Nat]
      BY <1>a DEF TypeOK
    <3>2. \A n \in Messages : posted'[n] > 0 <=> posted[n] > 0 \/ n = m
      BY <2>1, <3>1
    <3> QED
      BY <3>2 DEF Shown
  <2>3. Log!Show(m)
    BY <2>1, <2>2 DEF Log!Show, Shown
  <2> QED
    BY <2>3 DEF Log!Next
<1>9. ASSUME NEW m \in Messages, SendReturns(m) PROVE [Log!Next]_(Log!vars)
  <2>1. UNCHANGED <<posted, taps, pending, ack, deciding, where>>
    BY <1>9 DEF SendReturns
  <2> QED
    BY <2>1, LogStutter DEF LogVars, Shown, Told
<1>10. ASSUME NEW m \in Messages, SendFails(m) PROVE [Log!Next]_(Log!vars)
  <2>1. UNCHANGED <<posted, taps, ack, deciding, where>> /\ pending' = pending \ {m} /\ deciding = {}
    BY <1>10 DEF SendFails, LoopFree
  <2>2. Log!Close(m)
    BY <2>1 DEF Log!Close
  <2> QED
    BY <2>2 DEF Log!Next
<1>11. CASE ScanEnd
  <2>1. UNCHANGED <<posted, taps, pending, ack, deciding, where>>
    BY <1>11 DEF ScanEnd
  <2> QED
    BY <2>1, LogStutter DEF LogVars, Shown, Told
<1>12. CASE ScanAborts
  <2>1. UNCHANGED <<posted, taps, pending, ack, deciding, where>>
    BY <1>12 DEF ScanAborts
  <2> QED
    BY <2>1, LogStutter DEF LogVars, Shown, Told
<1>13. ASSUME NEW m \in Messages, NEW a \in Actions, Tap(m, a) PROVE [Log!Next]_(Log!vars)
  <2>1. UNCHANGED <<posted, pending, ack, deciding, where>> /\ taps' = taps \cup {<<m, a>>}
    BY <1>13 DEF Tap
  <2>2. posted[m] > 0
    BY <1>13, <1>a DEF Tap, EditInv, EditRight, TypeOK
  <2>3. Log!Tap(<<m, a>>)
    BY <2>1, <2>2 DEF Log!Tap
  <2> QED
    BY <2>3 DEF Log!Next
<1>14. ASSUME NEW m \in Messages, NEW a \in Actions, DropTap(m, a) PROVE [Log!Next]_(Log!vars)
  <2>1. UNCHANGED <<posted, pending, ack, deciding, where>> /\ taps' = taps \ {<<m, a>>}
    BY <1>14 DEF DropTap
  <2>2. Log!Drop(<<m, a>>)
    BY <2>1 DEF Log!Drop
  <2> QED
    BY <2>2 DEF Log!Next
<1>15. ASSUME NEW m \in Messages, RecordComment(m) PROVE [Log!Next]_(Log!vars)
  <2>1. /\ UNCHANGED <<posted, pending, ack, deciding>>
        /\ <<m, "comment">> \in taps /\ taps' = taps \ {<<m, "comment">>}
        /\ WriteFile([about |-> m, what |-> "reply"])
    BY <1>15 DEF RecordComment, Dispatch
  <2>2. [about |-> m, what |-> "reply"] \in Written \ Rulings
    BY DEF Written, Rulings, Verdicts
  <2>3. Told' = Told
    BY <1>a, <2>1, <2>2, WriteKeeps, RulingsWritten, ToldStays
  <2>4. "comment" \in Actions
    BY <1>a, <2>1 DEF TypeOK
  <2>5. Log!Drop(<<m, "comment">>)
    BY <2>1, <2>3 DEF Log!Drop, Told, Rulings
  <2> QED
    BY <2>4, <2>5 DEF Log!Next
<1>16. ASSUME NEW m \in Messages, NEW a \in Actions, Acknowledge(m, a) PROVE [Log!Next]_(Log!vars)
  <2>1. /\ UNCHANGED <<posted, deciding, where>> /\ a \in Actions \ {"comment"}
        /\ Kind[m] = "note" /\ m \in pending /\ <<m, a>> \in taps
        /\ taps' = taps \ {<<m, a>>} /\ pending' = pending \ {m}
        /\ ack' = [ack EXCEPT ![m] = "acknowledged"]
    BY <1>16 DEF Acknowledge, Dispatch, Settle
  <2>3. Word' = [Word EXCEPT ![m] = "acknowledged"]
    BY <1>a, <2>1 DEF Word, TypeOK, Torn
  <2>2. Log!Acknowledge(m, a)
    BY <2>1, <2>3 DEF Log!Acknowledge, Word
  <2> QED
    BY <2>1, <2>2 DEF Log!Next
<1>17. ASSUME NEW m \in Messages, NEW a \in Actions, WriteAck(m, a) PROVE [Log!Next]_(Log!vars)
  <2>1. /\ UNCHANGED <<posted, pending, where>> /\ a \in Actions \ {"comment"} /\ deciding = {}
        /\ Kind[m] = "proposal" /\ m \in pending /\ <<m, a>> \in taps
        /\ taps' = taps \ {<<m, a>>} /\ ack' = [ack EXCEPT ![m] = ToVerdict[a]]
        /\ deciding' = {[about |-> m, what |-> ToVerdict[a]]}
    BY <1>17 DEF WriteAck, Dispatch, LoopFree
  <2>3. Word' = [Word EXCEPT ![m] = ToVerdict[a]]
    <3>1. ToVerdict[a] # Torn
      BY <2>1, ButtonVerdict DEF Verdicts, Torn
    <3> QED BY <1>a, <2>1, <3>1 DEF Word, TypeOK
  <2>2. Log!Rule(m, a)
    BY <2>1, <2>3 DEF Log!Rule, Word
  <2> QED
    BY <2>1, <2>2 DEF Log!Next
<1>18. ASSUME NEW m \in Messages, NEW a \in Actions, WriteFails(m, a) PROVE [Log!Next]_(Log!vars)
  <2>1. /\ UNCHANGED <<posted, pending, deciding>> /\ taps' = taps \ {<<m, a>>}
        /\ m \in pending /\ <<m, a>> \in taps
        /\ ack' = ack \/ (a # "comment" /\ ack' = [ack EXCEPT ![m] = Torn])
    BY <1>18, <1>a, RefusedKeeps
  <2>2. Told' = Told
    BY <1>18, <1>a, RefusedKeeps, RulingsWritten, ToldStays
  <2>3. CASE ack' = ack
    <3>1. Log!Drop(<<m, a>>)
      BY <2>1, <2>2, <2>3 DEF Log!Drop, Told, Rulings
    <3> QED BY <3>1 DEF Log!Next
  <2>4. CASE a # "comment" /\ ack' = [ack EXCEPT ![m] = Torn]
    <3>1. Word' = [Word EXCEPT ![m] = NoAck]
      BY <1>a, <2>4 DEF Word, TypeOK
    <3>2. Log!LoseWord(m, a)
      BY <2>1, <2>2, <3>1 DEF Log!LoseWord, Told, Rulings, Word
    <3> QED BY <2>4, <3>2 DEF Log!Next
  <2> QED
    BY <2>1, <2>3, <2>4
<1>19. ASSUME NEW d \in deciding, Broadcast(d) PROVE [Log!Next]_(Log!vars)
  <2>1. /\ UNCHANGED <<posted, taps, ack>> /\ deciding' = {} /\ pending' = pending \ {d.about}
        /\ WriteFile(d)
    BY <1>19 DEF Broadcast, Settle
  <2>2. d \in Rulings /\ d.about \in pending /\ ack[d.about] = d.what
    BY <1>a DEF TypeOK, DecideInv, Rulings
  <2>3. Told' = Told \cup {d}
    <3>1. /\ where'[d] = "active"
          /\ \A g \in Rulings \ {d} :
               where'[g] = where[g] \/ (where[g] # "unwritten" /\ where'[g] # "unwritten")
      BY <1>a, <2>1, <2>2, WriteKeeps, RulingsWritten
    <3> QED
      BY <2>2, <3>1 DEF Told
  <2>5. Word[d.about] = d.what
    BY <2>2 DEF Word, Rulings, Verdicts, Torn
  <2>4. Log!Tell(d)
    BY <2>1, <2>2, <2>3, <2>5 DEF Log!Tell, Told, Rulings, Word
  <2> QED
    BY <2>4 DEF Log!Next
<1>20. ASSUME NEW d \in deciding, BroadcastFails(d) PROVE [Log!Next]_(Log!vars)
  <2>1. UNCHANGED <<posted, taps, pending, ack>> /\ deciding' = {}
    BY <1>20, <1>a, UntoldKeeps
  <2>3. Told' = Told
    BY <1>20, <1>a, UntoldKeeps, RulingsWritten, ToldStays
  <2>2. Log!Fail
    BY <2>1, <2>3 DEF Log!Fail, Told, Rulings
  <2> QED
    BY <2>2 DEF Log!Next
<1>21. ASSUME NEW m \in Messages, RunEdit(m) PROVE [Log!Next]_(Log!vars)
  <2>1. UNCHANGED <<posted, taps, pending, ack, deciding, where>>
    BY <1>21 DEF RunEdit
  <2> QED
    BY <2>1, LogStutter DEF LogVars, Shown, Told
<1>22. CASE GoDown
  <2>1. UNCHANGED <<posted, ack, where>> /\ taps' = {} /\ pending' = {} /\ deciding' = {}
    BY <1>22 DEF GoDown
  <2>2. Log!Forget
    BY <2>1 DEF Log!Forget
  <2> QED
    BY <2>2 DEF Log!Next
<1>23. CASE Boot
  <2>1. UNCHANGED <<posted, taps, pending, ack, deciding, where>>
    BY <1>23 DEF Boot
  <2> QED
    BY <2>1, LogStutter DEF LogVars, Shown, Told
<1>24. ASSUME NEW f \in Files, Recover(f) PROVE [Log!Next]_(Log!vars)
  <2>1. UNCHANGED <<posted, taps, ack, deciding, where>>
    BY <1>24 DEF Recover
  <2>2. CASE pending' = pending
    BY <2>1, <2>2, LogStutter DEF LogVars, Shown, Told
  <2>3. CASE KindOf(f) \in Interactive /\ pending' = pending \cup {f}
    <3>1. f \in Messages /\ Kind[f] \in Interactive
      BY <2>3 DEF KindOf, Interactive
    <3>2. Log!Open(f)
      BY <2>1, <2>3, <3>1 DEF Log!Open, Interactive
    <3> QED
      BY <3>1, <3>2 DEF Log!Next
  <2> QED
    BY <1>24, <2>2, <2>3 DEF Recover
<1>25. CASE StartWatcher
  <2>1. UNCHANGED <<posted, taps, pending, ack, deciding, where>>
    BY <1>25 DEF StartWatcher
  <2> QED
    BY <2>1, LogStutter DEF LogVars, Shown, Told
<1>26. CASE UNCHANGED vars
  BY <1>26, LogStutter DEF vars, LogVars, Shown, Told
<1> QED
  BY <1>1, <1>2, <1>3, <1>4, <1>5, <1>6, <1>7, <1>8, <1>9, <1>10, <1>11, <1>12, <1>13,
     <1>14, <1>15, <1>16, <1>17, <1>18, <1>19, <1>20, <1>21, <1>22, <1>23, <1>24, <1>25, <1>26
     DEF Next, Scan, ScanWork, SendEnds, Listen, Decide, Transport, Restart, Environment

\* The bus path implements DecisionLog: only a tap on a shown card decides, a tap
\* decides once, and agents are told the last word, whatever fails or restarts in
\* between (_dispatch_bus_decision, record_decision, _recover_undecided_pendings).
THEOREM ImplementsDecisionLog == SafeSpec => LogSpec
<1>1. Init => Log!Init
  BY LogInit
<1>2. IInv /\ IInv' /\ [Next]_vars => [Log!Next]_(Log!vars)
  BY LogStep DEF IInv
<1> QED
  BY <1>1, <1>2, Invariance, PTL DEF SafeSpec, LogSpec, Log!Spec

\* A decision that agents were told is about a message the human was shown: no
\* restart, failed save or forged file makes a decision out of nothing
\* (_dispatch_bus_decision, record_decision).
THEOREM ToldWereShown == SafeSpec => [](\A d \in Told : d.about \in Shown)
<1>1. IInv => \A d \in Told : d.about \in Shown
  BY DEF IInv, TapInv, Decided, Told, Rulings, Shown
<1> QED
  BY <1>1, Invariance, PTL
=============================================================================
