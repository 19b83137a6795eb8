---------------------------- MODULE PmSyncProofs ----------------------------
(***************************************************************************)
(* Proofs about PmSync: a call that changes an issue is made once unless a   *)
(* crash, a failure or pruning pays for it, the two files that name the     *)
(* issue of a change agree unless the message that made it is to be handled *)
(* again, and the status of an issue is the one its change's last message   *)
(* asks for.                                                                *)
(***************************************************************************)
EXTENDS PmSync, FiniteSetTheorems, TLAPS

-----------------------------------------------------------------------------
(* The inductive invariant. *)

Working == step \in {"create", "map", "yaml", "update", "comment"}

\* What the scan holds: a message is handled, being handled, or yet to come.
ScanInv ==
  /\ step = "idle" => todo = {} /\ seen = {}
  /\ step # "idle" => saved \subseteq seen
  /\ todo \cap (saved \cup seen) = {}
  /\ current # 0 <=> Working
  /\ current \notin todo \cup saved \cup seen

\* The call of a message that is not handled, nor past its call, is still to
\* come: those it made before were paid for.
CallInv ==
  /\ \A m \in Messages \ (saved \cup seen) :
       \/ current = m /\ step \in {"map", "yaml", "comment"}
       \/ calls[m] <= mishaps + pruned[m]
  /\ \A m \in Messages : calls[m] <= 1 + mishaps + pruned[m]

\* Only messages of inbound types are written for webhooks.
EchoInv == notices \subseteq InboundTypes /\ echoes = 0

\* The message that makes an issue is on the bus until its change is in both files.
MakeInv ==
  /\ step \in {"create", "map", "yaml"} =>
       /\ Type[current] = "spec-change-approved" /\ Change[current] \in Changes
       /\ where[current] = "active" \/ Change[current] \in botched
  /\ step = "update" => Type[current] \notin {"spec-change-approved", "question"}
  /\ step = "yaml" => map[Change[current]] = issue
  /\ \A c \in Changes \ HasDir : yaml[c] = 0

\* Where the files differ, the message that made the later issue is still to be handled.
DifferInv ==
  \A c \in Changes \ botched : yaml[c] \notin {0, map[c]} =>
    \/ map[c] = 0
    \/ \E m \in Active \ (saved \cup seen) :
         /\ Change[m] = c /\ Type[m] = "spec-change-approved"
         /\ m = current => step # "comment"

\* Every issue that is known by its id was made, for some change.
IssueInv ==
  /\ \A i \in 1..made : of[i] \in Changes
  /\ \A c \in Changes : map[c] <= made /\ yaml[c] <= made
  /\ step \in {"map", "yaml", "update"} => issue \in 1..made

Done == saved \cup seen
Cared == Changes \ (botched \cup overtaken)

\* Messages of change c that set the status of its issue, and those that make one.
About(c, S) == {m \in S : Change[m] = c /\ Type[m] # "question"}
Approvals(c, S) == {m \in S : Change[m] = c /\ Type[m] = "spec-change-approved"}

\* The status that message m asks for.
Said(m) == IF Type[m] = "spec-change-approved" THEN "new" ELSE StatusOf(Type[m])

\* Messages are on the bus in order, and stay there until they are saved, or
\* their change is in botched.
BusInv ==
  /\ \A m, n \in Messages : where[m] # "absent" /\ n < m => where[n] # "absent"
  /\ \A m \in Done \cup todo : where[m] # "absent"
  /\ current # 0 => where[current] # "absent"
  /\ \A m \in Messages \ saved : where[m] = "archived" => Change[m] \notin Cared

\* m is a later message of n's change.
Later(m, n) == n < m /\ Change[m] = Change[n]

\* A scan handles the messages of a change in order.
OrderInv ==
  \A n \in Messages : Change[n] \in Cared =>
    /\ \A m \in saved : Later(m, n) => n \in saved
    /\ \A m \in Done : Later(m, n) => n \in Done
    /\ \A m \in todo : Later(m, n) => n \in Done \cup todo \cup {current}
    /\ current # 0 /\ Later(current, n) => n \in Done

HasLast(S) == S = {} \/ \E m \in S : \A n \in S : n <= m

\* What was handled was handled one by one, so that any of it has a last message.
LastInv == \A S \in SUBSET Done : HasLast(S)

\* What the files name is an issue of the change, and an approval that was
\* handled has made one.
OwnInv ==
  /\ \A c \in Changes : /\ map[c] # 0 => of[map[c]] = c
                        /\ yaml[c] # 0 => of[yaml[c]] = c
  /\ step \in {"map", "yaml"} => of[issue] = Change[current]
  /\ step = "update" => issue \in Resolve(Change[current])
  /\ \A m \in Messages :
       /\ m \in Done \/ (m = current /\ step \in {"map", "yaml", "comment"})
       /\ Type[m] = "spec-change-approved" /\ Change[m] \in Cared
       => \E i \in 1..made : of[i] = Change[m]

\* The issue a message is at has the status that it asks for.
FreshInv ==
  /\ step \in {"map", "yaml"} => status[issue] = "new"
  /\ step = "comment" /\ Type[current] # "question" =>
       \A c \in Cared, i \in Issues :
         Change[current] = c /\ Resolve(c) = {i} => status[i] = Said(current)

Pending(c) == About(c, Active \ Done) # {}

\* Unless a message of the change is still to be handled, its issue has the
\* status that the last one asks for.
Follows(c) ==
  Pending(c) \/
  \A l \in About(c, Done), i \in Issues :
    (\A n \in About(c, Done) : n <= l) /\ Approvals(c, Done) # {} /\ Resolve(c) = {i}
      => status[i] = Said(l)

FollowInv == \A c \in Cared : Follows(c)

IInv == /\ TypeOK /\ ScanInv /\ CallInv /\ EchoInv /\ MakeInv /\ IssueInv /\ DifferInv
        /\ BusInv /\ OrderInv /\ LastInv /\ OwnInv /\ FreshInv /\ FollowInv

-----------------------------------------------------------------------------
(* Each action preserves it. *)

LEMMA AtWork ==
  ASSUME IInv
  PROVE  /\ Working => /\ current \in Messages /\ Type[current] \in OutboundTypes
                       /\ Change[current] \in Changes \cup {None}
         /\ step \in {"create", "map", "yaml"} => Change[current] \in Changes
         /\ step \in {"map", "yaml", "update"} => issue \in Issues /\ of[issue] \in Changes
<1>1. /\ current \in Messages \cup {0} /\ (Working => current # 0)
      /\ made \in 0..MaxIssues /\ IssueInv /\ MakeInv
  BY DEF IInv, TypeOK, ScanInv
<1> QED
  BY <1>1, PmSyncAssumption DEF IssueInv, MakeInv, Issues

\* What _resolve_issue_id returns is an issue of the tool.
LEMMA ResolvesToIssue ==
  ASSUME IInv, NEW c \in Changes \cup {None}
  PROVE  Resolve(c) \subseteq Issues \cap 1..made
<1>1. /\ made \in 0..MaxIssues /\ IssueInv
      /\ map \in [Changes -> 0..MaxIssues] /\ yaml \in [Changes -> 0..MaxIssues]
  BY DEF IInv, TypeOK
<1> QED
  BY <1>1, PmSyncAssumption DEF IssueInv, Issues, Resolve, Search

LEMMA TypeStep == IInv /\ [Next]_vars => TypeOK'
<1> SUFFICES ASSUME IInv, [Next]_vars PROVE TypeOK'
  OBVIOUS
<1> USE PmSyncAssumption DEF IInv, TypeOK
<1>1. CASE ScanStart
  BY <1>1 DEF ScanStart, Active, busVars, watchVars, fileVars, toolVars, lagVars
<1>2. CASE ScanEnd
  <2>1. mishaps' \in 0..MaxMishaps
    BY <1>2 DEF ScanEnd, Behind, Mishap
  <2>2. saved' \subseteq Messages /\ seen' \subseteq Messages /\ step' = "idle"
    BY <1>2 DEF ScanEnd
  <2> QED
    BY <1>2, <2>1, <2>2 DEF ScanEnd, Behind, fileVars, toolVars, lagVars
<1>3. ASSUME NEW m \in Messages, Pick(m) PROVE TypeOK'
  BY <1>3, ResolvesToIssue DEF Pick, NextFile, Finish, busVars, watchVars, fileVars, toolVars, lagVars
<1>4. ASSUME NEW m \in Messages, SearchFails(m) PROVE TypeOK'
  BY <1>4 DEF SearchFails, NextFile, Mishap, Finish, busVars, watchVars, fileVars, toolVars, lagVars
<1>5. ASSUME NEW type \in OutboundTypes \cup InboundTypes, PickNotice(type) PROVE TypeOK'
  BY <1>5 DEF PickNotice, busVars, watchVars, fileVars, toolVars, lagVars
<1>6. CASE CallRaises
  <2>1. /\ current \in Messages /\ Change[current] \in Changes \cup {None}
        /\ step \in {"create", "map", "yaml"} => Change[current] \in Changes
        /\ step \in {"map", "yaml", "update"} => issue \in Issues /\ of[issue] \in Changes
    BY <1>6, AtWork DEF CallRaises, Working
  <2>2. /\ step' \in {"idle", "pick", "create", "map", "yaml", "update", "comment"}
        /\ current' \in Messages \cup {0}
        /\ seen' \subseteq Messages
    BY <1>6, <2>1 DEF CallRaises, Mishap, Finish
  <2>3. issue' \in 0..MaxIssues /\ made' \in 0..MaxIssues
    BY <1>6, <2>1 DEF CallRaises, Mishap, Finish, toolVars, lagVars
  <2>4. mishaps' \in 0..MaxMishaps /\ botched' \subseteq Changes
    BY <1>6, <2>1 DEF CallRaises, Mishap, Finish
  <2>5. map' \in [Changes -> 0..MaxIssues] /\ yaml' \in [Changes -> 0..MaxIssues]
    BY <1>6, <2>1 DEF CallRaises, Mishap, Finish, fileVars
  <2>6. /\ of' \in [Issues -> Changes \cup {None}]
        /\ status' \in [Issues -> {"new", "in_progress", "done"}]
        /\ calls' \in [Messages -> Nat]
    BY <1>6, <2>1 DEF CallRaises, toolVars, lagVars, StatusOf, Issues
  <2>7. hooks' \subseteq Hooks
    BY <1>6 DEF CallRaises, toolVars, lagVars
  <2> QED
    BY <1>6, <2>2, <2>3, <2>4, <2>5, <2>6, <2>7 DEF CallRaises, busVars, watchVars, fileVars, toolVars, lagVars
<1>7. CASE CreateIssue
  <2>1. /\ current \in Messages /\ Change[current] \in Changes \cup {None}
        /\ step \in {"create", "map", "yaml"} => Change[current] \in Changes
        /\ step \in {"map", "yaml", "update"} => issue \in Issues /\ of[issue] \in Changes
    BY <1>7, AtWork DEF CreateIssue, Working
  <2>2. /\ step' \in {"idle", "pick", "create", "map", "yaml", "update", "comment"}
        /\ current' \in Messages \cup {0}
        /\ seen' \subseteq Messages
    BY <1>7, <2>1 DEF CreateIssue, Mishap, Finish, Continue
  <2>3. issue' \in 0..MaxIssues /\ made' \in 0..MaxIssues
    BY <1>7, <2>1 DEF CreateIssue, Mishap, Finish, Continue, toolVars, lagVars
  <2>4. mishaps' \in 0..MaxMishaps /\ botched' \subseteq Changes
    BY <1>7, <2>1 DEF CreateIssue, Mishap, Finish, Continue
  <2>5. map' \in [Changes -> 0..MaxIssues] /\ yaml' \in [Changes -> 0..MaxIssues]
    BY <1>7, <2>1 DEF CreateIssue, Mishap, Finish, Continue, fileVars
  <2>6. /\ of' \in [Issues -> Changes \cup {None}]
        /\ status' \in [Issues -> {"new", "in_progress", "done"}]
        /\ calls' \in [Messages -> Nat]
    BY <1>7, <2>1 DEF CreateIssue, toolVars, lagVars, StatusOf, Issues
  <2>7. hooks' \subseteq Hooks
    <3>1. made' \in Issues /\ of'[made'] = Change[current] /\ Change[current] \in Changes
      BY <1>7, <2>1, <2>3 DEF CreateIssue, Issues
    <3>2. Hook("create", made', FALSE) \in Hooks
      BY <3>1 DEF Hook, Hooks
    <3> QED
      BY <1>7, <3>2 DEF CreateIssue
  <2> QED
    BY <1>7, <2>2, <2>3, <2>4, <2>5, <2>6, <2>7 DEF CreateIssue, busVars, watchVars, fileVars, toolVars, lagVars
<1>8. CASE SaveIssueId
  <2>1. /\ current \in Messages /\ Change[current] \in Changes \cup {None}
        /\ step \in {"create", "map", "yaml"} => Change[current] \in Changes
        /\ step \in {"map", "yaml", "update"} => issue \in Issues /\ of[issue] \in Changes
    BY <1>8, AtWork DEF SaveIssueId, NoMap, Working
  <2>2. /\ step' \in {"idle", "pick", "create", "map", "yaml", "update", "comment"}
        /\ current' \in Messages \cup {0}
        /\ seen' \subseteq Messages
    BY <1>8, <2>1 DEF SaveIssueId, NoMap, Mishap, Finish, Continue
  <2>3. issue' \in 0..MaxIssues /\ made' \in 0..MaxIssues
    BY <1>8, <2>1 DEF SaveIssueId, NoMap, Mishap, Finish, Continue, toolVars, lagVars
  <2>4. mishaps' \in 0..MaxMishaps /\ botched' \subseteq Changes
    BY <1>8, <2>1 DEF SaveIssueId, NoMap, Mishap, Finish, Continue
  <2>5. map' \in [Changes -> 0..MaxIssues] /\ yaml' \in [Changes -> 0..MaxIssues]
    BY <1>8, <2>1 DEF SaveIssueId, NoMap, Mishap, Finish, Continue, fileVars
  <2>6. /\ of' \in [Issues -> Changes \cup {None}]
        /\ status' \in [Issues -> {"new", "in_progress", "done"}]
        /\ calls' \in [Messages -> Nat]
    BY <1>8, <2>1 DEF SaveIssueId, NoMap, toolVars, lagVars, StatusOf, Issues
  <2>7. hooks' \subseteq Hooks
    BY <1>8 DEF SaveIssueId, NoMap, toolVars, lagVars
  <2> QED
    BY <1>8, <2>2, <2>3, <2>4, <2>5, <2>6, <2>7 DEF SaveIssueId, NoMap, busVars, watchVars, fileVars, toolVars, lagVars
<1>9. CASE WritePmSyncYaml
  <2>1. /\ current \in Messages /\ Change[current] \in Changes \cup {None}
        /\ step \in {"create", "map", "yaml"} => Change[current] \in Changes
        /\ step \in {"map", "yaml", "update"} => issue \in Issues /\ of[issue] \in Changes
    BY <1>9, AtWork DEF WritePmSyncYaml, Working
  <2>2. /\ step' \in {"idle", "pick", "create", "map", "yaml", "update", "comment"}
        /\ current' \in Messages \cup {0}
        /\ seen' \subseteq Messages
    <3>1. AfterSaving
      BY <1>9 DEF WritePmSyncYaml
    <3> QED
      BY <2>1, <3>1 DEF AfterSaving, Finish, Continue
  <2>3. issue' \in 0..MaxIssues /\ made' \in 0..MaxIssues
    BY <1>9, <2>1 DEF WritePmSyncYaml, AfterSaving, Mishap, Finish, Continue, toolVars, lagVars
  <2>4. mishaps' \in 0..MaxMishaps /\ botched' \subseteq Changes
    BY <1>9, <2>1 DEF WritePmSyncYaml, AfterSaving, Mishap, Finish, Continue
  <2>5. map' \in [Changes -> 0..MaxIssues] /\ yaml' \in [Changes -> 0..MaxIssues]
    <3>1. 0 \in 0..MaxIssues
      OBVIOUS
    <3>2. map' = map /\ \E i \in {0, issue} : yaml' \in {yaml, [yaml EXCEPT ![Change[current]] = i]}
      BY <1>9 DEF WritePmSyncYaml
    <3> QED
      BY <3>1, <3>2
  <2>6. /\ of' \in [Issues -> Changes \cup {None}]
        /\ status' \in [Issues -> {"new", "in_progress", "done"}]
        /\ calls' \in [Messages -> Nat]
    BY <1>9, <2>1 DEF WritePmSyncYaml, toolVars, lagVars, StatusOf, Issues
  <2>7. hooks' \subseteq Hooks
    BY <1>9 DEF WritePmSyncYaml, toolVars, lagVars
  <2> QED
    BY <1>9, <2>2, <2>3, <2>4, <2>5, <2>6, <2>7 DEF WritePmSyncYaml, busVars, watchVars, fileVars, toolVars, lagVars
<1>10. CASE UpdateIssue
  <2>1. /\ current \in Messages /\ Change[current] \in Changes \cup {None}
        /\ step \in {"create", "map", "yaml"} => Change[current] \in Changes
        /\ step \in {"map", "yaml", "update"} => issue \in Issues /\ of[issue] \in Changes
    BY <1>10, AtWork DEF UpdateIssue, Working
  <2>2. /\ step' \in {"idle", "pick", "create", "map", "yaml", "update", "comment"}
        /\ current' \in Messages \cup {0}
        /\ seen' \subseteq Messages
    BY <1>10, <2>1 DEF UpdateIssue, AfterSaving, Mishap, Finish, Continue
  <2>3. issue' \in 0..MaxIssues /\ made' \in 0..MaxIssues
    BY <1>10, <2>1 DEF UpdateIssue, AfterSaving, Mishap, Finish, Continue, toolVars, lagVars
  <2>4. mishaps' \in 0..MaxMishaps /\ botched' \subseteq Changes
    BY <1>10, <2>1 DEF UpdateIssue, AfterSaving, Mishap, Finish, Continue
  <2>5. map' \in [Changes -> 0..MaxIssues] /\ yaml' \in [Changes -> 0..MaxIssues]
    BY <1>10, <2>1 DEF UpdateIssue, AfterSaving, Mishap, Finish, Continue, fileVars
  <2>6. /\ of' \in [Issues -> Changes \cup {None}]
        /\ status' \in [Issues -> {"new", "in_progress", "done"}]
        /\ calls' \in [Messages -> Nat]
    BY <1>10, <2>1 DEF UpdateIssue, toolVars, lagVars, StatusOf, Issues
  <2>7. hooks' \subseteq Hooks
    <3>1. of'[issue] \in Changes
      BY <1>10, <2>1 DEF UpdateIssue
    <3>2. Hook("update", issue, StatusOf(Type[current]) = "done") \in Hooks
      BY <3>1 DEF Hook, Hooks
    <3> QED
      BY <1>10, <3>2 DEF UpdateIssue
  <2> QED
    BY <1>10, <2>2, <2>3, <2>4, <2>5, <2>6, <2>7 DEF UpdateIssue, busVars, watchVars, fileVars, toolVars, lagVars
<1>11. CASE AddComment
  <2>1. /\ current \in Messages /\ Change[current] \in Changes \cup {None}
        /\ step \in {"create", "map", "yaml"} => Change[current] \in Changes
        /\ step \in {"map", "yaml", "update"} => issue \in Issues /\ of[issue] \in Changes
    BY <1>11, AtWork DEF AddComment, Working
  <2>2. /\ step' \in {"idle", "pick", "create", "map", "yaml", "update", "comment"}
        /\ current' \in Messages \cup {0}
        /\ seen' \subseteq Messages
    BY <1>11, <2>1 DEF AddComment, Finish
  <2>3. issue' \in 0..MaxIssues /\ made' \in 0..MaxIssues
    BY <1>11, <2>1 DEF AddComment, Finish, toolVars, lagVars
  <2>4. mishaps' \in 0..MaxMishaps /\ botched' \subseteq Changes
    BY <1>11, <2>1 DEF AddComment, Finish
  <2>5. map' \in [Changes -> 0..MaxIssues] /\ yaml' \in [Changes -> 0..MaxIssues]
    BY <1>11, <2>1 DEF AddComment, Finish, fileVars
  <2>6. /\ of' \in [Issues -> Changes \cup {None}]
        /\ status' \in [Issues -> {"new", "in_progress", "done"}]
        /\ calls' \in [Messages -> Nat]
    BY <1>11, <2>1 DEF AddComment, toolVars, lagVars, StatusOf, Issues
  <2>7. hooks' \subseteq Hooks
    BY <1>11 DEF AddComment, toolVars, lagVars
  <2> QED
    BY <1>11, <2>2, <2>3, <2>4, <2>5, <2>6, <2>7 DEF AddComment, busVars, watchVars, fileVars, toolVars, lagVars
<1>12. CASE Restart
  BY <1>12 DEF Restart, NoMap, Mishap, busVars, watchVars, fileVars, toolVars, lagVars
<1>13. ASSUME NEW h \in Hooks, InboundWebhook(h) PROVE TypeOK'
  <2>1. Route(h) \in InboundTypes
    BY DEF Route, InboundTypes
  <2> QED
    BY <1>13, <2>1 DEF InboundWebhook, watchVars, fileVars, toolVars, lagVars
<1>14. ASSUME NEW m \in Messages, Publish(m) PROVE TypeOK'
  BY <1>14 DEF Publish, busVars, watchVars, fileVars, toolVars, lagVars
<1>15. ASSUME NEW m \in Messages, Archive(m) PROVE TypeOK'
  BY <1>15 DEF Archive, busVars, watchVars, fileVars, toolVars, lagVars
<1>16. CASE UNCHANGED vars
  BY <1>16 DEF vars, busVars, watchVars, fileVars, toolVars, lagVars
<1>17. ASSUME NEW m \in Messages, SendFails(m) PROVE TypeOK'
  BY <1>17 DEF SendFails, NextFile, Behind, Mishap, busVars, fileVars, toolVars
<1> QED
  BY <1>1, <1>2, <1>3, <1>4, <1>5, <1>6, <1>7, <1>8, <1>9,
     <1>10, <1>11, <1>12, <1>13, <1>14, <1>15, <1>16, <1>17 DEF Next, Watcher

LEMMA ScanStep == IInv /\ [Next]_vars => ScanInv'
<1> SUFFICES ASSUME IInv, [Next]_vars PROVE ScanInv'
  OBVIOUS
<1> USE PmSyncAssumption DEF IInv, TypeOK, ScanInv, Working
<1>1. CASE ScanStart
  BY <1>1 DEF ScanStart, Active, busVars, watchVars, fileVars, toolVars, lagVars
<1>2. CASE ScanEnd
  BY <1>2 DEF ScanEnd, Behind, Mishap, busVars, watchVars, fileVars, toolVars, lagVars
<1>3. ASSUME NEW m \in Messages, Pick(m) PROVE ScanInv'
  BY <1>3 DEF Pick, NextFile, Finish, busVars, watchVars, fileVars, toolVars, lagVars
<1>4. ASSUME NEW m \in Messages, SearchFails(m) PROVE ScanInv'
  BY <1>4 DEF SearchFails, NextFile, Mishap, Finish, busVars, watchVars, fileVars, toolVars, lagVars
<1>5. ASSUME NEW type \in OutboundTypes \cup InboundTypes, PickNotice(type) PROVE ScanInv'
  BY <1>5 DEF PickNotice, busVars, watchVars, fileVars, toolVars, lagVars
<1>6. CASE CallRaises
  BY <1>6 DEF CallRaises, Mishap, Finish, busVars, watchVars, fileVars, toolVars, lagVars
<1>7. CASE CreateIssue
  <2>1. current \in Messages /\ step \notin {"idle", "pick"} /\ UNCHANGED <<todo, saved>>
    BY <1>7, AtWork DEF CreateIssue, busVars
  <2>2. CASE current' = 0 /\ step' = "pick" /\ seen' = seen \cup {current}
    BY <2>1, <2>2
  <2>3. CASE current' = current /\ step' \in {"map", "yaml", "comment"} /\ seen' = seen
    BY <2>1, <2>3
  <2> QED
    BY <1>7, <2>2, <2>3 DEF CreateIssue, Mishap, Finish, Continue
<1>8. CASE SaveIssueId
  <2>1. current \in Messages /\ step \notin {"idle", "pick"} /\ UNCHANGED <<todo, saved>>
    BY <1>8, AtWork DEF SaveIssueId, NoMap, busVars
  <2>2. CASE current' = 0 /\ step' = "pick" /\ seen' = seen \cup {current}
    BY <2>1, <2>2
  <2>3. CASE current' = current /\ step' \in {"map", "yaml", "comment"} /\ seen' = seen
    BY <2>1, <2>3
  <2> QED
    BY <1>8, <2>2, <2>3 DEF SaveIssueId, NoMap, Mishap, Finish, Continue
<1>9. CASE WritePmSyncYaml
  <2>1. current \in Messages /\ step \notin {"idle", "pick"} /\ UNCHANGED <<todo, saved>>
    BY <1>9, AtWork DEF WritePmSyncYaml, busVars
  <2>2. CASE current' = 0 /\ step' = "pick" /\ seen' = seen \cup {current}
    BY <2>1, <2>2
  <2>3. CASE current' = current /\ step' \in {"map", "yaml", "comment"} /\ seen' = seen
    BY <2>1, <2>3
  <2> QED
    BY <1>9, <2>2, <2>3 DEF WritePmSyncYaml, AfterSaving, Mishap, Finish, Continue
<1>10. CASE UpdateIssue
  <2>1. current \in Messages /\ step \notin {"idle", "pick"} /\ UNCHANGED <<todo, saved>>
    BY <1>10, AtWork DEF UpdateIssue, busVars
  <2>2. CASE current' = 0 /\ step' = "pick" /\ seen' = seen \cup {current}
    BY <2>1, <2>2
  <2>3. CASE current' = current /\ step' \in {"map", "yaml", "comment"} /\ seen' = seen
    BY <2>1, <2>3
  <2> QED
    BY <1>10, <2>2, <2>3 DEF UpdateIssue, AfterSaving, Mishap, Finish, Continue
<1>11. CASE AddComment
  BY <1>11 DEF AddComment, Finish, busVars, watchVars, fileVars, toolVars, lagVars
<1>12. CASE Restart
  BY <1>12 DEF Restart, NoMap, Mishap, busVars, watchVars, fileVars, toolVars, lagVars
<1>13. ASSUME NEW h \in Hooks, InboundWebhook(h) PROVE ScanInv'
  BY <1>13 DEF InboundWebhook, busVars, watchVars, fileVars, toolVars, lagVars
<1>14. ASSUME NEW m \in Messages, Publish(m) PROVE ScanInv'
  BY <1>14 DEF Publish, busVars, watchVars, fileVars, toolVars, lagVars
<1>15. ASSUME NEW m \in Messages, Archive(m) PROVE ScanInv'
  BY <1>15 DEF Archive, busVars, watchVars, fileVars, toolVars, lagVars
<1>16. CASE UNCHANGED vars
  BY <1>16 DEF vars, busVars, watchVars, fileVars, toolVars, lagVars
<1>17. ASSUME NEW m \in Messages, SendFails(m) PROVE ScanInv'
  BY <1>17 DEF SendFails, NextFile, Behind, Mishap, busVars, fileVars, toolVars
<1> QED
  BY <1>1, <1>2, <1>3, <1>4, <1>5, <1>6, <1>7, <1>8, <1>9,
     <1>10, <1>11, <1>12, <1>13, <1>14, <1>15, <1>16, <1>17 DEF Next, Watcher

LEMMA CallStep == IInv /\ [Next]_vars => CallInv'
<1> SUFFICES ASSUME IInv, [Next]_vars PROVE CallInv'
  OBVIOUS
<1> USE PmSyncAssumption DEF IInv, TypeOK, ScanInv, Working, CallInv
<1>1. CASE ScanStart
  BY <1>1 DEF ScanStart, Active, busVars, watchVars, fileVars, toolVars, lagVars
<1>2. CASE ScanEnd
  BY <1>2 DEF ScanEnd, Behind, Mishap, busVars, watchVars, fileVars, toolVars, lagVars
<1>3. ASSUME NEW m \in Messages, Pick(m) PROVE CallInv'
  BY <1>3 DEF Pick, NextFile, Finish, busVars, watchVars, fileVars, toolVars, lagVars
<1>4. ASSUME NEW m \in Messages, SearchFails(m) PROVE CallInv'
  BY <1>4 DEF SearchFails, NextFile, Mishap, Finish, busVars, watchVars, fileVars, toolVars, lagVars
<1>5. ASSUME NEW type \in OutboundTypes \cup InboundTypes, PickNotice(type) PROVE CallInv'
  BY <1>5 DEF PickNotice, busVars, watchVars, fileVars, toolVars, lagVars
<1>6. CASE CallRaises
  BY <1>6 DEF CallRaises, Mishap, Finish, busVars, watchVars, fileVars, toolVars, lagVars
<1>7. CASE CreateIssue
  BY <1>7 DEF CreateIssue, Mishap, Finish, Continue, busVars, watchVars, fileVars, toolVars, lagVars
<1>8. CASE SaveIssueId
  BY <1>8 DEF SaveIssueId, NoMap, Mishap, Finish, Continue, busVars, watchVars, fileVars, toolVars, lagVars
<1>9. CASE WritePmSyncYaml
  BY <1>9 DEF WritePmSyncYaml, AfterSaving, Mishap, Finish, Continue, busVars, watchVars, fileVars, toolVars, lagVars
<1>10. CASE UpdateIssue
  BY <1>10 DEF UpdateIssue, AfterSaving, Mishap, Finish, Continue, busVars, watchVars, fileVars, toolVars, lagVars
<1>11. CASE AddComment
  BY <1>11 DEF AddComment, Finish, busVars, watchVars, fileVars, toolVars, lagVars
<1>12. CASE Restart
  BY <1>12 DEF Restart, NoMap, Mishap, busVars, watchVars, fileVars, toolVars, lagVars
<1>13. ASSUME NEW h \in Hooks, InboundWebhook(h) PROVE CallInv'
  BY <1>13 DEF InboundWebhook, busVars, watchVars, fileVars, toolVars, lagVars
<1>14. ASSUME NEW m \in Messages, Publish(m) PROVE CallInv'
  BY <1>14 DEF Publish, busVars, watchVars, fileVars, toolVars, lagVars
<1>15. ASSUME NEW m \in Messages, Archive(m) PROVE CallInv'
  BY <1>15 DEF Archive, busVars, watchVars, fileVars, toolVars, lagVars
<1>16. CASE UNCHANGED vars
  BY <1>16 DEF vars, busVars, watchVars, fileVars, toolVars, lagVars
<1>17. ASSUME NEW m \in Messages, SendFails(m) PROVE CallInv'
  BY <1>17 DEF SendFails, NextFile, Behind, Mishap, busVars, fileVars, toolVars
<1> QED
  BY <1>1, <1>2, <1>3, <1>4, <1>5, <1>6, <1>7, <1>8, <1>9,
     <1>10, <1>11, <1>12, <1>13, <1>14, <1>15, <1>16, <1>17 DEF Next, Watcher

LEMMA EchoStep == IInv /\ [Next]_vars => EchoInv'
<1> SUFFICES ASSUME IInv, [Next]_vars PROVE EchoInv'
  OBVIOUS
<1> USE PmSyncAssumption DEF IInv, EchoInv, InboundTypes, OutboundTypes, Route
<1>1. CASE ScanStart
  BY <1>1 DEF ScanStart, Active, busVars, watchVars, fileVars, toolVars, lagVars
<1>2. CASE ScanEnd
  BY <1>2 DEF ScanEnd, Behind, Mishap, busVars, watchVars, fileVars, toolVars, lagVars
<1>3. ASSUME NEW m \in Messages, Pick(m) PROVE EchoInv'
  BY <1>3 DEF Pick, NextFile, Finish, busVars, watchVars, fileVars, toolVars, lagVars
<1>4. ASSUME NEW m \in Messages, SearchFails(m) PROVE EchoInv'
  BY <1>4 DEF SearchFails, NextFile, Mishap, Finish, busVars, watchVars, fileVars, toolVars, lagVars
<1>5. ASSUME NEW type \in OutboundTypes \cup InboundTypes, PickNotice(type) PROVE EchoInv'
  BY <1>5 DEF PickNotice, busVars, watchVars, fileVars, toolVars, lagVars
<1>6. CASE CallRaises
  BY <1>6 DEF CallRaises, Mishap, Finish, busVars, watchVars, fileVars, toolVars, lagVars
<1>7. CASE CreateIssue
  BY <1>7 DEF CreateIssue, Mishap, Finish, Continue, busVars, watchVars, fileVars, toolVars, lagVars
<1>8. CASE SaveIssueId
  BY <1>8 DEF SaveIssueId, NoMap, Mishap, Finish, Continue, busVars, watchVars, fileVars, toolVars, lagVars
<1>9. CASE WritePmSyncYaml
  BY <1>9 DEF WritePmSyncYaml, AfterSaving, Mishap, Finish, Continue, busVars, watchVars, fileVars, toolVars, lagVars
<1>10. CASE UpdateIssue
  BY <1>10 DEF UpdateIssue, AfterSaving, Mishap, Finish, Continue, busVars, watchVars, fileVars, toolVars, lagVars
<1>11. CASE AddComment
  BY <1>11 DEF AddComment, Finish, busVars, watchVars, fileVars, toolVars, lagVars
<1>12. CASE Restart
  BY <1>12 DEF Restart, NoMap, Mishap, busVars, watchVars, fileVars, toolVars, lagVars
<1>13. ASSUME NEW h \in Hooks, InboundWebhook(h) PROVE EchoInv'
  BY <1>13 DEF InboundWebhook, busVars, watchVars, fileVars, toolVars, lagVars
<1>14. ASSUME NEW m \in Messages, Publish(m) PROVE EchoInv'
  BY <1>14 DEF Publish, busVars, watchVars, fileVars, toolVars, lagVars
<1>15. ASSUME NEW m \in Messages, Archive(m) PROVE EchoInv'
  BY <1>15 DEF Archive, busVars, watchVars, fileVars, toolVars, lagVars
<1>16. CASE UNCHANGED vars
  BY <1>16 DEF vars, busVars, watchVars, fileVars, toolVars, lagVars
<1>17. ASSUME NEW m \in Messages, SendFails(m) PROVE EchoInv'
  BY <1>17 DEF SendFails, NextFile, Behind, Mishap, busVars, fileVars, toolVars
<1> QED
  BY <1>1, <1>2, <1>3, <1>4, <1>5, <1>6, <1>7, <1>8, <1>9,
     <1>10, <1>11, <1>12, <1>13, <1>14, <1>15, <1>16, <1>17 DEF Next, Watcher

LEMMA MakeStep == IInv /\ [Next]_vars => MakeInv'
<1> SUFFICES ASSUME IInv, [Next]_vars PROVE MakeInv'
  OBVIOUS
<1> USE PmSyncAssumption DEF IInv, TypeOK, ScanInv, Working, MakeInv
<1>1. CASE ScanStart
  BY <1>1 DEF ScanStart, Active, busVars, watchVars, fileVars, toolVars, lagVars
<1>2. CASE ScanEnd
  BY <1>2 DEF ScanEnd, Behind, Mishap, busVars, watchVars, fileVars, toolVars, lagVars
<1>3. ASSUME NEW m \in Messages, Pick(m) PROVE MakeInv'
  BY <1>3 DEF Pick, NextFile, Finish, busVars, watchVars, fileVars, toolVars, lagVars
<1>4. ASSUME NEW m \in Messages, SearchFails(m) PROVE MakeInv'
  BY <1>4 DEF SearchFails, NextFile, Mishap, Finish, busVars, watchVars, fileVars, toolVars, lagVars
<1>5. ASSUME NEW type \in OutboundTypes \cup InboundTypes, PickNotice(type) PROVE MakeInv'
  BY <1>5 DEF PickNotice, busVars, watchVars, fileVars, toolVars, lagVars
<1>6. CASE CallRaises
  BY <1>6 DEF CallRaises, Mishap, Finish, busVars, watchVars, fileVars, toolVars, lagVars
<1>7. CASE CreateIssue
  BY <1>7 DEF CreateIssue, Mishap, Finish, Continue, busVars, watchVars, fileVars, toolVars, lagVars
<1>8. CASE SaveIssueId
  BY <1>8 DEF SaveIssueId, NoMap, Mishap, Finish, Continue, busVars, watchVars, fileVars, toolVars, lagVars
<1>9. CASE WritePmSyncYaml
  BY <1>9 DEF WritePmSyncYaml, AfterSaving, Mishap, Finish, Continue, busVars, watchVars, fileVars, toolVars, lagVars
<1>10. CASE UpdateIssue
  BY <1>10 DEF UpdateIssue, AfterSaving, Mishap, Finish, Continue, busVars, watchVars, fileVars, toolVars, lagVars
<1>11. CASE AddComment
  BY <1>11 DEF AddComment, Finish, busVars, watchVars, fileVars, toolVars, lagVars
<1>12. CASE Restart
  BY <1>12 DEF Restart, NoMap, Mishap, busVars, watchVars, fileVars, toolVars, lagVars
<1>13. ASSUME NEW h \in Hooks, InboundWebhook(h) PROVE MakeInv'
  BY <1>13 DEF InboundWebhook, busVars, watchVars, fileVars, toolVars, lagVars
<1>14. ASSUME NEW m \in Messages, Publish(m) PROVE MakeInv'
  BY <1>14 DEF Publish, busVars, watchVars, fileVars, toolVars, lagVars
<1>15. ASSUME NEW m \in Messages, Archive(m) PROVE MakeInv'
  BY <1>15 DEF Archive, busVars, watchVars, fileVars, toolVars, lagVars
<1>16. CASE UNCHANGED vars
  BY <1>16 DEF vars, busVars, watchVars, fileVars, toolVars, lagVars
<1>17. ASSUME NEW m \in Messages, SendFails(m) PROVE MakeInv'
  BY <1>17 DEF SendFails, NextFile, Behind, Mishap, busVars, fileVars, toolVars
<1> QED
  BY <1>1, <1>2, <1>3, <1>4, <1>5, <1>6, <1>7, <1>8, <1>9,
     <1>10, <1>11, <1>12, <1>13, <1>14, <1>15, <1>16, <1>17 DEF Next, Watcher

LEMMA IssueStep == IInv /\ [Next]_vars => IssueInv'
<1> SUFFICES ASSUME IInv, [Next]_vars PROVE IssueInv'
  OBVIOUS
<1> USE PmSyncAssumption DEF IInv, TypeOK, Issues, IssueInv
<1>1. CASE ScanStart
  BY <1>1 DEF ScanStart, Active, busVars, watchVars, fileVars, toolVars, lagVars
<1>2. CASE ScanEnd
  BY <1>2 DEF ScanEnd, Behind, Mishap, busVars, watchVars, fileVars, toolVars, lagVars
<1>3. ASSUME NEW m \in Messages, Pick(m) PROVE IssueInv'
  BY <1>3, ResolvesToIssue DEF Pick, NextFile, Finish, busVars, watchVars, fileVars, toolVars, lagVars
<1>4. ASSUME NEW m \in Messages, SearchFails(m) PROVE IssueInv'
  BY <1>4 DEF SearchFails, NextFile, Mishap, Finish, busVars, watchVars, fileVars, toolVars, lagVars
<1>5. ASSUME NEW type \in OutboundTypes \cup InboundTypes, PickNotice(type) PROVE IssueInv'
  BY <1>5 DEF PickNotice, busVars, watchVars, fileVars, toolVars, lagVars
<1>6. CASE CallRaises
  BY <1>6 DEF CallRaises, Mishap, Finish, busVars, watchVars, fileVars, toolVars, lagVars
<1>7. CASE CreateIssue
  <2>1. /\ Change[current] \in Changes /\ made \in Nat /\ made' = made + 1
        /\ of'[made'] = Change[current] /\ \A i \in 1..made : of'[i] = of[i]
        /\ UNCHANGED <<map, yaml>>
    <3>1. made \in Nat /\ made' = made + 1 /\ made' \in Issues /\ UNCHANGED <<map, yaml>>
      BY <1>7 DEF CreateIssue, fileVars
    <3>2. Change[current] \in Changes /\ of' = [of EXCEPT ![made'] = Change[current]]
      BY <1>7, AtWork DEF CreateIssue
    <3> QED
      BY <3>1, <3>2
  <2>2. \A c \in Changes : map[c] \in Nat /\ yaml[c] \in Nat /\ map[c] <= made /\ yaml[c] <= made
    OBVIOUS
  <2>3. step' \in {"map", "yaml", "update"} => issue' = made'
    BY <1>7 DEF CreateIssue, Finish, Continue
  <2> HIDE DEF TypeOK, Issues
  <2>4. \A i \in 1..made' : of'[i] \in Changes
    BY <2>1
  <2> QED
    BY <2>1, <2>2, <2>3, <2>4
<1>8. CASE SaveIssueId
  <2>1. Change[current] \in Changes /\ issue \in 1..made
    BY <1>8, AtWork DEF SaveIssueId
  <2>2. ASSUME NEW c \in Changes PROVE map'[c] <= made /\ yaml'[c] <= made
    <3>1. map'[c] \in {0, map[c], issue} /\ yaml'[c] = yaml[c]
      BY <1>8 DEF SaveIssueId, NoMap
    <3> QED
      BY <2>1, <3>1
  <2>3. step' = "yaml" => issue' = issue
    BY <1>8 DEF SaveIssueId, NoMap, Mishap, Finish, Continue
  <2>4. step' \notin {"map", "update"} /\ UNCHANGED <<made, of>>
    BY <1>8 DEF SaveIssueId, NoMap, Mishap, Finish, Continue, toolVars, lagVars
  <2> QED
    BY <2>1, <2>2, <2>3, <2>4
<1>9. CASE WritePmSyncYaml
  <2>1. Change[current] \in Changes /\ issue \in 1..made
    BY <1>9, AtWork DEF WritePmSyncYaml
  <2>2. ASSUME NEW c \in Changes PROVE map'[c] <= made /\ yaml'[c] <= made
    <3>1. map'[c] = map[c] /\ yaml'[c] \in {0, yaml[c], issue}
      BY <1>9 DEF WritePmSyncYaml
    <3> QED
      BY <2>1, <3>1
  <2>3. step' = "yaml" => issue' = issue
    BY <1>9 DEF WritePmSyncYaml, AfterSaving, Mishap, Finish, Continue
  <2>4. step' \notin {"map", "update"} /\ UNCHANGED <<made, of>>
    BY <1>9 DEF WritePmSyncYaml, AfterSaving, Mishap, Finish, Continue, toolVars, lagVars
  <2> QED
    BY <2>1, <2>2, <2>3, <2>4
<1>10. CASE UpdateIssue
  BY <1>10 DEF UpdateIssue, AfterSaving, Mishap, Finish, Continue, busVars, watchVars, fileVars, toolVars, lagVars
<1>11. CASE AddComment
  BY <1>11 DEF AddComment, Finish, busVars, watchVars, fileVars, toolVars, lagVars
<1>12. CASE Restart
  BY <1>12 DEF Restart, NoMap, Mishap, busVars, watchVars, fileVars, toolVars, lagVars
<1>13. ASSUME NEW h \in Hooks, InboundWebhook(h) PROVE IssueInv'
  BY <1>13 DEF InboundWebhook, busVars, watchVars, fileVars, toolVars, lagVars
<1>14. ASSUME NEW m \in Messages, Publish(m) PROVE IssueInv'
  BY <1>14 DEF Publish, busVars, watchVars, fileVars, toolVars, lagVars
<1>15. ASSUME NEW m \in Messages, Archive(m) PROVE IssueInv'
  BY <1>15 DEF Archive, busVars, watchVars, fileVars, toolVars, lagVars
<1>16. CASE UNCHANGED vars
  BY <1>16 DEF vars, busVars, watchVars, fileVars, toolVars, lagVars
<1>17. ASSUME NEW m \in Messages, SendFails(m) PROVE IssueInv'
  BY <1>17 DEF SendFails, NextFile, Behind, Mishap, busVars, fileVars, toolVars
<1> QED
  BY <1>1, <1>2, <1>3, <1>4, <1>5, <1>6, <1>7, <1>8, <1>9,
     <1>10, <1>11, <1>12, <1>13, <1>14, <1>15, <1>16, <1>17 DEF Next, Watcher

LEMMA DifferStep == IInv /\ [Next]_vars => DifferInv'
<1> SUFFICES ASSUME IInv, [Next]_vars PROVE DifferInv'
  OBVIOUS
<1> USE PmSyncAssumption DEF IInv, TypeOK, ScanInv, Working, DifferInv, MakeInv, Active
<1>1. CASE ScanStart
  BY <1>1 DEF ScanStart, Active, busVars, watchVars, fileVars, toolVars, lagVars
<1>2. CASE ScanEnd
  BY <1>2 DEF ScanEnd, Behind, Mishap, busVars, watchVars, fileVars, toolVars, lagVars
<1>3. ASSUME NEW m \in Messages, Pick(m) PROVE DifferInv'
  BY <1>3 DEF Pick, NextFile, Finish, busVars, watchVars, fileVars, toolVars, lagVars
<1>4. ASSUME NEW m \in Messages, SearchFails(m) PROVE DifferInv'
  BY <1>4 DEF SearchFails, NextFile, Mishap, Finish, busVars, watchVars, fileVars, toolVars, lagVars
<1>5. ASSUME NEW type \in OutboundTypes \cup InboundTypes, PickNotice(type) PROVE DifferInv'
  BY <1>5 DEF PickNotice, busVars, watchVars, fileVars, toolVars, lagVars
<1>6. CASE CallRaises
  BY <1>6 DEF CallRaises, Mishap, Finish, busVars, watchVars, fileVars, toolVars, lagVars
<1>7. CASE CreateIssue
  BY <1>7 DEF CreateIssue, Mishap, Finish, Continue, busVars, watchVars, fileVars, toolVars, lagVars
<1>8. CASE SaveIssueId
  BY <1>8 DEF SaveIssueId, NoMap, Mishap, Finish, Continue, busVars, watchVars, fileVars, toolVars, lagVars
<1>9. CASE WritePmSyncYaml
  BY <1>9 DEF WritePmSyncYaml, AfterSaving, Mishap, Finish, Continue, busVars, watchVars, fileVars, toolVars, lagVars
<1>10. CASE UpdateIssue
  BY <1>10 DEF UpdateIssue, AfterSaving, Mishap, Finish, Continue, busVars, watchVars, fileVars, toolVars, lagVars
<1>11. CASE AddComment
  BY <1>11 DEF AddComment, Finish, busVars, watchVars, fileVars, toolVars, lagVars
<1>12. CASE Restart
  BY <1>12 DEF Restart, NoMap, Mishap, busVars, watchVars, fileVars, toolVars, lagVars
<1>13. ASSUME NEW h \in Hooks, InboundWebhook(h) PROVE DifferInv'
  BY <1>13 DEF InboundWebhook, busVars, watchVars, fileVars, toolVars, lagVars
<1>14. ASSUME NEW m \in Messages, Publish(m) PROVE DifferInv'
  BY <1>14 DEF Publish, busVars, watchVars, fileVars, toolVars, lagVars
<1>15. ASSUME NEW m \in Messages, Archive(m) PROVE DifferInv'
  BY <1>15 DEF Archive, busVars, watchVars, fileVars, toolVars, lagVars
<1>16. CASE UNCHANGED vars
  BY <1>16 DEF vars, busVars, watchVars, fileVars, toolVars, lagVars
<1>17. ASSUME NEW m \in Messages, SendFails(m) PROVE DifferInv'
  BY <1>17 DEF SendFails, NextFile, Behind, Mishap, busVars, fileVars, toolVars
<1> QED
  BY <1>1, <1>2, <1>3, <1>4, <1>5, <1>6, <1>7, <1>8, <1>9,
     <1>10, <1>11, <1>12, <1>13, <1>14, <1>15, <1>16, <1>17 DEF Next, Watcher

LEMMA BusStep == IInv /\ [Next]_vars => BusInv'
<1> SUFFICES ASSUME IInv, [Next]_vars PROVE BusInv'
  OBVIOUS
<1> USE PmSyncAssumption DEF IInv, TypeOK, ScanInv, Working, BusInv, Done, Cared, Active
<1>1. CASE ScanStart
  BY <1>1 DEF ScanStart, Active, busVars, watchVars, fileVars, toolVars, lagVars
<1>2. CASE ScanEnd
  BY <1>2 DEF ScanEnd, Behind, Mishap, busVars, watchVars, fileVars, toolVars, lagVars
<1>3. ASSUME NEW m \in Messages, Pick(m) PROVE BusInv'
  BY <1>3 DEF Pick, NextFile, Finish, busVars, watchVars, fileVars, toolVars, lagVars
<1>4. ASSUME NEW m \in Messages, SearchFails(m) PROVE BusInv'
  BY <1>4 DEF SearchFails, NextFile, Mishap, Finish, busVars, watchVars, fileVars, toolVars, lagVars
<1>5. ASSUME NEW type \in OutboundTypes \cup InboundTypes, PickNotice(type) PROVE BusInv'
  BY <1>5 DEF PickNotice, busVars, watchVars, fileVars, toolVars, lagVars
<1>6. CASE CallRaises
  BY <1>6 DEF CallRaises, Mishap, Finish, busVars, watchVars, fileVars, toolVars, lagVars
<1>7. CASE CreateIssue
  BY <1>7 DEF CreateIssue, Mishap, Finish, Continue, busVars, watchVars, fileVars, toolVars, lagVars
<1>8. CASE SaveIssueId
  BY <1>8 DEF SaveIssueId, NoMap, Mishap, Finish, Continue, busVars, watchVars, fileVars, toolVars, lagVars
<1>9. CASE WritePmSyncYaml
  <2>1. botched \subseteq botched' /\ UNCHANGED <<where, saved, todo, overtaken>>
    BY <1>9 DEF WritePmSyncYaml, busVars, lagVars
  <2>2. /\ current # 0 /\ current \in Messages /\ current' \in {0, current}
        /\ seen' \in {seen, seen \cup {current}}
    BY <1>9 DEF WritePmSyncYaml, AfterSaving, Finish, Continue
  <2> QED
    BY <2>1, <2>2
<1>10. CASE UpdateIssue
  BY <1>10 DEF UpdateIssue, AfterSaving, Mishap, Finish, Continue, busVars, watchVars, fileVars, toolVars, lagVars
<1>11. CASE AddComment
  BY <1>11 DEF AddComment, Finish, busVars, watchVars, fileVars, toolVars, lagVars
<1>12. CASE Restart
  BY <1>12 DEF Restart, NoMap, Mishap, busVars, watchVars, fileVars, toolVars, lagVars
<1>13. ASSUME NEW h \in Hooks, InboundWebhook(h) PROVE BusInv'
  BY <1>13 DEF InboundWebhook, busVars, watchVars, fileVars, toolVars, lagVars
<1>14. ASSUME NEW m \in Messages, Publish(m) PROVE BusInv'
  BY <1>14 DEF Publish, busVars, watchVars, fileVars, toolVars, lagVars
<1>15. ASSUME NEW m \in Messages, Archive(m) PROVE BusInv'
  BY <1>15 DEF Archive, busVars, watchVars, fileVars, toolVars, lagVars
<1>16. CASE UNCHANGED vars
  BY <1>16 DEF vars, busVars, watchVars, fileVars, toolVars, lagVars
<1>17. ASSUME NEW m \in Messages, SendFails(m) PROVE BusInv'
  BY <1>17 DEF SendFails, NextFile, Behind, Mishap, busVars, fileVars, toolVars
<1> QED
  BY <1>1, <1>2, <1>3, <1>4, <1>5, <1>6, <1>7, <1>8, <1>9,
     <1>10, <1>11, <1>12, <1>13, <1>14, <1>15, <1>16, <1>17 DEF Next, Watcher

LEMMA OrderStep == IInv /\ [Next]_vars => OrderInv'
<1> SUFFICES ASSUME IInv, [Next]_vars PROVE OrderInv'
  OBVIOUS
<1> USE PmSyncAssumption DEF IInv, TypeOK, ScanInv, Working, BusInv, OrderInv, Later, Done, Cared, Active
<1>1. CASE ScanStart
  BY <1>1 DEF ScanStart, Active, busVars, watchVars, fileVars, toolVars, lagVars
<1>2. CASE ScanEnd
  <2>1. /\ seen' = {} /\ todo = {} /\ todo' = {} /\ current = 0 /\ current' = 0 /\ Done' = saved'
        /\ Done = seen
    BY <1>2 DEF ScanEnd
  <2>2. CASE UNCHANGED <<saved, botched, overtaken>>
    BY <2>1, <2>2
  <2>3. ASSUME NEW old \in SUBSET Messages, saved' = seen \ old, botched' = botched,
               overtaken' = overtaken \cup Behind(old, saved')
        PROVE  OrderInv'
    <3> SUFFICES ASSUME NEW n \in Messages, Change[n] \in Cared', NEW m \in saved', Later(m, n)
                 PROVE  n \in saved'
      BY <2>1
    <3>1. Change[n] \in Cared /\ m \in Done
      BY <2>1, <2>3
    <3>2. n \in Done
      BY <3>1
    <3>3. n \notin old
      BY <2>3 DEF Behind
    <3> QED
      BY <2>1, <2>3, <3>2, <3>3
  <2> QED
    BY <1>2, <2>2, <2>3 DEF ScanEnd, lagVars
<1>3. ASSUME NEW m \in Messages, Pick(m) PROVE OrderInv'
  <2> SUFFICES ASSUME NEW n \in Messages, Change[n] \in Cared
               PROVE  /\ \A k \in saved' : Later(k, n) => n \in saved'
                      /\ \A k \in Done' : Later(k, n) => n \in Done'
                      /\ \A k \in todo' : Later(k, n) => n \in Done' \cup todo' \cup {current'}
                      /\ current' # 0 /\ Later(current', n) => n \in Done'
    BY <1>3 DEF Pick, lagVars
  <2>1. /\ current = 0 /\ m \in todo /\ todo' = todo \ {m} /\ \A k \in todo : m <= k
        /\ UNCHANGED saved
    BY <1>3 DEF Pick, NextFile, busVars
  <2>2. \/ where[m] # "active" /\ current' = 0 /\ seen' = seen
        \/ where[m] = "active" /\ current' = 0 /\ seen' = seen \cup {m}
        \/ where[m] = "active" /\ current' = m /\ seen' = seen
    BY <1>3, <2>1 DEF Pick, Finish
  <2>3. Later(m, n) => n \in Done
    BY <2>1
  <2>4. n = m => where[m] = "active"
    BY <2>1
  <2>5. /\ \A k \in saved : Later(k, n) => n \in saved
        /\ \A k \in Done : Later(k, n) => n \in Done
        /\ \A k \in todo : Later(k, n) => n \in Done \cup todo
    BY <2>1
  <2> HIDE DEF IInv, TypeOK, ScanInv, BusInv, OrderInv, Later
  <2> QED
    BY <2>1, <2>2, <2>3, <2>4, <2>5
<1>4. ASSUME NEW m \in Messages, SearchFails(m) PROVE OrderInv'
  BY <1>4 DEF SearchFails, NextFile, Mishap, Finish, busVars, watchVars, fileVars, toolVars, lagVars
<1>5. ASSUME NEW type \in OutboundTypes \cup InboundTypes, PickNotice(type) PROVE OrderInv'
  BY <1>5 DEF PickNotice, busVars, watchVars, fileVars, toolVars, lagVars
<1>6. CASE CallRaises
  BY <1>6 DEF CallRaises, Mishap, Finish, busVars, watchVars, fileVars, toolVars, lagVars
<1>7. CASE CreateIssue
  BY <1>7 DEF CreateIssue, Mishap, Finish, Continue, busVars, watchVars, fileVars, toolVars, lagVars
<1>8. CASE SaveIssueId
  BY <1>8 DEF SaveIssueId, NoMap, Mishap, Finish, Continue, busVars, watchVars, fileVars, toolVars, lagVars
<1>9. CASE WritePmSyncYaml
  BY <1>9 DEF WritePmSyncYaml, AfterSaving, Mishap, Finish, Continue, busVars, watchVars, fileVars, toolVars, lagVars
<1>10. CASE UpdateIssue
  BY <1>10 DEF UpdateIssue, AfterSaving, Mishap, Finish, Continue, busVars, watchVars, fileVars, toolVars, lagVars
<1>11. CASE AddComment
  BY <1>11 DEF AddComment, Finish, busVars, watchVars, fileVars, toolVars, lagVars
<1>12. CASE Restart
  BY <1>12 DEF Restart, NoMap, Mishap, busVars, watchVars, fileVars, toolVars, lagVars
<1>13. ASSUME NEW h \in Hooks, InboundWebhook(h) PROVE OrderInv'
  BY <1>13 DEF InboundWebhook, busVars, watchVars, fileVars, toolVars, lagVars
<1>14. ASSUME NEW m \in Messages, Publish(m) PROVE OrderInv'
  BY <1>14 DEF Publish, busVars, watchVars, fileVars, toolVars, lagVars
<1>15. ASSUME NEW m \in Messages, Archive(m) PROVE OrderInv'
  BY <1>15 DEF Archive, busVars, watchVars, fileVars, toolVars, lagVars
<1>16. CASE UNCHANGED vars
  BY <1>16 DEF vars, busVars, watchVars, fileVars, toolVars, lagVars
<1>17. ASSUME NEW m \in Messages, SendFails(m) PROVE OrderInv'
  BY <1>17 DEF SendFails, NextFile, Behind, Mishap, busVars, fileVars, toolVars
<1> QED
  BY <1>1, <1>2, <1>3, <1>4, <1>5, <1>6, <1>7, <1>8, <1>9,
     <1>10, <1>11, <1>12, <1>13, <1>14, <1>15, <1>16, <1>17 DEF Next, Watcher

\* The messages handled are some of those before, or one more.
DoneStep == Done' \subseteq Done \/ \E m \in Messages : Done' = Done \cup {m}

LEMMA Handles == IInv /\ [Next]_vars => DoneStep
<1> SUFFICES ASSUME IInv, [Next]_vars PROVE DoneStep
  OBVIOUS
<1> USE PmSyncAssumption DEF IInv, TypeOK, ScanInv, Working, Done, DoneStep
<1>1. CASE ScanStart
  BY <1>1 DEF ScanStart, Active, busVars, watchVars, fileVars, toolVars, lagVars
<1>2. CASE ScanEnd
  BY <1>2 DEF ScanEnd, Behind, Mishap, busVars, watchVars, fileVars, toolVars, lagVars
<1>3. ASSUME NEW m \in Messages, Pick(m) PROVE DoneStep
  BY <1>3 DEF Pick, NextFile, Finish, busVars, watchVars, fileVars, toolVars, lagVars
<1>4. ASSUME NEW m \in Messages, SearchFails(m) PROVE DoneStep
  BY <1>4 DEF SearchFails, NextFile, Mishap, Finish, busVars, watchVars, fileVars, toolVars, lagVars
<1>5. ASSUME NEW type \in OutboundTypes \cup InboundTypes, PickNotice(type) PROVE DoneStep
  BY <1>5 DEF PickNotice, busVars, watchVars, fileVars, toolVars, lagVars
<1>6. CASE CallRaises
  BY <1>6 DEF CallRaises, Mishap, Finish, busVars, watchVars, fileVars, toolVars, lagVars
<1>7. CASE CreateIssue
  BY <1>7 DEF CreateIssue, Mishap, Finish, Continue, busVars, watchVars, fileVars, toolVars, lagVars
<1>8. CASE SaveIssueId
  BY <1>8 DEF SaveIssueId, NoMap, Mishap, Finish, Continue, busVars, watchVars, fileVars, toolVars, lagVars
<1>9. CASE WritePmSyncYaml
  BY <1>9 DEF WritePmSyncYaml, AfterSaving, Mishap, Finish, Continue, busVars, watchVars, fileVars, toolVars, lagVars
<1>10. CASE UpdateIssue
  BY <1>10 DEF UpdateIssue, AfterSaving, Mishap, Finish, Continue, busVars, watchVars, fileVars, toolVars, lagVars
<1>11. CASE AddComment
  BY <1>11 DEF AddComment, Finish, busVars, watchVars, fileVars, toolVars, lagVars
<1>12. CASE Restart
  BY <1>12 DEF Restart, NoMap, Mishap, busVars, watchVars, fileVars, toolVars, lagVars
<1>13. ASSUME NEW h \in Hooks, InboundWebhook(h) PROVE DoneStep
  BY <1>13 DEF InboundWebhook, busVars, watchVars, fileVars, toolVars, lagVars
<1>14. ASSUME NEW m \in Messages, Publish(m) PROVE DoneStep
  BY <1>14 DEF Publish, busVars, watchVars, fileVars, toolVars, lagVars
<1>15. ASSUME NEW m \in Messages, Archive(m) PROVE DoneStep
  BY <1>15 DEF Archive, busVars, watchVars, fileVars, toolVars, lagVars
<1>16. CASE UNCHANGED vars
  BY <1>16 DEF vars, busVars, watchVars, fileVars, toolVars, lagVars
<1>17. ASSUME NEW m \in Messages, SendFails(m) PROVE DoneStep
  BY <1>17 DEF SendFails, NextFile, Behind, Mishap, busVars, fileVars, toolVars
<1> QED
  BY <1>1, <1>2, <1>3, <1>4, <1>5, <1>6, <1>7, <1>8, <1>9,
     <1>10, <1>11, <1>12, <1>13, <1>14, <1>15, <1>16, <1>17 DEF Next, Watcher

LEMMA LastOfOneMore ==
  ASSUME NEW S \in SUBSET Messages, HasLast(S), NEW m \in Messages
  PROVE  HasLast(S \cup {m})
<1>1. CASE S = {}
  BY <1>1, PmSyncAssumption DEF HasLast
<1>2. ASSUME NEW l \in S, \A n \in S : n <= l PROVE HasLast(S \cup {m})
  <2>1. l \in Nat /\ m \in Nat /\ S \subseteq Nat
    BY PmSyncAssumption
  <2>2. CASE m <= l
    BY <1>2, <2>2 DEF HasLast
  <2>3. CASE l <= m
    <3>1. \A n \in S \cup {m} : n <= m
      BY <1>2, <2>1, <2>3
    <3> QED
      BY <3>1 DEF HasLast
  <2> QED
    BY <2>1, <2>2, <2>3
<1> QED
  BY <1>1, <1>2 DEF HasLast

LEMMA LastStep == IInv /\ [Next]_vars => LastInv'
<1> SUFFICES ASSUME IInv, [Next]_vars, NEW S \in SUBSET Done'
             PROVE  HasLast(S)
  BY DEF LastInv
<1>1. Done \subseteq Messages /\ \A T \in SUBSET Done : HasLast(T)
  BY DEF IInv, TypeOK, Done, LastInv
<1>2. CASE Done' \subseteq Done
  BY <1>1, <1>2
<1>3. ASSUME NEW m \in Messages, Done' = Done \cup {m} PROVE HasLast(S)
  <2>1. S \ {m} \in SUBSET Done
    BY <1>3
  <2>2. HasLast(S \ {m}) /\ S \ {m} \in SUBSET Messages
    BY <1>1, <2>1
  <2>3. HasLast((S \ {m}) \cup {m})
    BY <2>2, LastOfOneMore
  <2>4. S = S \ {m} \/ S = (S \ {m}) \cup {m}
    OBVIOUS
  <2> QED
    BY <2>2, <2>3, <2>4
<1> QED
  BY <1>2, <1>3, Handles DEF DoneStep

LEMMA OwnStep == IInv /\ [Next]_vars => OwnInv'
<1> SUFFICES ASSUME IInv, [Next]_vars PROVE OwnInv'
  OBVIOUS
<1> USE PmSyncAssumption DEF IInv, TypeOK, ScanInv, Working, MakeInv, IssueInv, OwnInv, Done, Cared, Resolve, Search, Issues
<1>1. CASE ScanStart
  BY <1>1 DEF ScanStart, Active, busVars, watchVars, fileVars, toolVars, lagVars
<1>2. CASE ScanEnd
  BY <1>2 DEF ScanEnd, Behind, Mishap, busVars, watchVars, fileVars, toolVars, lagVars
<1>3. ASSUME NEW m \in Messages, Pick(m) PROVE OwnInv'
  <2>1. /\ OwnInv /\ step = "pick" /\ UNCHANGED <<map, yaml, made, of, saved, botched, overtaken>>
        /\ \A c : Resolve(c)' = Resolve(c)
    BY <1>3 DEF Pick, fileVars, toolVars, busVars, lagVars
  <2>2. step' \notin {"map", "yaml"} /\ (step' = "comment" => Type[current'] = "question")
    BY <1>3 DEF Pick, Finish
  <2>3. step' = "update" => issue' \in Resolve(Change[current'])
    BY <1>3 DEF Pick, Finish
  <2> HIDE DEF IInv, TypeOK, ScanInv, MakeInv, IssueInv, Resolve, Search, Issues, OwnInv
  <2>4. \/ seen' = seen
        \/ seen' = seen \cup {m} /\ (Type[m] # "spec-change-approved" \/ Change[m] = None)
    BY <1>3 DEF Pick, Finish
  <2>5. current' # 0 => seen' = seen
    BY <1>3 DEF Pick, Finish
  <2> QED
    BY <2>1, <2>2, <2>3, <2>4, PmSyncAssumption DEF OwnInv
<1>4. ASSUME NEW m \in Messages, SearchFails(m) PROVE OwnInv'
  BY <1>4 DEF SearchFails, NextFile, Mishap, Finish, busVars, watchVars, fileVars, toolVars, lagVars
<1>5. ASSUME NEW type \in OutboundTypes \cup InboundTypes, PickNotice(type) PROVE OwnInv'
  BY <1>5 DEF PickNotice, busVars, watchVars, fileVars, toolVars, lagVars
<1>6. CASE CallRaises
  BY <1>6 DEF CallRaises, Mishap, Finish, busVars, watchVars, fileVars, toolVars, lagVars
<1>7. CASE CreateIssue
  <2>1. /\ current \in Messages /\ Change[current] \in Changes /\ made \in Nat
        /\ made' = made + 1 /\ made' \in Issues /\ of'[made'] = Change[current]
        /\ \A i \in 1..made : of'[i] = of[i]
    BY <1>7, AtWork DEF CreateIssue
  <2>2. \A c \in Changes : /\ map'[c] # 0 => of'[map'[c]] = c
                           /\ yaml'[c] # 0 => of'[yaml'[c]] = c
    <3>1. UNCHANGED <<map, yaml>>
      BY <1>7 DEF CreateIssue, fileVars
    <3>2. \A c \in Changes : /\ map[c] # 0 => map[c] \in 1..made /\ of[map[c]] = c
                             /\ yaml[c] # 0 => yaml[c] \in 1..made /\ of[yaml[c]] = c
      <4>1. \A c \in Changes : map[c] \in 0..MaxIssues /\ yaml[c] \in 0..MaxIssues
        OBVIOUS
      <4>2. \A c \in Changes : map[c] <= made /\ yaml[c] <= made
        OBVIOUS
      <4>3. \A c \in Changes : /\ map[c] # 0 => of[map[c]] = c
                               /\ yaml[c] # 0 => of[yaml[c]] = c
        OBVIOUS
      <4> HIDE DEF IInv, TypeOK, ScanInv, MakeInv, IssueInv, OwnInv, Resolve, Search, Issues
      <4> QED
        BY <2>1, <4>1, <4>2, <4>3
    <3> QED
      BY <2>1, <3>1, <3>2
  <2>3. \/ step' = "map" /\ issue' = made' /\ current' = current /\ UNCHANGED <<saved, seen, botched, overtaken>>
        \/ /\ step' = "pick" /\ seen' = seen \cup {current} /\ UNCHANGED <<saved, overtaken>>
           /\ botched' = botched \cup {Change[current]}
    BY <1>7 DEF CreateIssue, Mishap, Finish, Continue, busVars, lagVars
  <2>4. ASSUME NEW m \in Messages, Type[m] = "spec-change-approved", Change[m] \in Cared',
               m \in Done' \/ (m = current' /\ step' \in {"map", "yaml", "comment"})
        PROVE  \E i \in 1..made' : of'[i] = Change[m]
    <3>1. CASE m = current
      BY <2>1, <3>1
    <3>2. CASE m # current
      <4>1. m \in Done /\ Change[m] \in Cared
        BY <2>3, <2>4, <3>2
      <4>2. PICK i \in 1..made : of[i] = Change[m]
        BY <2>4, <4>1
      <4>3. i \in 1..made'
        BY <2>1
      <4> QED
        BY <2>1, <4>2, <4>3
    <3> QED
      BY <3>1, <3>2
  <2> QED
    BY <2>1, <2>2, <2>3, <2>4
<1>8. CASE SaveIssueId
  <2>1. /\ current \in Messages /\ Change[current] \in Changes /\ of[issue] = Change[current]
        /\ step = "map" /\ UNCHANGED <<yaml, made, of, saved, overtaken>> /\ botched \subseteq botched'
    BY <1>8, AtWork DEF SaveIssueId, NoMap, busVars, toolVars, lagVars
  <2>2. \A c \in Changes : map'[c] \in {0, map[c]} \/ (map'[c] = issue /\ c = Change[current])
    BY <1>8 DEF SaveIssueId, NoMap
  <2>3. \/ step' = "yaml" /\ current' = current /\ issue' = issue /\ seen' = seen
        \/ step' = "pick" /\ current' = 0 /\ seen' = seen \cup {current}
    BY <1>8 DEF SaveIssueId, NoMap, Finish, Continue
  <2>4. ASSUME NEW m \in Messages, Type[m] = "spec-change-approved", Change[m] \in Cared',
               m \in Done' \/ (m = current' /\ step' \in {"map", "yaml", "comment"})
        PROVE  \E i \in 1..made' : of'[i] = Change[m]
    <3>1. (m \in Done \/ m = current) /\ Change[m] \in Cared
      BY <2>1, <2>3, <2>4
    <3> QED
      BY <2>1, <2>4, <3>1
  <2>0. OwnInv
    OBVIOUS
  <2> HIDE DEF IInv, TypeOK, ScanInv, MakeInv, IssueInv, Resolve, Search, Issues
  <2> QED
    BY <2>0, <2>1, <2>2, <2>3, <2>4
<1>9. CASE WritePmSyncYaml
  <2>0. OwnInv
    OBVIOUS
  <2>1. /\ current \in Messages /\ Change[current] \in Changes /\ of[issue] = Change[current]
        /\ step = "yaml" /\ UNCHANGED <<map, made, of, saved, overtaken>> /\ botched \subseteq botched'
    BY <1>9, AtWork DEF WritePmSyncYaml, busVars, toolVars, lagVars
  <2>2. \A c \in Changes : yaml'[c] \in {0, yaml[c]} \/ (yaml'[c] = issue /\ c = Change[current])
    BY <1>9 DEF WritePmSyncYaml
  <2>3. \/ step' = "comment" /\ current' = current /\ seen' = seen
        \/ step' = "pick" /\ current' = 0 /\ seen' = seen \cup {current}
    BY <1>9 DEF WritePmSyncYaml, AfterSaving, Finish, Continue
  <2>4. ASSUME NEW m \in Messages, Type[m] = "spec-change-approved", Change[m] \in Cared',
               m \in Done' \/ (m = current' /\ step' \in {"map", "yaml", "comment"})
        PROVE  \E i \in 1..made' : of'[i] = Change[m]
    <3>1. (m \in Done \/ m = current) /\ Change[m] \in Cared
      BY <2>1, <2>3, <2>4
    <3> QED
      BY <2>1, <2>4, <3>1
  <2> HIDE DEF IInv, TypeOK, ScanInv, MakeInv, IssueInv, Resolve, Search
  <2> QED
    BY <2>0, <2>1, <2>2, <2>3, <2>4
<1>10. CASE UpdateIssue
  BY <1>10 DEF UpdateIssue, AfterSaving, Mishap, Finish, Continue, busVars, watchVars, fileVars, toolVars, lagVars
<1>11. CASE AddComment
  BY <1>11 DEF AddComment, Finish, busVars, watchVars, fileVars, toolVars, lagVars
<1>12. CASE Restart
  <2>1. /\ step' = "idle" /\ seen' = {} /\ current' = 0 /\ UNCHANGED <<saved, made, of, botched, overtaken>>
    BY <1>12 DEF Restart, NoMap, busVars, toolVars, lagVars
  <2>2. \A c \in Changes : map'[c] \in {0, map[c]} /\ yaml'[c] \in {0, yaml[c]}
    BY <1>12 DEF Restart, NoMap, fileVars
  <2> QED
    BY <2>1, <2>2
<1>13. ASSUME NEW h \in Hooks, InboundWebhook(h) PROVE OwnInv'
  BY <1>13 DEF InboundWebhook, busVars, watchVars, fileVars, toolVars, lagVars
<1>14. ASSUME NEW m \in Messages, Publish(m) PROVE OwnInv'
  BY <1>14 DEF Publish, busVars, watchVars, fileVars, toolVars, lagVars
<1>15. ASSUME NEW m \in Messages, Archive(m) PROVE OwnInv'
  BY <1>15 DEF Archive, busVars, watchVars, fileVars, toolVars, lagVars
<1>16. CASE UNCHANGED vars
  BY <1>16 DEF vars, busVars, watchVars, fileVars, toolVars, lagVars
<1>17. ASSUME NEW m \in Messages, SendFails(m) PROVE OwnInv'
  BY <1>17 DEF SendFails, NextFile, Behind, Mishap, busVars, fileVars, toolVars
<1> QED
  BY <1>1, <1>2, <1>3, <1>4, <1>5, <1>6, <1>7, <1>8, <1>9,
     <1>10, <1>11, <1>12, <1>13, <1>14, <1>15, <1>16, <1>17 DEF Next, Watcher

\* Nothing an issue resolves by has changed.
ResolveKept == UNCHANGED <<map, yaml, made, of>>

LEMMA ResolvesAlike ==
  ASSUME NEW c, ResolveKept
  PROVE  Resolve(c)' = Resolve(c)
  BY DEF ResolveKept, Resolve, Search

LEMMA FreshKept ==
  ASSUME FreshInv, UNCHANGED <<step, current, issue, status>>, ResolveKept,
         botched \subseteq botched', overtaken \subseteq overtaken'
  PROVE  FreshInv'
<1>1. step' \in {"map", "yaml"} => status'[issue'] = "new"
  BY DEF FreshInv
<1>2. ASSUME step' = "comment", Type[current'] # "question", NEW c \in Cared', NEW i \in Issues,
             Change[current'] = c, Resolve(c)' = {i}
      PROVE  status'[i] = Said(current')
  <2>1. step = "comment" /\ Type[current] # "question" /\ c \in Cared /\ Change[current] = c
    BY <1>2 DEF Cared
  <2>2. Resolve(c) = {i}
    BY <1>2, ResolvesAlike
  <2> QED
    BY <2>1, <2>2 DEF FreshInv
<1> QED
  BY <1>1, <1>2 DEF FreshInv

LEMMA FreshStep == IInv /\ [Next]_vars => FreshInv'
<1> SUFFICES ASSUME IInv, [Next]_vars PROVE FreshInv'
  OBVIOUS
<1> USE PmSyncAssumption DEF IInv, TypeOK, ScanInv, Working, MakeInv, IssueInv, OwnInv, FreshInv, Cared, Resolve, Search, Issues, Said
<1>1. CASE ScanStart
  BY <1>1 DEF ScanStart, Active, busVars, watchVars, fileVars, toolVars, lagVars
<1>2. CASE ScanEnd
  BY <1>2 DEF ScanEnd, Behind, Mishap, busVars, watchVars, fileVars, toolVars, lagVars
<1>3. ASSUME NEW m \in Messages, Pick(m) PROVE FreshInv'
  BY <1>3 DEF Pick, NextFile, Finish, busVars, watchVars, fileVars, toolVars, lagVars
<1>4. ASSUME NEW m \in Messages, SearchFails(m) PROVE FreshInv'
  BY <1>4 DEF SearchFails, NextFile, Mishap, Finish, busVars, watchVars, fileVars, toolVars, lagVars
<1>5. ASSUME NEW type \in OutboundTypes \cup InboundTypes, PickNotice(type) PROVE FreshInv'
  BY <1>5 DEF PickNotice, busVars, watchVars, fileVars, toolVars, lagVars
<1>6. CASE CallRaises
  BY <1>6 DEF CallRaises, Mishap, Finish, busVars, watchVars, fileVars, toolVars, lagVars
<1>7. CASE CreateIssue
  BY <1>7 DEF CreateIssue, Mishap, Finish, Continue, busVars, watchVars, fileVars, toolVars, lagVars
<1>8. CASE SaveIssueId
  BY <1>8 DEF SaveIssueId, NoMap, Mishap, Finish, Continue, busVars, watchVars, fileVars, toolVars, lagVars
<1>9. CASE WritePmSyncYaml
  <2>1. /\ current \in Messages /\ Change[current] \in Changes /\ issue \in 1..made
        /\ Type[current] = "spec-change-approved" /\ status[issue] = "new"
        /\ map[Change[current]] = issue /\ UNCHANGED <<map, made, of, status>>
    BY <1>9, AtWork DEF WritePmSyncYaml, toolVars, lagVars
  <2>2. step' \in {"comment", "pick"} /\ (step' = "comment" => current' = current)
    BY <1>9 DEF WritePmSyncYaml, AfterSaving, Finish, Continue
  <2>3. Change[current] \in Cared' => yaml'[Change[current]] \in {0, issue}
    BY <1>9, <2>1 DEF WritePmSyncYaml
  <2>4. ASSUME NEW c \in Cared', NEW i \in Issues,
               step' = "comment", Change[current'] = c, Resolve(c)' = {i}
        PROVE  status'[i] = Said(current')
    <3>1. current' = current
      BY <2>2, <2>4
    <3>2. Resolve(c)' = {issue}
      <4>1. c = Change[current] /\ c \in Changes /\ c # None /\ issue # 0
        BY <2>1, <2>4, <3>1
      <4>2. yaml'[c] \in {0, issue} /\ map'[c] = issue
        BY <2>1, <2>3, <2>4, <4>1
      <4> QED
        BY ONLY <4>1, <4>2 DEF Resolve
    <3>3. i = issue
      BY <2>4, <3>2
    <3> QED
      BY <2>1, <3>1, <3>3
  <2> HIDE DEF Resolve, Search
  <2> QED
    BY <2>2, <2>4
<1>10. CASE UpdateIssue
  <2>1. /\ current \in Messages /\ Change[current] \in Changes \cup {None}
        /\ issue \in Issues /\ issue \in Resolve(Change[current])
        /\ Type[current] # "spec-change-approved" /\ UNCHANGED <<map, yaml, made, of>>
    BY <1>10, AtWork DEF UpdateIssue, fileVars
  <2>2. step' \in {"comment", "pick"} /\ (step' = "comment" => current' = current)
    BY <1>10 DEF UpdateIssue, AfterSaving, Finish, Continue
  <2>3. \A c : Resolve(c)' = Resolve(c)
    BY <2>1
  <2>4. status'[issue] = Said(current)
    BY <1>10, <2>1 DEF UpdateIssue
  <2>5. ASSUME Type[current'] # "question", NEW c \in Cared', NEW i \in Issues,
               step' = "comment", Change[current'] = c, Resolve(c)' = {i}
        PROVE  status'[i] = Said(current')
    <3>1. current' = current
      BY <2>2, <2>5
    <3>2. i = issue
      BY <2>1, <2>3, <2>5, <3>1
    <3> QED
      BY <2>4, <3>1, <3>2
  <2> HIDE DEF Resolve, Search
  <2> QED
    BY <2>2, <2>5
<1>11. CASE AddComment
  BY <1>11 DEF AddComment, Finish, busVars, watchVars, fileVars, toolVars, lagVars
<1>12. CASE Restart
  BY <1>12 DEF Restart, NoMap, Mishap, busVars, watchVars, fileVars, toolVars, lagVars
<1>13. ASSUME NEW h \in Hooks, InboundWebhook(h) PROVE FreshInv'
  BY <1>13, FreshKept DEF ResolveKept, InboundWebhook, watchVars, fileVars, toolVars, lagVars
<1>14. ASSUME NEW m \in Messages, Publish(m) PROVE FreshInv'
  BY <1>14, FreshKept DEF ResolveKept, Publish, watchVars, fileVars, toolVars, lagVars
<1>15. ASSUME NEW m \in Messages, Archive(m) PROVE FreshInv'
  BY <1>15, FreshKept DEF ResolveKept, Archive, watchVars, fileVars, toolVars, lagVars
<1>16. CASE UNCHANGED vars
  BY <1>16, FreshKept DEF ResolveKept, vars, watchVars, fileVars, toolVars, lagVars
<1>17. ASSUME NEW m \in Messages, SendFails(m) PROVE FreshInv'
  BY <1>17, FreshKept DEF ResolveKept, SendFails, fileVars, toolVars
<1> QED
  BY <1>1, <1>2, <1>3, <1>4, <1>5, <1>6, <1>7, <1>8, <1>9,
     <1>10, <1>11, <1>12, <1>13, <1>14, <1>15, <1>16, <1>17 DEF Next, Watcher

\* An approval that was handled has made the issue its change resolves to.
LEMMA OwnIssue ==
  ASSUME IInv, NEW c \in Cared, Approvals(c, Done) # {}
  PROVE  /\ Resolve(c) # {}
         /\ \A i : Resolve(c) = {i} => i \in 1..made /\ of[i] = c
<1>1. PICK j \in 1..made : of[j] = c
  <2>1. PICK m \in Done : Change[m] = c /\ Type[m] = "spec-change-approved"
    BY DEF Approvals
  <2>2. m \in Messages
    BY DEF IInv, TypeOK, Done
  <2> QED
    BY <2>1, <2>2 DEF IInv, OwnInv
<1>2. j \in Search(c)
  BY <1>1, PmSyncAssumption DEF Search, Cared
<1>3. /\ map[c] # 0 => map[c] \in 1..made /\ of[map[c]] = c
      /\ yaml[c] # 0 => yaml[c] \in 1..made /\ of[yaml[c]] = c
  BY DEF IInv, TypeOK, OwnInv, IssueInv, Cared
<1> QED
  BY <1>1, <1>2, <1>3 DEF Resolve

\* What c resolves to, and its status, as far as they matter.
StatusKept(c) ==
  \A i \in Issues : Approvals(c, Done) # {} /\ Resolve(c)' = {i} =>
    Resolve(c) = {i} /\ status'[i] = status[i]

LEMMA FollowKept ==
  ASSUME IInv, NEW c \in Cared, StatusKept(c), Pending(c) => Pending(c)',
         About(c, Done') = About(c, Done), Approvals(c, Done') = Approvals(c, Done)
  PROVE  Follows(c)'
<1>1. Follows(c)
  BY DEF IInv, FollowInv
<1> QED
  BY <1>1 DEF Follows, StatusKept

\* When the map is lost, an issue is still found by its title.
LEMMA MapLost ==
  ASSUME IInv, NEW c \in Cared, UNCHANGED <<yaml, made, of, status>>, map'[c] \in {0, map[c]}
  PROVE  StatusKept(c)
<1>1. map[c] # 0 => map[c] \in 1..made /\ of[map[c]] = c
  BY DEF IInv, TypeOK, IssueInv, OwnInv, Cared
<1>2. map[c] # 0 => map[c] \in Search(c)
  BY <1>1, PmSyncAssumption DEF Search, Cared
<1> QED
  BY <1>2 DEF StatusKept, Resolve, Search

\* What is forgotten, by a lost scan or by pruning, is on the bus, to be handled again.
LEMMA FollowBack ==
  ASSUME IInv, NEW c \in Cared, StatusKept(c), UNCHANGED where, Done' \subseteq Done,
         \A m \in Done \ Done' : where[m] = "active" \/ Change[m] \notin Cared
  PROVE  Follows(c)'
<1>1. Done \subseteq Messages /\ Active' = Active
  BY DEF IInv, TypeOK, Done, Active
<1>2. CASE About(c, Done) = About(c, Done')
  <2>1. Approvals(c, Done) = Approvals(c, Done')
    BY <1>1, <1>2 DEF About, Approvals
  <2>2. Pending(c) => Pending(c)'
    BY <1>1 DEF Pending, About
  <2> QED
    BY <1>2, <2>1, <2>2, FollowKept
<1>3. ASSUME NEW m \in Done \ Done', Change[m] = c, Type[m] # "question" PROVE Follows(c)'
  BY <1>1, <1>3 DEF Follows, Pending, About, Active
<1> QED
  BY <1>1, <1>2, <1>3 DEF About

\* What is not saved is on the bus.
LEMMA Unsaved ==
  ASSUME IInv
  PROVE  \A m \in Done \ saved : where[m] = "active" \/ Change[m] \notin Cared
  BY DEF IInv, TypeOK, BusInv, Done

\* A message that is handled is the last one of its change by then.
LEMMA FollowDone ==
  ASSUME IInv, NEW c \in Cared, NEW m \in Messages \ Done, Done' = Done \cup {m}, UNCHANGED where,
         \A n \in Done : Later(n, m) => Change[m] \notin Cared,
         Change[m] # c \/ Type[m] = "question" => StatusKept(c),
         Change[m] = c /\ Type[m] # "question" =>
           \A i \in Issues : Approvals(c, Done \cup {m}) # {} /\ Resolve(c)' = {i} => status'[i] = Said(m)
  PROVE  Follows(c)'
<1>1. Done \subseteq Messages /\ Active' = Active
  BY DEF IInv, TypeOK, Done, Active
<1>2. CASE Change[m] # c \/ Type[m] = "question"
  <2>1. About(c, Done') = About(c, Done) /\ Approvals(c, Done') = Approvals(c, Done)
    BY <1>2, PmSyncAssumption DEF About, Approvals
  <2>2. Pending(c) => Pending(c)'
    BY <1>1, <1>2 DEF Pending, About
  <2> QED
    BY <1>2, <2>1, <2>2, FollowKept
<1>3. CASE Change[m] = c /\ Type[m] # "question"
  <2>1. \A l \in About(c, Done') : (\A n \in About(c, Done') : n <= l) => l = m
    <3> SUFFICES ASSUME NEW l \in About(c, Done'), \A n \in About(c, Done') : n <= l PROVE l = m
      OBVIOUS
    <3>1. m \in About(c, Done') /\ l \in Done \cup {m}
      BY <1>3 DEF About
    <3>2. m <= l /\ l \in Nat /\ m \in Nat
      BY <1>1, <3>1, PmSyncAssumption
    <3>3. l \in Done => ~(m < l)
      BY <1>3 DEF About, Later
    <3> QED
      BY <3>1, <3>2, <3>3
  <2> QED
    BY <1>3, <2>1 DEF Follows
<1> QED
  BY <1>2, <1>3

\* While a message is being handled, its change waits for it.
LEMMA FollowCurrent ==
  ASSUME IInv, Working, Type[current] # "question", UNCHANGED <<Done, where>>,
         NEW c \in Cared, Change[current] = c
  PROVE  Follows(c)'
<1>1. current \in Messages /\ current \notin Done /\ current # 0
  BY AtWork DEF IInv, ScanInv, Done
<1>2. where[current] = "active"
  BY <1>1 DEF IInv, TypeOK, BusInv, Done
<1> QED
  BY <1>1, <1>2 DEF Follows, Pending, About, Active

\* The message at hand comes after those of its change that were handled.
LEMMA InOrder ==
  ASSUME IInv
  PROVE  /\ \A m \in todo : step = "pick" => m \in Messages \ Done /\ \A n \in Done : Later(n, m) => Change[m] \notin Cared
         /\ Working => /\ current \in Messages \ Done
                       /\ \A n \in Done : Later(n, current) => Change[current] \notin Cared
<1>1. Done \subseteq Messages /\ todo \subseteq Messages /\ todo \cap Done = {}
  BY DEF IInv, TypeOK, ScanInv, Done
<1>2. Working => current \in Messages \ Done
  BY AtWork DEF IInv, ScanInv, Done
<1> QED
  BY <1>1, <1>2 DEF IInv, OrderInv, Later

\* A step that leaves messages and issues as they are.
LEMMA FollowQuiet ==
  ASSUME IInv, NEW c \in Cared, Done' = Done, ResolveKept, UNCHANGED status, Pending(c) => Pending(c)'
  PROVE  Follows(c)'
<1>1. StatusKept(c)
  BY ResolvesAlike DEF StatusKept
<1> QED
  BY <1>1, FollowKept DEF About, Approvals

\* A change that was hit, or has a message overtaken, stays so.
LEMMA BotchedStays == IInv /\ [Next]_vars => botched \subseteq botched' /\ overtaken \subseteq overtaken'
<1> SUFFICES ASSUME IInv, [Next]_vars PROVE botched \subseteq botched' /\ overtaken \subseteq overtaken'
  OBVIOUS
<1> USE PmSyncAssumption DEF Mishap
<1>1. CASE ScanStart
  BY <1>1 DEF ScanStart, Active, busVars, watchVars, fileVars, toolVars, lagVars
<1>2. CASE ScanEnd
  BY <1>2 DEF ScanEnd, Behind, Mishap, busVars, watchVars, fileVars, toolVars, lagVars
<1>3. ASSUME NEW m \in Messages, Pick(m) PROVE botched \subseteq botched' /\ overtaken \subseteq overtaken'
  BY <1>3 DEF Pick, NextFile, Finish, busVars, watchVars, fileVars, toolVars, lagVars
<1>4. ASSUME NEW m \in Messages, SearchFails(m) PROVE botched \subseteq botched' /\ overtaken \subseteq overtaken'
  BY <1>4 DEF SearchFails, NextFile, Mishap, Finish, busVars, watchVars, fileVars, toolVars, lagVars
<1>5. ASSUME NEW type \in OutboundTypes \cup InboundTypes, PickNotice(type) PROVE botched \subseteq botched' /\ overtaken \subseteq overtaken'
  BY <1>5 DEF PickNotice, busVars, watchVars, fileVars, toolVars, lagVars
<1>6. CASE CallRaises
  BY <1>6 DEF CallRaises, Mishap, Finish, busVars, watchVars, fileVars, toolVars, lagVars
<1>7. CASE CreateIssue
  BY <1>7 DEF CreateIssue, Mishap, Finish, Continue, busVars, watchVars, fileVars, toolVars, lagVars
<1>8. CASE SaveIssueId
  BY <1>8 DEF SaveIssueId, NoMap, Mishap, Finish, Continue, busVars, watchVars, fileVars, toolVars, lagVars
<1>9. CASE WritePmSyncYaml
  BY <1>9 DEF WritePmSyncYaml, AfterSaving, Mishap, Finish, Continue, busVars, watchVars, fileVars, toolVars, lagVars
<1>10. CASE UpdateIssue
  BY <1>10 DEF UpdateIssue, AfterSaving, Mishap, Finish, Continue, busVars, watchVars, fileVars, toolVars, lagVars
<1>11. CASE AddComment
  BY <1>11 DEF AddComment, Finish, busVars, watchVars, fileVars, toolVars, lagVars
<1>12. CASE Restart
  BY <1>12 DEF Restart, NoMap, Mishap, busVars, watchVars, fileVars, toolVars, lagVars
<1>13. ASSUME NEW h \in Hooks, InboundWebhook(h) PROVE botched \subseteq botched' /\ overtaken \subseteq overtaken'
  BY <1>13 DEF InboundWebhook, busVars, watchVars, fileVars, toolVars, lagVars
<1>14. ASSUME NEW m \in Messages, Publish(m) PROVE botched \subseteq botched' /\ overtaken \subseteq overtaken'
  BY <1>14 DEF Publish, busVars, watchVars, fileVars, toolVars, lagVars
<1>15. ASSUME NEW m \in Messages, Archive(m) PROVE botched \subseteq botched' /\ overtaken \subseteq overtaken'
  BY <1>15 DEF Archive, busVars, watchVars, fileVars, toolVars, lagVars
<1>16. CASE UNCHANGED vars
  BY <1>16 DEF vars, busVars, watchVars, fileVars, toolVars, lagVars
<1>17. ASSUME NEW m \in Messages, SendFails(m) PROVE botched \subseteq botched' /\ overtaken \subseteq overtaken'
  BY <1>17 DEF SendFails, NextFile, Behind, Mishap, busVars, fileVars, toolVars
<1> QED
  BY <1>1, <1>2, <1>3, <1>4, <1>5, <1>6, <1>7, <1>8, <1>9,
     <1>10, <1>11, <1>12, <1>13, <1>14, <1>15, <1>16, <1>17 DEF Next, Watcher

LEMMA FollowStep == IInv /\ [Next]_vars => FollowInv'
<1> SUFFICES ASSUME IInv, [Next]_vars, NEW c \in Cared' PROVE Follows(c)'
  BY DEF FollowInv
<1>a. c \in Cared /\ c \in Changes /\ c # None /\ c \notin botched' \cup overtaken'
  BY BotchedStays, PmSyncAssumption DEF Cared
<1>b. (step = "idle" => seen = {}) /\ (step # "idle" => saved \subseteq seen)
  BY DEF IInv, ScanInv
<1>1. CASE ScanStart
  <2>1. Done' = Done /\ Active' = Active /\ ResolveKept /\ UNCHANGED status
    BY <1>1, <1>b DEF ScanStart, Done, Active, ResolveKept, busVars, watchVars, fileVars, toolVars, lagVars
  <2> QED
    BY <1>a, <2>1, FollowQuiet DEF Pending, About
<1>2. CASE ScanEnd
  <2>1. /\ ResolveKept /\ UNCHANGED <<where, status>> /\ saved \subseteq Done /\ Done' = saved'
        /\ saved' = saved \/ \E old \in SUBSET Active : saved' = Done \ old
    BY <1>2, <1>b DEF ScanEnd, Behind, Done, ResolveKept, fileVars, toolVars
  <2>2. StatusKept(c)
    BY <2>1, ResolvesAlike DEF StatusKept
  <2>3. Done' \subseteq Done /\ \A m \in Done \ Done' : where[m] = "active" \/ Change[m] \notin Cared
    BY <2>1, Unsaved DEF Active
  <2> QED
    BY <1>a, <2>1, <2>2, <2>3, FollowBack
<1>3. ASSUME NEW m \in Messages, Pick(m) PROVE Follows(c)'
  <2>1. ResolveKept /\ UNCHANGED <<where, saved, status>> /\ m \in todo /\ step = "pick"
    BY <1>3 DEF Pick, NextFile, ResolveKept, busVars, fileVars, toolVars, lagVars
  <2>2. StatusKept(c) /\ Resolve(c)' = Resolve(c)
    BY <2>1, ResolvesAlike DEF StatusKept
  <2>3. m \in Messages \ Done /\ \A n \in Done : Later(n, m) => Change[m] \notin Cared
    BY <2>1, InOrder
  <2>4. CASE seen' = seen
    BY <1>a, <2>1, <2>4, FollowQuiet DEF Done, Active, Pending, About
  <2>5. CASE seen' = seen \cup {m} /\ (Change[m] = c => Type[m] = "question" \/ Resolve(c) = {})
    <3>1. Done' = Done \cup {m}
      BY <2>1, <2>5 DEF Done
    <3> QED
      BY <1>a, <2>1, <2>2, <2>3, <2>5, <3>1, FollowDone
  <2> QED
    BY <1>3, <1>a, <2>4, <2>5 DEF Pick, Finish
<1>4. ASSUME NEW m \in Messages, SearchFails(m) PROVE Follows(c)'
  <2>1. /\ ResolveKept /\ UNCHANGED <<where, saved, status>> /\ m \in todo /\ step = "pick"
        /\ seen' = seen \cup {m} /\ botched' = botched \cup ({Change[m]} \ {None})
    BY <1>4 DEF SearchFails, NextFile, Finish, ResolveKept, busVars, fileVars, toolVars, lagVars
  <2>2. StatusKept(c)
    BY <2>1, ResolvesAlike DEF StatusKept
  <2>3. m \in Messages \ Done /\ \A n \in Done : Later(n, m) => Change[m] \notin Cared
    BY <2>1, InOrder
  <2>4. Change[m] # c /\ Done' = Done \cup {m}
    BY <1>a, <2>1 DEF Cared, Done
  <2> QED
    BY <1>a, <2>1, <2>2, <2>3, <2>4, FollowDone
<1>5. ASSUME NEW type \in OutboundTypes \cup InboundTypes, PickNotice(type) PROVE Follows(c)'
  <2>1. Done' = Done /\ Active' = Active /\ ResolveKept /\ UNCHANGED status
    BY <1>5, <1>b DEF PickNotice, Done, Active, ResolveKept, busVars, watchVars, fileVars, toolVars, lagVars
  <2> QED
    BY <1>a, <2>1, FollowQuiet DEF Pending, About
<1>6. CASE CallRaises
  <2>1. /\ ResolveKept /\ UNCHANGED <<where, saved, status>> /\ Working /\ seen' = seen \cup {current}
        /\ step = "comment" \/ Change[current] # c
    BY <1>6, <1>a DEF CallRaises, Finish, Cared, Working, ResolveKept, busVars, fileVars, toolVars, lagVars
  <2>2. StatusKept(c) /\ Resolve(c)' = Resolve(c)
    BY <2>1, ResolvesAlike DEF StatusKept
  <2>3. current \in Messages \ Done /\ \A n \in Done : Later(n, current) => Change[current] \notin Cared
    BY <2>1, InOrder
  <2>4. Done' = Done \cup {current}
    BY <2>1 DEF Done
  <2>5. ASSUME Change[current] = c, Type[current] # "question", NEW i \in Issues, Resolve(c)' = {i}
        PROVE  status'[i] = Said(current)
    BY <1>a, <2>1, <2>2, <2>5 DEF IInv, FreshInv, Cared
  <2> QED
    BY <1>a, <2>1, <2>2, <2>3, <2>4, <2>5, FollowDone
<1>7. CASE CreateIssue
  <2>1. /\ Working /\ Type[current] = "spec-change-approved" /\ UNCHANGED <<where, saved, map, yaml>>
        /\ made \in Nat /\ made' = made + 1 /\ made' \in Issues
        /\ \A i \in 1..made : of'[i] = of[i] /\ status'[i] = status[i]
    <3>1. /\ step = "create" /\ made \in 0..MaxIssues /\ made < MaxIssues /\ made' = made + 1
          /\ of' = [of EXCEPT ![made'] = Change[current]] /\ status' = [status EXCEPT ![made'] = "new"]
          /\ Type[current] = "spec-change-approved" /\ UNCHANGED <<where, saved, map, yaml>>
      BY <1>7 DEF CreateIssue, IInv, TypeOK, MakeInv, busVars, fileVars
    <3>2. of \in [Issues -> Changes \cup {None}] /\ status \in [Issues -> {"new", "in_progress", "done"}]
      BY DEF IInv, TypeOK
    <3> QED
      BY <3>1, <3>2, PmSyncAssumption DEF Working, Issues
  <2>2. Active' = Active
    BY <2>1 DEF Active
  <2>3. StatusKept(c)
    <3> SUFFICES ASSUME Approvals(c, Done) # {}, NEW i \in Issues, Resolve(c)' = {i}
                 PROVE  Resolve(c) = {i} /\ status'[i] = status[i]
      BY DEF StatusKept
    <3>1. Resolve(c) # {} /\ \A j : Resolve(c) = {j} => j \in 1..made
      BY <1>a, OwnIssue
    <3>2. Resolve(c) \subseteq Resolve(c)'
      BY <2>1 DEF Resolve, Search
    <3> QED
      BY <2>1, <3>1, <3>2
  <2>4. current \in Messages \ Done /\ \A n \in Done : Later(n, current) => Change[current] \notin Cared
    BY <2>1, InOrder
  <2>5. CASE seen' = seen
    <3>1. Done' = Done
      BY <2>1, <2>5 DEF Done
    <3>2. CASE Change[current] = c
      BY <1>a, <2>1, <3>1, <3>2, FollowCurrent
    <3>3. CASE Change[current] # c
      BY <1>a, <2>2, <2>3, <3>1, <3>3, FollowKept DEF Pending
    <3> QED
      BY <3>2, <3>3
  <2>6. CASE seen' = seen \cup {current} /\ Change[current] # c
    <3>1. Done' = Done \cup {current}
      BY <2>1, <2>6 DEF Done
    <3> QED
      BY <1>a, <2>1, <2>3, <2>4, <2>6, <3>1, FollowDone
  <2> QED
    BY <1>7, <1>a, <2>5, <2>6 DEF CreateIssue, Finish, Continue, Cared
<1>8. CASE SaveIssueId
  <2>1. /\ Working /\ Type[current] = "spec-change-approved"
        /\ UNCHANGED <<where, saved, yaml, made, of, status>>
        /\ Change[current] # c => map'[c] \in {0, map[c]}
    BY <1>8, <1>a DEF SaveIssueId, NoMap, IInv, TypeOK, MakeInv, Working, busVars, toolVars, lagVars, Cared
  <2>2. Active' = Active
    BY <2>1 DEF Active
  <2>3. Change[current] # c => StatusKept(c)
    BY <1>a, <2>1, MapLost
  <2>4. current \in Messages \ Done /\ \A n \in Done : Later(n, current) => Change[current] \notin Cared
    BY <2>1, InOrder
  <2>5. CASE seen' = seen
    <3>1. Done' = Done
      BY <2>1, <2>5 DEF Done
    <3>2. CASE Change[current] = c
      BY <1>a, <2>1, <3>1, <3>2, FollowCurrent
    <3>3. CASE Change[current] # c
      BY <1>a, <2>2, <2>3, <3>1, <3>3, FollowKept DEF Pending
    <3> QED
      BY <3>2, <3>3
  <2>6. CASE seen' = seen \cup {current} /\ Change[current] # c
    <3>1. Done' = Done \cup {current}
      BY <2>1, <2>6 DEF Done
    <3> QED
      BY <1>a, <2>1, <2>3, <2>4, <2>6, <3>1, FollowDone
  <2> QED
    BY <1>8, <1>a, <2>5, <2>6 DEF SaveIssueId, NoMap, Finish, Continue, Cared
<1>9. CASE WritePmSyncYaml
  <2>1. /\ Working /\ Type[current] = "spec-change-approved"
        /\ UNCHANGED <<where, saved, map, made, of, status>>
        /\ Change[current] # c => yaml'[c] = yaml[c]
    BY <1>9, <1>a DEF WritePmSyncYaml, IInv, TypeOK, MakeInv, Working, busVars, toolVars, lagVars, Cared
  <2>2. Active' = Active
    BY <2>1 DEF Active
  <2>3. Change[current] # c => StatusKept(c)
    BY <2>1 DEF StatusKept, Resolve, Search
  <2>4. current \in Messages \ Done /\ \A n \in Done : Later(n, current) => Change[current] \notin Cared
    BY <2>1, InOrder
  <2>5. CASE seen' = seen
    <3>1. Done' = Done
      BY <2>1, <2>5 DEF Done
    <3>2. CASE Change[current] = c
      BY <1>a, <2>1, <3>1, <3>2, FollowCurrent
    <3>3. CASE Change[current] # c
      BY <1>a, <2>2, <2>3, <3>1, <3>3, FollowKept DEF Pending
    <3> QED
      BY <3>2, <3>3
  <2>6. CASE seen' = seen \cup {current}
    <3>1. Done' = Done \cup {current}
      BY <2>1, <2>6 DEF Done
    <3>2. ASSUME Change[current] = c, NEW i \in Issues, Resolve(c)' = {i}
          PROVE  status'[i] = Said(current)
      <4>1. /\ issue \in 1..made /\ status[issue] = "new" /\ map[c] = issue
            /\ c \in HasDir \/ yaml[c] = 0
        BY <1>9, <1>a, <3>2 DEF WritePmSyncYaml, IInv, IssueInv, FreshInv, MakeInv, Cared
      <4>2. yaml'[c] \in {0, issue}
        BY <1>9, <1>a, <3>2, <4>1 DEF WritePmSyncYaml, IInv, TypeOK, Cared
      <4>3. Resolve(c)' = {issue}
        BY <1>a, <2>1, <4>1, <4>2, made \in Nat DEF Resolve, IInv, TypeOK
      <4> QED
        BY <2>1, <3>2, <4>1, <4>3 DEF Said
    <3> QED
      BY <1>a, <2>1, <2>3, <2>4, <3>1, <3>2, FollowDone
  <2> QED
    BY <1>9, <2>5, <2>6 DEF WritePmSyncYaml, AfterSaving, Finish, Continue
<1>10. CASE UpdateIssue
  <2>1. /\ Working /\ Type[current] \notin {"spec-change-approved", "question"}
        /\ issue \in Issues /\ issue \in Resolve(Change[current])
        /\ ResolveKept /\ UNCHANGED <<where, saved>>
        /\ status' = [status EXCEPT ![issue] = Said(current)]
        /\ of[issue] = Change[current] \/ of[issue] \in botched'
    BY <1>10, AtWork DEF UpdateIssue, IInv, MakeInv, OwnInv, Working, Said, ResolveKept, busVars, fileVars
  <2>2. Active' = Active /\ Resolve(c)' = Resolve(c)
    BY <2>1, ResolvesAlike DEF Active
  <2>3. Change[current] # c => StatusKept(c)
    <3> SUFFICES ASSUME Change[current] # c, Approvals(c, Done) # {}, NEW i \in Issues, Resolve(c)' = {i}
                 PROVE  Resolve(c) = {i} /\ status'[i] = status[i]
      BY DEF StatusKept
    <3>1. of[i] = c
      BY <1>a, <2>2, OwnIssue
    <3>2. i # issue
      BY <1>a, <2>1, <3>1 DEF Cared
    <3> QED
      BY <2>1, <2>2, <3>2 DEF IInv, TypeOK
  <2>4. current \in Messages \ Done /\ \A n \in Done : Later(n, current) => Change[current] \notin Cared
    BY <2>1, InOrder
  <2>5. CASE seen' = seen
    <3>1. Done' = Done
      BY <2>1, <2>5 DEF Done
    <3>2. CASE Change[current] = c
      BY <1>a, <2>1, <3>1, <3>2, FollowCurrent
    <3>3. CASE Change[current] # c
      BY <1>a, <2>2, <2>3, <3>1, <3>3, FollowKept DEF Pending
    <3> QED
      BY <3>2, <3>3
  <2>6. CASE seen' = seen \cup {current}
    <3>1. Done' = Done \cup {current}
      BY <2>1, <2>6 DEF Done
    <3>2. ASSUME Change[current] = c, NEW i \in Issues, Resolve(c)' = {i}
          PROVE  status'[i] = Said(current)
      <4>1. i = issue
        BY <2>1, <2>2, <3>2
      <4> QED
        BY <2>1, <4>1 DEF IInv, TypeOK
    <3> QED
      BY <1>a, <2>1, <2>3, <2>4, <3>1, <3>2, FollowDone
  <2> QED
    BY <1>10, <2>5, <2>6 DEF UpdateIssue, AfterSaving, Finish, Continue
<1>11. CASE AddComment
  <2>1. /\ ResolveKept /\ UNCHANGED <<where, saved, status>> /\ Working /\ seen' = seen \cup {current}
        /\ step = "comment"
    BY <1>11 DEF AddComment, Finish, Working, ResolveKept, busVars, fileVars, toolVars, lagVars
  <2>2. StatusKept(c) /\ Resolve(c)' = Resolve(c)
    BY <2>1, ResolvesAlike DEF StatusKept
  <2>3. current \in Messages \ Done /\ \A n \in Done : Later(n, current) => Change[current] \notin Cared
    BY <2>1, InOrder
  <2>4. Done' = Done \cup {current}
    BY <2>1 DEF Done
  <2>5. ASSUME Change[current] = c, Type[current] # "question", NEW i \in Issues, Resolve(c)' = {i}
        PROVE  status'[i] = Said(current)
    BY <1>a, <2>1, <2>2, <2>5 DEF IInv, FreshInv, Cared
  <2> QED
    BY <1>a, <2>1, <2>2, <2>3, <2>4, <2>5, FollowDone
<1>12. CASE Restart
  <2>1. /\ UNCHANGED <<where, saved, made, of, status>> /\ Done' = saved /\ Done' \subseteq Done
        /\ \A m \in Done \ Done' : where[m] = "active" \/ Change[m] \notin Cared
    BY <1>12, Unsaved DEF Restart, NoMap, Done, busVars, toolVars
  <2>2. CASE UNCHANGED fileVars
    BY <1>a, <2>1, <2>2, ResolvesAlike, FollowBack DEF StatusKept, ResolveKept, fileVars
  <2>3. CASE map' = NoMap /\ UNCHANGED yaml
    <3>1. StatusKept(c)
      BY <1>a, <2>1, <2>3, MapLost DEF NoMap
    <3> QED
      BY <1>a, <2>1, <3>1, FollowBack
  <2>4. CASE step = "yaml" /\ yaml' = [yaml EXCEPT ![Change[current]] = 0] /\ UNCHANGED map
    <3>1. CASE Change[current] # c
      <4>1. StatusKept(c)
        BY <1>a, <2>1, <2>4, <3>1 DEF StatusKept, Resolve, Search, IInv, TypeOK
      <4> QED
        BY <1>a, <2>1, <4>1, FollowBack
    <3>2. CASE Change[current] = c
      <4>1. current \in Messages \ saved /\ current # 0
        BY <2>4, AtWork DEF IInv, ScanInv, Working
      <4>2. where[current] = "active" /\ Type[current] # "question"
        BY <1>a, <2>4, <3>2, <4>1 DEF IInv, TypeOK, BusInv, MakeInv
      <4> QED
        BY <2>1, <3>2, <4>1, <4>2 DEF Follows, Pending, About, Active
    <3> QED
      BY <3>1, <3>2
  <2> QED
    BY <1>12, <2>2, <2>3, <2>4 DEF Restart
<1>13. ASSUME NEW h \in Hooks, InboundWebhook(h) PROVE Follows(c)'
  <2>1. Done' = Done /\ Active' = Active /\ ResolveKept /\ UNCHANGED status
    BY <1>13, <1>b DEF InboundWebhook, Done, Active, ResolveKept, busVars, watchVars, fileVars, toolVars, lagVars
  <2> QED
    BY <1>a, <2>1, FollowQuiet DEF Pending, About
<1>14. ASSUME NEW m \in Messages, Publish(m) PROVE Follows(c)'
  <2>1. Done' = Done /\ ResolveKept /\ UNCHANGED status /\ Active \subseteq Active'
    BY <1>14 DEF Publish, Done, Active, ResolveKept, watchVars, fileVars, toolVars, lagVars
  <2> QED
    BY <1>a, <2>1, FollowQuiet DEF Pending, About
<1>15. ASSUME NEW m \in Messages, Archive(m) PROVE Follows(c)'
  <2>1. /\ Done' = Done /\ ResolveKept /\ UNCHANGED status /\ Active \ {m} \subseteq Active'
        /\ m \in Done \/ Change[m] # c
    BY <1>15, <1>a DEF Archive, Done, Active, Cared, ResolveKept, watchVars, fileVars, toolVars, lagVars
  <2> QED
    BY <1>a, <2>1, FollowQuiet DEF Pending, About
<1>16. CASE UNCHANGED vars
  <2>1. Done' = Done /\ Active' = Active /\ ResolveKept /\ UNCHANGED status
    BY <1>16, <1>b DEF vars, Done, Active, ResolveKept, busVars, watchVars, fileVars, toolVars, lagVars
  <2> QED
    BY <1>a, <2>1, FollowQuiet DEF Pending, About
<1>17. ASSUME NEW m \in Messages, SendFails(m) PROVE Follows(c)'
  <2>1. Done' = Done /\ Active' = Active /\ ResolveKept /\ UNCHANGED status
    BY <1>17, <1>b DEF SendFails, Done, Active, ResolveKept, busVars, fileVars, toolVars
  <2> QED
    BY <1>a, <2>1, FollowQuiet DEF Pending, About
<1> QED
  BY <1>1, <1>2, <1>3, <1>4, <1>5, <1>6, <1>7, <1>8, <1>9,
     <1>10, <1>11, <1>12, <1>13, <1>14, <1>15, <1>16, <1>17 DEF Next, Watcher

\* A set of messages has at most one last one.
LEMMA LastIs ==
  ASSUME NEW S \in SUBSET Messages, NEW l \in S, \A n \in S : n <= l
  PROVE  Last(S) = l
<1>1. S \subseteq Nat
  BY PmSyncAssumption
<1>2. Last(S) \in S /\ \A n \in S : n <= Last(S)
  BY DEF Last
<1>3. l <= Last(S) /\ Last(S) <= l
  BY <1>2
<1>4. Last(S) \in Nat /\ l \in Nat
  BY <1>1, <1>2
<1> QED
  BY <1>3, <1>4

\* What the bus says of a change is what its last message asks for.
LEMMA WantedIsSaid ==
  ASSUME IInv, NEW c \in Changes, Done = saved, Approvals(c, saved) # {},
         NEW l \in About(c, saved), \A n \in About(c, saved) : n <= l
  PROVE  Wanted(c) = Said(l)
<1>1. saved \subseteq Messages /\ Messages \subseteq Nat /\ l \in saved /\ Change[l] = c /\ Type[l] # "question"
  BY PmSyncAssumption DEF IInv, TypeOK, About
<1> DEFINE A == Handled(c, {"spec-change-approved"})
           a == Last(A)
           tasks == {m \in Handled(c, {"task-assignment", "task-complete"}) : m > a}
<1>2. A = Approvals(c, saved) /\ A \in SUBSET Messages
  BY <1>1 DEF Handled, Approvals
<1>3. PICK k \in A : \A n \in A : n <= k
  <2>1. A \in SUBSET Done
    BY <1>2 DEF Approvals
  <2> QED
    BY <1>2, <2>1 DEF IInv, LastInv, HasLast
<1>4. a = k
  BY <1>2, <1>3, LastIs
<1>5. /\ A \subseteq About(c, saved) /\ tasks \subseteq About(c, saved) /\ tasks \in SUBSET Messages
      /\ \A m \in tasks : m > k
  BY <1>1, <1>4 DEF Handled, About
<1>6. Wanted(c) = IF tasks = {} THEN "new" ELSE StatusOf(Type[Last(tasks)])
  BY DEF Wanted
<1>7. k \in Nat /\ l \in Nat /\ k <= l
  BY <1>1, <1>2, <1>3, <1>5
<1> HIDE DEF tasks
<1>8. CASE Type[l] = "spec-change-approved"
  <2>1. l <= k
    BY <1>1, <1>3, <1>8 DEF Handled
  <2>2. tasks = {}
    <3> SUFFICES ASSUME NEW m \in tasks PROVE FALSE
      OBVIOUS
    <3>1. m \in Nat /\ m <= l /\ m > k
      BY <1>1, <1>5
    <3> QED
      BY <1>7, <2>1, <3>1
  <2> QED
    BY <1>6, <1>8, <2>2 DEF Said
<1>9. CASE Type[l] # "spec-change-approved"
  <2>1. Type[l] \in {"task-assignment", "task-complete"}
    BY <1>1, <1>9, PmSyncAssumption DEF OutboundTypes
  <2>2. l # k
    BY <1>3, <1>9 DEF Handled
  <2>3. l \in tasks
    BY <1>1, <1>4, <1>7, <2>1, <2>2 DEF tasks, Handled
  <2>4. Last(tasks) = l
    BY <1>5, <2>3, LastIs
  <2> QED
    BY <1>6, <1>9, <2>3, <2>4 DEF Said
<1> QED
  BY <1>8, <1>9

\* A change that resolves to one issue.
LEMMA OneIssue ==
  ASSUME IInv, NEW c \in Changes, NEW i \in Resolve(c), Cardinality(Resolve(c)) = 1
  PROVE  Resolve(c) = {i} /\ i \in Issues
<1>1. Resolve(c) \subseteq Issues /\ MaxIssues \in Nat
  BY ResolvesToIssue, PmSyncAssumption
<1>2. IsFiniteSet(Resolve(c))
  BY <1>1, FS_Interval, FS_Subset DEF Issues
<1>3. PICK j : Resolve(c) = {j}
  BY <1>2, FS_Singleton
<1> QED
  BY <1>1, <1>3

-----------------------------------------------------------------------------
(* Theorems. *)

\* The invariant holds when the daemon is started for the first time.
LEMMA AtStart == Init => IInv
<1> SUFFICES ASSUME Init PROVE IInv
  OBVIOUS
<1> USE PmSyncAssumption DEF Init
<1>1. TypeOK
  BY DEF TypeOK
<1>2. ScanInv /\ CallInv /\ EchoInv
  BY DEF ScanInv, Working, CallInv, EchoInv, InboundTypes
<1>3. MakeInv /\ IssueInv /\ DifferInv
  BY DEF MakeInv, IssueInv, DifferInv
<1>4. BusInv /\ OrderInv /\ LastInv /\ OwnInv
  BY DEF BusInv, OrderInv, LastInv, HasLast, OwnInv, Done, Cared
<1>5. FreshInv /\ FollowInv
  BY DEF FreshInv, FollowInv, Follows, Approvals, Done
<1> QED
  BY <1>1, <1>2, <1>3, <1>4, <1>5 DEF IInv

\* The invariant holds throughout: every step of the watcher's handler, the
\* webhooks and the other agents (handle_event, handle_inbound_webhook) keeps it.
THEOREM PmSyncInvariant == Spec => []IInv
<1>1. Init => IInv
  BY AtStart
<1>2. IInv /\ [Next]_vars => IInv'
  BY TypeStep, ScanStep, CallStep, EchoStep, MakeStep, IssueStep, DifferStep,
     BusStep, OrderStep, LastStep, OwnStep, FreshStep, FollowStep DEF IInv
<1> QED
  BY <1>1, <1>2, PTL DEF Spec

\* The variables keep to their types: an issue that is known by its id is one
\* that fits the tool's, and what is scanned are messages (_scan_once).
THEOREM PmSyncTyped == Spec => []TypeOK
<1>1. IInv => TypeOK
  BY DEF IInv
<1> QED
  BY <1>1, PmSyncInvariant, PTL

\* Every call beyond a message's first is paid for by a crash or a failure
\* (_scan_once saves its state at the end) or by the pruning of its entry
\* (_save_state), and what the tool sends back leads to no call (handle_event
\* looks at outbound types only).
THEOREM CallsArePaidFor == Spec => []CallsPaidFor
<1>1. IInv => CallsPaidFor
  BY DEF IInv, CallInv, EchoInv, CallsPaidFor
<1> QED
  BY <1>1, PmSyncInvariant, PTL

\* The issue map and .pm-sync.yaml agree, unless the message that made the
\* later issue is to be handled again or a failure was logged
\* (_save_issue_id, _write_pm_sync_yaml).
THEOREM FilesAgree == Spec => []MapsAgree
<1>1. IInv => MapsAgree
  BY DEF IInv, DifferInv, MapsAgree
<1> QED
  BY <1>1, PmSyncInvariant, PTL

\* When the bus has been gone through, the issue a change resolves to has the
\* status that the last message of the change asks for, whatever was handled
\* again after a crash or pruning, unless a message of the change was left, by
\* a failed send or by pruning, to be handled after a later one
\* (handle_bus_event, _save_issue_id, _resolve_issue_id, _save_state).
THEOREM StatusIsFollowed == Spec => []StatusFollows
<1>1. IInv => StatusFollows
  <2> SUFFICES ASSUME IInv, step = "idle", Active \subseteq saved, NEW c \in Changes \ (botched \cup overtaken),
                      Handled(c, {"spec-change-approved"}) # {},
                      NEW i \in Resolve(c), Cardinality(Resolve(c)) = 1
               PROVE  status[i] = Wanted(c)
    BY DEF StatusFollows
  <2>1. Done = saved /\ c \in Cared
    BY DEF IInv, ScanInv, Done, Cared
  <2>2. Approvals(c, saved) # {}
    BY DEF Handled, Approvals
  <2>3. PICK l \in About(c, saved) : \A n \in About(c, saved) : n <= l
    <3>1. About(c, saved) # {}
      BY <2>2 DEF About, Approvals
    <3>2. HasLast(About(c, saved))
      BY <2>1 DEF IInv, LastInv, About
    <3> QED
      BY <3>1, <3>2 DEF HasLast
  <2>4. Resolve(c) = {i} /\ i \in Issues
    BY OneIssue
  <2>5. ~Pending(c)
    BY <2>1 DEF Pending, About
  <2>6. status[i] = Said(l)
    BY <2>1, <2>2, <2>3, <2>4, <2>5 DEF IInv, FollowInv, Follows
  <2> QED
    BY <2>1, <2>2, <2>3, <2>6, WantedIsSaid
<1> QED
  BY <1>1, PmSyncInvariant, PTL
=============================================================================
