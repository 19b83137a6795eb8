---------------------------- MODULE ApprovalProofs ----------------------------
(***************************************************************************)
(* Proofs about ApprovalService for every set of requests, threads, timeouts *)
(* and bounds: type correctness, the safety invariants the runs check, and   *)
(* that the service implements HookVerdict's safety part.                    *)
(*                                                                          *)
(* The inductive invariant adds four parts to the types.  LifeInv ties the   *)
(* hook, its handler thread and the pending table together; VoteInv says     *)
(* that every decision on its way (a tap, a looked-up slot, a response, an   *)
(* answer) was cast for the request it is about to reach; StatusInv does the *)
(* same for the edits of cards; TimeInv orders the timers of a request.      *)
(***************************************************************************)
EXTENDS ApprovalService, TLAPS

\* Handlers that have not answered yet, and those among them still to be woken.
Active == {"sending", "check", "blocked", "woke"}
NotWoken == {"sending", "check", "blocked"}

(* Finish hands answer[r] to the hook: type correctness rests on the handler   *)
(* having an answer once it is awake.                                          *)
WokenAnswered == \A r \in Requests : handler[r] = "woke" => answer[r] # NoDecision

(* A hook is asking while its handler is active; the table holds active        *)
(* handlers; what is on its way is about requests that were asked.             *)
LifeInv ==
  /\ \A r \in Requests :
       /\ hook[r] = "idle" <=> handler[r] = "none"
       /\ hook[r] = "asking" => handler[r] \in Active
       /\ handler[r] \in Active => hook[r] \in {"asking", "gaveUp", "reset"}
       /\ r \in pending => handler[r] \in Active
       /\ handler[r] \in NotWoken => r \in pending \/ r \in toCancel \/ EventSet(r)
       /\ handler[r] = "none" =>
            \A c \in Cards : post[r][c] = "none" /\ card[r][c] = "none"
  /\ \A tap \in taps : hook[tap[1]] # "idle"
  /\ \A f \in found : hook[f.req] # "idle"
  /\ \A e \in edits : hook[e.req] # "idle"
  /\ stop = "up" => toCancel = {}

(* Taps, lookups, responses and answers are backed by votes; a decision that   *)
(* came in time has set the event and left time on the clock.                  *)
VoteInv ==
  /\ \A r \in Requests, a \in Buttons :
       <<r, a>> \in taps /\ a # "snooze" => ToDecision[a] \in votes[r]
  /\ \A f \in found : f.op # "snooze" => f.op \in votes[f.req]
  /\ \A r \in Requests :
       /\ response[r] \in votes[r] \cup {"ask", NoDecision}
       /\ answer[r] \in votes[r] \cup {"ask", "timeout", NoDecision}
       /\ handler[r] \in NotWoken \cup {"none"} => answer[r] = NoDecision
       /\ r \in inTime =>
            /\ EventSet(r)
            /\ handler[r] = "check" => left[r] > 1
            /\ handler[r] = "blocked" => left[r] > 0
            /\ handler[r] \in {"check", "blocked", "woke", "done"}
            /\ answer[r] = "timeout" => "timeout" \in votes[r]

(* An edit that writes a decision writes the one the handler returned.         *)
StatusInv ==
  /\ \A e \in edits : e.text \in Decisions =>
       /\ handler[e.req] = "done" /\ answer[e.req] = e.text
       /\ hook[e.req] \in {e.text, "gaveUp", "reset"}
  /\ CardTellsTheAnswer

(* A sleeping re-post is due before the deadline, and the age of a request      *)
(* nobody snoozed tells its deadline, which comes before the hook's.            *)
Ordered(r) ==
  /\ \A c \in Cards :
       post[r][c] = "sleeping" /\ handler[r] \in NotWoken =>
         left[r] >= sleepLeft[r][c] + SnoozeBuffer
  /\ SnoozesUsed(r) = {} =>
       /\ hook[r] # "gaveUp"
       /\ hook[r] = "asking" =>
            /\ age[r] <= ApprovalTimeout \/ age[r] <= SendTimeout
            /\ handler[r] \in NotWoken =>
                 left[r] = IF age[r] < ApprovalTimeout THEN ApprovalTimeout - age[r] ELSE 0
            /\ handler[r] = "sending" => age[r] <= SendTimeout
  /\ hook[r] = "idle" => age[r] = 0

TimeInv == \A r \in Requests : Ordered(r)

IInv == TypeOK /\ WokenAnswered /\ LifeInv /\ VoteInv /\ StatusInv /\ TimeInv

-----------------------------------------------------------------------------
(* The first card is a card, and no card is NoCard.                           *)
LEMMA CardsNat == 1 \in Cards /\ Cards \subseteq Nat \ {0}
  BY ConstantsAssumption DEF Cards

(* The hook's socket timeout is a number of ticks.                             *)
LEMMA PatienceNat == HookPatience \in Nat
  BY ConstantsAssumption DEF HookPatience

(* A button that decides stands for a decision (daemon.py:60-63).             *)
LEMMA ButtonDecision ==
  ASSUME NEW a \in Buttons, a # "snooze"
  PROVE  ToDecision[a] \in {"allow", "deny"} /\ ToDecision[a] \in Decisions
  BY ConstantsAssumption DEF ToDecision, Decisions

(* One step keeps the types.                                                  *)
LEMMA TypeStep == ASSUME TypeOK, WokenAnswered, Next \/ UNCHANGED vars PROVE TypeOK'
<1> USE DEF TypeOK, hookVars, slotVars, chatVars, stopVars, history
<1>1. ASSUME NEW r \in Requests, HandleApproval(r) PROVE TypeOK'
  BY CardsNat, ConstantsAssumption, <1>1 DEF HandleApproval, HandlerStates, PostStates,
       HookStates, HookOutcomes, Decisions
<1>2. ASSUME NEW r \in Requests, HandleStored(r) PROVE TypeOK'
  <2>1. handle' \in [Requests -> Cards \cup {NoCard}]
    BY <1>2, CardsNat DEF HandleStored
  <2> QED BY <1>2, <2>1 DEF HandleStored, HandlerStates
<1>3. ASSUME NEW r \in Requests, SendGivenUp(r) PROVE TypeOK'
  <2> USE <1>3 DEF SendGivenUp, Answered, Popped
  <2>1. hook' \in [Requests -> HookStates] /\ age' \in [Requests -> 0..HookPatience]
    BY PatienceNat DEF HookStates, HookOutcomes, Decisions
  <2>2. /\ answer' \in [Requests -> Decisions \cup {NoDecision}]
        /\ handler' \in [Requests -> HandlerStates]
        /\ left' \in [Requests -> Nat]
        /\ pending' \subseteq Requests
    BY DEF Decisions, HandlerStates
  <2> QED BY <2>1, <2>2 DEF NoDecision
<1>4. ASSUME NEW r \in Requests, CheckDeadline(r) PROVE TypeOK'
  BY <1>4 DEF CheckDeadline, HandlerStates, Decisions
<1>5. ASSUME NEW r \in Requests, WaitElapsed(r) PROVE TypeOK'
  BY <1>5 DEF WaitElapsed, HandlerStates
<1>6. ASSUME NEW r \in Requests, WakeUp(r) PROVE TypeOK'
  BY <1>6 DEF WakeUp, HandlerStates, Decisions
<1>7. ASSUME NEW r \in Requests, Finish(r) PROVE TypeOK'
  <2> USE <1>7 DEF Finish, Answered, Popped
  <2>1. hook' \in [Requests -> HookStates] /\ age' \in [Requests -> 0..HookPatience]
    BY PatienceNat DEF HookStates, HookOutcomes, WokenAnswered
  <2>2. edits' \subseteq Edit
    <3>1. handle[r] # NoCard => [req |-> r, card |-> handle[r], text |-> answer[r]] \in Edit
      BY DEF Edit, CardStates, NoDecision
    <3> QED BY <3>1
  <2>3. /\ handler' \in [Requests -> HandlerStates]
        /\ left' \in [Requests -> Nat]
        /\ pending' \subseteq Requests
    BY DEF HandlerStates
  <2> QED BY <2>1, <2>2, <2>3
<1>8. ASSUME NEW r \in Requests, HookGivesUp(r) PROVE TypeOK'
  BY <1>8 DEF HookGivesUp, Answered, HookStates, HookOutcomes, Decisions
<1>9. ASSUME NEW r \in Requests, CancelOne(r) PROVE TypeOK'
  BY <1>9 DEF CancelOne, Decisions, SlotOps
<1>10. ASSUME NEW r \in Requests, NEW c \in Cards, CardDelivered(r, c) PROVE TypeOK'
  BY <1>10 DEF CardDelivered, CardStates
<1>11. ASSUME NEW r \in Requests, NEW c \in Cards, SendReturns(r, c) PROVE TypeOK'
  BY CardsNat, <1>11 DEF SendReturns, PostStates
<1>12. ASSUME NEW r \in Requests, NEW c \in Cards, SendFails(r, c) PROVE TypeOK'
  BY CardsNat, <1>12 DEF SendFails, PostStates
<1>13. ASSUME NEW r \in Requests, NEW c \in Cards, SnoozeRepost(r, c) PROVE TypeOK'
  BY CardsNat, <1>13 DEF SnoozeRepost, PostStates
<1>14. ASSUME NEW r \in Requests, NEW c \in Cards, NEW a \in Buttons, Tap(r, c, a)
      PROVE TypeOK'
  <2>1. a # "snooze" => ToDecision[a] \in Decisions
    BY ButtonDecision
  <2>2. votes' \in [Requests -> SUBSET Decisions]
    BY <1>14, <2>1 DEF Tap
  <2> QED BY <1>14, <2>2 DEF Tap
<1>15. ASSUME NEW r \in Requests, NEW a \in Buttons, Dispatch(r, a) PROVE TypeOK'
  <2>1. [thread |-> Listener, req |-> r, op |-> IF a = "snooze" THEN a ELSE ToDecision[a]]
          \in Lookup
    BY ButtonDecision DEF Lookup, SlotOps, Threads
  <2> QED BY <1>15, <2>1 DEF Dispatch
<1>16. ASSUME NEW t \in HttpThreads, NEW r \in Requests, NEW d \in ReplyDecisions,
     HandleReply(t, r, d) PROVE TypeOK'
  <2>1. d \in Decisions /\ [thread |-> t, req |-> r, op |-> d] \in Lookup
    BY ConstantsAssumption DEF Lookup, SlotOps, Threads
  <2> QED BY <1>16, <2>1 DEF HandleReply
<1>17. ASSUME NEW e \in edits, RunEdit(e) PROVE TypeOK'
  <2>1. e.req \in Requests /\ e.card \in Cards /\ e.text \in CardStates
    BY DEF Edit
  <2>2. card' \in [Requests -> [Cards -> CardStates]]
    <3> DEFINE old == card[e.req][e.card]
    <3>1. old \in CardStates /\ (IF old = "live" THEN "stripped" ELSE old) \in CardStates
      BY <2>1 DEF CardStates
    <3>2. ASSUME NEW x \in CardStates, card' = [card EXCEPT ![e.req][e.card] = x]
          PROVE  card' \in [Requests -> [Cards -> CardStates]]
      BY <2>1, <3>2
    <3>3. \/ card' = [card EXCEPT ![e.req][e.card] = e.text]
          \/ card' = [card EXCEPT ![e.req][e.card] = IF old = "live" THEN "stripped" ELSE old]
          \/ card' = card
      BY <1>17 DEF RunEdit
    <3>4. CASE card' = [card EXCEPT ![e.req][e.card] = e.text]
      BY <2>1, <3>2, <3>4
    <3>5. CASE card' = [card EXCEPT ![e.req][e.card] = IF old = "live" THEN "stripped" ELSE old]
      BY <3>1, <3>2, <3>5
    <3> QED BY <3>3, <3>4, <3>5
  <2> QED BY <1>17, <2>2 DEF RunEdit
<1>18. ASSUME NEW f \in found, Resolve(f) PROVE TypeOK'
  BY <1>18 DEF Resolve, Decisions, Lookup, SlotOps
<1>19. ASSUME NEW f \in found, NEW c \in Cards, HandleSnooze(f, c) PROVE TypeOK'
  <2> USE <1>19 DEF HandleSnooze
  <2>1. f.req \in Requests
    BY DEF Lookup
  <2>2. edits' \subseteq Edit
    <3>1. handle[f.req] # NoCard =>
            [req |-> f.req, card |-> handle[f.req], text |-> "snoozed"] \in Edit
      BY <2>1 DEF Edit, CardStates
    <3> QED BY <3>1
  <2>3. left' \in [Requests -> Nat]
    BY <2>1, ConstantsAssumption DEF Extended
  <2>4. /\ post' \in [Requests -> [Cards -> PostStates]]
        /\ sleepLeft' \in [Requests -> [Cards -> Nat]]
    BY <2>1, ConstantsAssumption DEF PostStates
  <2> QED BY <2>1, <2>2, <2>3, <2>4
<1>20. CASE Stop
  BY <1>20 DEF Stop, StopStates
<1>21. CASE CloseServer
  BY <1>21 DEF CloseServer, StopStates
<1>22. CASE DrainLoop
  BY CardsNat, <1>22 DEF DrainLoop, PostStates, CardStates, StopStates
<1>23. CASE Exit
  BY <1>23 DEF Exit, CardStates, StopStates, HookStates, HookOutcomes, Decisions
<1>24. CASE Tick
  <2> USE <1>24 DEF Tick
  <2>1. age' \in [Requests -> 0..HookPatience]
    <3>1. ASSUME NEW r \in Requests PROVE hook[r] = "asking" => age[r] + 1 \in 0..HookPatience
      <4>1. hook[r] = "asking" => age[r] # HookPatience
        BY DEF Due
      <4>2. age[r] \in 0..HookPatience
        OBVIOUS
      <4> HIDE DEF TypeOK, Tick
      <4> QED BY <4>1, <4>2, PatienceNat
    <3> QED BY <3>1
  <2>2. left' \in [Requests -> Nat] /\ sleepLeft' \in [Requests -> [Cards -> Nat]]
    BY DEF Less
  <2> QED BY <2>1, <2>2
<1>25. CASE UNCHANGED vars
  BY CardsNat, ConstantsAssumption, <1>25 DEF vars, Popped, Answered, HandlerStates,
       PostStates, CardStates, StopStates, HookStates, HookOutcomes, Decisions, NoDecision,
       HookPatience, Lookup, SlotOps
<1> QED BY <1>1, <1>2, <1>3, <1>4, <1>5, <1>6, <1>7, <1>8, <1>9, <1>10, <1>11, <1>12,
     <1>13, <1>14, <1>15, <1>16, <1>17, <1>18, <1>19, <1>20, <1>21, <1>22, <1>23, <1>24,
     <1>25 DEF Next, HandlerStep, ActOnFound

(* One step keeps a woken handler's answer.                                   *)
LEMMA WokenStep ==
  ASSUME TypeOK, WokenAnswered, Next \/ UNCHANGED vars PROVE WokenAnswered'
<1> USE DEF TypeOK, WokenAnswered, hookVars, slotVars, chatVars, stopVars, history
<1>1. ASSUME NEW r \in Requests, HandleApproval(r) PROVE WokenAnswered'
  BY <1>1 DEF HandleApproval, Decisions
<1>2. ASSUME NEW r \in Requests, HandleStored(r) PROVE WokenAnswered'
  BY <1>2 DEF HandleStored
<1>3. ASSUME NEW r \in Requests, SendGivenUp(r) PROVE WokenAnswered'
  BY <1>3 DEF SendGivenUp, Popped, Answered, Decisions
<1>4. ASSUME NEW r \in Requests, CheckDeadline(r) PROVE WokenAnswered'
  BY <1>4 DEF CheckDeadline, Decisions, NoDecision, EventSet
<1>5. ASSUME NEW r \in Requests, WaitElapsed(r) PROVE WokenAnswered'
  BY <1>5 DEF WaitElapsed, EventSet
<1>6. ASSUME NEW r \in Requests, WakeUp(r) PROVE WokenAnswered'
  BY <1>6 DEF WakeUp, Decisions, EventSet
<1>7. ASSUME NEW r \in Requests, Finish(r) PROVE WokenAnswered'
  BY <1>7 DEF Finish, Popped, Answered, Decisions
<1>8. ASSUME NEW r \in Requests, HookGivesUp(r) PROVE WokenAnswered'
  BY <1>8 DEF HookGivesUp, Answered, Decisions
<1>9. ASSUME NEW r \in Requests, CancelOne(r) PROVE WokenAnswered'
  BY <1>9 DEF CancelOne, Decisions
<1>10. ASSUME NEW r \in Requests, NEW c \in Cards, CardDelivered(r, c) PROVE WokenAnswered'
  BY <1>10 DEF CardDelivered
<1>11. ASSUME NEW r \in Requests, NEW c \in Cards, SendReturns(r, c) PROVE WokenAnswered'
  BY <1>11 DEF SendReturns
<1>12. ASSUME NEW r \in Requests, NEW c \in Cards, SendFails(r, c) PROVE WokenAnswered'
  BY <1>12 DEF SendFails
<1>13. ASSUME NEW r \in Requests, NEW c \in Cards, SnoozeRepost(r, c) PROVE WokenAnswered'
  BY <1>13 DEF SnoozeRepost
<1>14. ASSUME NEW r \in Requests, NEW c \in Cards, NEW a \in Buttons, Tap(r, c, a)
      PROVE WokenAnswered'
  BY <1>14 DEF Tap, Decisions
<1>15. ASSUME NEW r \in Requests, NEW a \in Buttons, Dispatch(r, a) PROVE WokenAnswered'
  BY <1>15 DEF Dispatch
<1>16. ASSUME NEW t \in HttpThreads, NEW r \in Requests, NEW d \in ReplyDecisions,
     HandleReply(t, r, d) PROVE WokenAnswered'
  BY <1>16 DEF HandleReply, Decisions
<1>17. ASSUME NEW e \in edits, RunEdit(e) PROVE WokenAnswered'
  BY <1>17 DEF RunEdit
<1>18. ASSUME NEW f \in found, Resolve(f) PROVE WokenAnswered'
  BY <1>18 DEF Resolve, Decisions
<1>19. ASSUME NEW f \in found, NEW c \in Cards, HandleSnooze(f, c) PROVE WokenAnswered'
  BY <1>19 DEF HandleSnooze
<1>20. CASE Stop
  BY <1>20 DEF Stop
<1>21. CASE CloseServer
  BY <1>21 DEF CloseServer
<1>22. CASE DrainLoop
  BY <1>22 DEF DrainLoop
<1>23. CASE Exit
  BY <1>23 DEF Exit, Decisions
<1>24. CASE Tick
  BY <1>24 DEF Tick
<1>25. CASE UNCHANGED vars
  BY <1>25 DEF vars, Popped, Answered, Decisions, NoDecision, EventSet
<1> QED BY <1>1, <1>2, <1>3, <1>4, <1>5, <1>6, <1>7, <1>8, <1>9, <1>10, <1>11, <1>12,
     <1>13, <1>14, <1>15, <1>16, <1>17, <1>18, <1>19, <1>20, <1>21, <1>22, <1>23, <1>24,
     <1>25 DEF Next, HandlerStep, ActOnFound

(* One step keeps hook, handler and pending table together.                   *)
LEMMA LifeStep ==
  ASSUME TypeOK, WokenAnswered, LifeInv, Next \/ UNCHANGED vars PROVE LifeInv'
<1> USE DEF TypeOK, LifeInv, Active, NotWoken, WokenAnswered, hookVars, slotVars, chatVars,
     stopVars, history
<1>1. ASSUME NEW r \in Requests, HandleApproval(r) PROVE LifeInv'
  BY <1>1 DEF HandleApproval, Decisions, NoDecision, EventSet
<1>2. ASSUME NEW r \in Requests, HandleStored(r) PROVE LifeInv'
  BY <1>2 DEF HandleStored, Decisions, NoDecision, EventSet
<1>3. ASSUME NEW r \in Requests, SendGivenUp(r) PROVE LifeInv'
  BY <1>3 DEF SendGivenUp, Popped, Answered, Decisions, NoDecision, EventSet
<1>4. ASSUME NEW r \in Requests, CheckDeadline(r) PROVE LifeInv'
  BY <1>4 DEF CheckDeadline, Decisions, NoDecision, EventSet
<1>5. ASSUME NEW r \in Requests, WaitElapsed(r) PROVE LifeInv'
  BY <1>5 DEF WaitElapsed, EventSet
<1>6. ASSUME NEW r \in Requests, WakeUp(r) PROVE LifeInv'
  BY <1>6 DEF WakeUp, Decisions, EventSet
<1>7. ASSUME NEW r \in Requests, Finish(r) PROVE LifeInv'
  <2>1. answer[r] \in Decisions
    BY <1>7 DEF Finish
  <2>2. \A e \in edits' : e \in edits \/ e.req = r
    BY <1>7 DEF Finish
  <2> QED BY <1>7, <2>1, <2>2 DEF Finish, Popped, Answered, Decisions, EventSet
<1>8. ASSUME NEW r \in Requests, HookGivesUp(r) PROVE LifeInv'
  BY <1>8 DEF HookGivesUp, Answered, Decisions, NoDecision, EventSet
<1>9. ASSUME NEW r \in Requests, CancelOne(r) PROVE LifeInv'
  BY <1>9 DEF CancelOne, Decisions, NoDecision, EventSet
<1>10. ASSUME NEW r \in Requests, NEW c \in Cards, CardDelivered(r, c) PROVE LifeInv'
  BY <1>10 DEF CardDelivered, Decisions, NoDecision, EventSet
<1>11. ASSUME NEW r \in Requests, NEW c \in Cards, SendReturns(r, c) PROVE LifeInv'
  BY <1>11 DEF SendReturns, Decisions, NoDecision, EventSet
<1>12. ASSUME NEW r \in Requests, NEW c \in Cards, SendFails(r, c) PROVE LifeInv'
  BY <1>12 DEF SendFails, Decisions, NoDecision, EventSet
<1>13. ASSUME NEW r \in Requests, NEW c \in Cards, SnoozeRepost(r, c) PROVE LifeInv'
  BY <1>13 DEF SnoozeRepost, Decisions, NoDecision, EventSet
<1>14. ASSUME NEW r \in Requests, NEW c \in Cards, NEW a \in Buttons, Tap(r, c, a)
      PROVE LifeInv'
  BY <1>14 DEF Tap, Decisions, NoDecision, EventSet
<1>15. ASSUME NEW r \in Requests, NEW a \in Buttons, Dispatch(r, a) PROVE LifeInv'
  BY <1>15 DEF Dispatch, Decisions, NoDecision, EventSet
<1>16. ASSUME NEW t \in HttpThreads, NEW r \in Requests, NEW d \in ReplyDecisions,
     HandleReply(t, r, d) PROVE LifeInv'
  <2>1. hook[r] # "idle"
    BY <1>16 DEF HandleReply
  <2>2. \A f \in found' : f \in found \/ f.req = r
    BY <1>16 DEF HandleReply
  <2> QED BY <1>16, <2>1, <2>2 DEF HandleReply, EventSet
<1>17. ASSUME NEW e \in edits, RunEdit(e) PROVE LifeInv'
  <2>1. e.req \in Requests /\ e.card \in Cards /\ hook[e.req] # "idle"
    BY DEF Edit
  <2>2. ASSUME NEW r \in Requests, NEW c \in Cards, r # e.req
        PROVE  card'[r][c] = card[r][c]
    BY <1>17, <2>1, <2>2 DEF RunEdit
  <2>3. /\ \A d \in edits' : d \in edits
        /\ UNCHANGED <<hook, handler, pending, toCancel, response, post, found, taps, stop>>
    BY <1>17 DEF RunEdit
  <2>4. handler[e.req] # "none"
    BY <2>1
  <2> HIDE DEF TypeOK
  <2> QED BY <2>2, <2>3, <2>4 DEF EventSet
<1>18. ASSUME NEW f \in found, Resolve(f) PROVE LifeInv'
  <2>1. f.req \in Requests
    BY DEF Lookup
  <2>2. f.op \in SlotOps
    BY DEF Lookup
  <2>3. f.op # NoDecision
    BY <2>2 DEF SlotOps, Decisions, NoDecision
  <2> QED BY <1>18, <2>1, <2>3 DEF Resolve, EventSet
<1>19. ASSUME NEW f \in found, NEW c \in Cards, HandleSnooze(f, c) PROVE LifeInv'
  <2>1. f.req \in Requests /\ hook[f.req] # "idle"
    BY DEF Lookup
  <2>2. \A e \in edits' : e \in edits \/ e.req = f.req
    BY <1>19 DEF HandleSnooze
  <2>3. ASSUME NEW r \in Requests, r # f.req PROVE post'[r] = post[r]
    BY <1>19, <2>1, <2>3 DEF HandleSnooze
  <2> QED BY <1>19, <2>1, <2>2, <2>3 DEF HandleSnooze, EventSet
<1>20. CASE Stop
  BY <1>20 DEF Stop, Decisions, NoDecision, EventSet
<1>21. CASE CloseServer
  BY <1>21 DEF CloseServer, Decisions, NoDecision, EventSet
<1>22. CASE DrainLoop
  BY <1>22 DEF DrainLoop, Decisions, NoDecision, EventSet
<1>23. CASE Exit
  <2>1. ASSUME NEW r \in Requests
        PROVE  hook'[r] = IF hook[r] = "asking" THEN "reset" ELSE hook[r]
    BY <1>23 DEF Exit
  <2>2. /\ \A f \in found : f.req \in Requests
        /\ edits' = {} /\ taps' = {} /\ stop' # "up"
        /\ UNCHANGED <<handler, pending, toCancel, response, post, card, found>>
    BY <1>23 DEF Exit, Lookup
  <2> HIDE DEF TypeOK
  <2> QED BY <2>1, <2>2 DEF EventSet
<1>24. CASE Tick
  BY <1>24 DEF Tick, Decisions, NoDecision, EventSet
<1>25. CASE UNCHANGED vars
  BY <1>25 DEF vars, Popped, Answered, Decisions, NoDecision, EventSet
<1> QED BY <1>1, <1>2, <1>3, <1>4, <1>5, <1>6, <1>7, <1>8, <1>9, <1>10, <1>11, <1>12,
     <1>13, <1>14, <1>15, <1>16, <1>17, <1>18, <1>19, <1>20, <1>21, <1>22, <1>23, <1>24,
     <1>25 DEF Next, HandlerStep, ActOnFound

(* One step keeps every decision on its way backed by a vote.                 *)
LEMMA VoteStep ==
  ASSUME TypeOK, LifeInv, VoteInv, Next \/ UNCHANGED vars PROVE VoteInv'
<1> USE DEF TypeOK, LifeInv, VoteInv, Active, NotWoken, EventSet, hookVars, slotVars,
     chatVars, stopVars, history
<1>1. ASSUME NEW r \in Requests, HandleApproval(r) PROVE VoteInv'
  BY <1>1 DEF HandleApproval, Decisions
<1>2. ASSUME NEW r \in Requests, HandleStored(r) PROVE VoteInv'
  BY <1>2 DEF HandleStored
<1>3. ASSUME NEW r \in Requests, SendGivenUp(r) PROVE VoteInv'
  BY <1>3 DEF SendGivenUp, Popped, Answered, Decisions
<1>4. ASSUME NEW r \in Requests, CheckDeadline(r) PROVE VoteInv'
  <2>1. CASE left[r] = 0
    <3>1. r \notin inTime
      BY <1>4, <2>1 DEF CheckDeadline
    <3>2. /\ handler' = [handler EXCEPT ![r] = "woke"]
          /\ answer' = [answer EXCEPT ![r] = "timeout"]
          /\ UNCHANGED <<taps, votes, found, response, inTime, left>>
      BY <1>4, <2>1 DEF CheckDeadline
    <3> QED BY <3>1, <3>2
  <2>2. CASE left[r] # 0
    <3>1. /\ handler' = [handler EXCEPT ![r] = "blocked"]
          /\ handler[r] = "check"
          /\ UNCHANGED <<answer, taps, votes, found, response, inTime, left>>
      BY <1>4, <2>2 DEF CheckDeadline
    <3> QED BY <3>1
  <2> QED BY <2>1, <2>2
<1>5. ASSUME NEW r \in Requests, WaitElapsed(r) PROVE VoteInv'
  BY <1>5 DEF WaitElapsed
<1>6. ASSUME NEW r \in Requests, WakeUp(r) PROVE VoteInv'
  BY <1>6 DEF WakeUp, Decisions
<1>7. ASSUME NEW r \in Requests, Finish(r) PROVE VoteInv'
  BY <1>7 DEF Finish, Popped, Answered, Decisions
<1>8. ASSUME NEW r \in Requests, HookGivesUp(r) PROVE VoteInv'
  BY <1>8 DEF HookGivesUp, Answered, Decisions
<1>9. ASSUME NEW r \in Requests, CancelOne(r) PROVE VoteInv'
  BY <1>9 DEF CancelOne, Decisions, NoDecision
<1>10. ASSUME NEW r \in Requests, NEW c \in Cards, CardDelivered(r, c) PROVE VoteInv'
  BY <1>10 DEF CardDelivered
<1>11. ASSUME NEW r \in Requests, NEW c \in Cards, SendReturns(r, c) PROVE VoteInv'
  BY <1>11 DEF SendReturns
<1>12. ASSUME NEW r \in Requests, NEW c \in Cards, SendFails(r, c) PROVE VoteInv'
  BY <1>12 DEF SendFails
<1>13. ASSUME NEW r \in Requests, NEW c \in Cards, SnoozeRepost(r, c) PROVE VoteInv'
  BY <1>13 DEF SnoozeRepost
<1>14. ASSUME NEW r \in Requests, NEW c \in Cards, NEW a \in Buttons, Tap(r, c, a)
      PROVE VoteInv'
  BY <1>14 DEF Tap, Decisions
<1>15. ASSUME NEW r \in Requests, NEW a \in Buttons, Dispatch(r, a) PROVE VoteInv'
  BY <1>15 DEF Dispatch
<1>16. ASSUME NEW t \in HttpThreads, NEW r \in Requests, NEW d \in ReplyDecisions,
     HandleReply(t, r, d) PROVE VoteInv'
  BY <1>16 DEF HandleReply, Decisions
<1>17. ASSUME NEW e \in edits, RunEdit(e) PROVE VoteInv'
  BY <1>17 DEF RunEdit
<1>18. ASSUME NEW f \in found, Resolve(f) PROVE VoteInv'
  <2>1. f.req \in Requests /\ f.op \in votes[f.req] /\ f.op # NoDecision
    <3>1. f.req \in Requests /\ f.op \in SlotOps
      BY DEF Lookup
    <3>2. f.op \in votes[f.req]
      BY <1>18 DEF Resolve
    <3> QED BY <3>1, <3>2 DEF SlotOps, Decisions, NoDecision
  <2>2. /\ response' = [response EXCEPT ![f.req] = f.op]
        /\ inTime' \subseteq inTime \cup {f.req}
        /\ f.req \in inTime' \ inTime =>
             \/ handler[f.req] = "check" /\ left[f.req] > 1
             \/ handler[f.req] = "blocked" /\ left[f.req] > 0
        /\ found' \subseteq found
        /\ UNCHANGED <<taps, votes, answer, handler, left>>
    <3>1. inTime' = IF HeardInTime(f.req) THEN inTime \cup {f.req} ELSE inTime
      BY <1>18 DEF Resolve
    <3>2. HeardInTime(f.req) =>
            \/ handler[f.req] = "check" /\ left[f.req] > 1
            \/ handler[f.req] = "blocked" /\ left[f.req] > 0
      BY <2>1 DEF HeardInTime, Waiting
    <3> QED BY <1>18, <3>1, <3>2 DEF Resolve
  <2>3. ASSUME NEW r \in Requests, r \in inTime', r \notin inTime
        PROVE  answer[r] # "timeout"
    BY <2>2, <2>3 DEF NoDecision
  <2> QED BY <2>1, <2>2, <2>3
<1>19. ASSUME NEW f \in found, NEW c \in Cards, HandleSnooze(f, c) PROVE VoteInv'
  <2>1. f.req \in Requests /\ SnoozeSeconds + SnoozeBuffer \in Nat
    BY ConstantsAssumption DEF Lookup
  <2>2. \A r \in Requests : left'[r] >= left[r] /\ left'[r] \in Nat
    BY <1>19, <2>1 DEF HandleSnooze, Extended
  <2>3. found' \subseteq found /\ UNCHANGED <<taps, votes, response, answer, inTime,
       handler>>
    BY <1>19 DEF HandleSnooze
  <2> QED BY <2>2, <2>3
<1>20. CASE Stop
  BY <1>20 DEF Stop
<1>21. CASE CloseServer
  BY <1>21 DEF CloseServer
<1>22. CASE DrainLoop
  BY <1>22 DEF DrainLoop
<1>23. CASE Exit
  BY <1>23 DEF Exit, Decisions
<1>24. CASE Tick
  <2>1. ASSUME NEW r \in Requests, r \in inTime PROVE handler[r] \notin {"check", "blocked"}
    BY <1>24, <2>1 DEF Tick, Due
  <2>2. UNCHANGED <<taps, votes, found, response, answer, inTime, handler>>
    BY <1>24 DEF Tick
  <2> QED BY <2>1, <2>2
<1>25. CASE UNCHANGED vars
  BY <1>25 DEF vars, Popped, Answered, Decisions, NoDecision
<1> QED BY <1>1, <1>2, <1>3, <1>4, <1>5, <1>6, <1>7, <1>8, <1>9, <1>10, <1>11, <1>12,
     <1>13, <1>14, <1>15, <1>16, <1>17, <1>18, <1>19, <1>20, <1>21, <1>22, <1>23, <1>24,
     <1>25 DEF Next, HandlerStep, ActOnFound

(* One step keeps the status on a card, or on its way to it, the answer given. *)
LEMMA StatusStep ==
  ASSUME TypeOK, WokenAnswered, LifeInv, StatusInv, Next \/ UNCHANGED vars PROVE StatusInv'
<1> USE DEF TypeOK, LifeInv, StatusInv, CardTellsTheAnswer, Active, hookVars, slotVars,
     chatVars, stopVars, history
<1>1. ASSUME NEW r \in Requests, HandleApproval(r) PROVE StatusInv'
  BY <1>1 DEF HandleApproval, Decisions
<1>2. ASSUME NEW r \in Requests, HandleStored(r) PROVE StatusInv'
  BY <1>2 DEF HandleStored
<1>3. ASSUME NEW r \in Requests, SendGivenUp(r) PROVE StatusInv'
  BY <1>3 DEF SendGivenUp, Popped, Answered, Decisions
<1>4. ASSUME NEW r \in Requests, CheckDeadline(r) PROVE StatusInv'
  <2>1. \A q \in Requests : handler[q] = "done" =>
          handler'[q] = "done" /\ answer'[q] = answer[q]
    BY <1>4 DEF CheckDeadline
  <2>2. UNCHANGED <<hook, edits, card>>
    BY <1>4 DEF CheckDeadline
  <2>3. \A e \in edits : e.req \in Requests
    BY DEF Edit
  <2> QED BY <2>1, <2>2, <2>3
<1>5. ASSUME NEW r \in Requests, WaitElapsed(r) PROVE StatusInv'
  BY <1>5 DEF WaitElapsed
<1>6. ASSUME NEW r \in Requests, WakeUp(r) PROVE StatusInv'
  BY <1>6 DEF WakeUp, Decisions
<1>7. ASSUME NEW r \in Requests, Finish(r) PROVE StatusInv'
  BY <1>7 DEF Finish, Popped, Answered, Decisions
<1>8. ASSUME NEW r \in Requests, HookGivesUp(r) PROVE StatusInv'
  BY <1>8 DEF HookGivesUp, Answered, Decisions
<1>9. ASSUME NEW r \in Requests, CancelOne(r) PROVE StatusInv'
  BY <1>9 DEF CancelOne, Decisions
<1>10. ASSUME NEW r \in Requests, NEW c \in Cards, CardDelivered(r, c) PROVE StatusInv'
  BY <1>10 DEF CardDelivered, Decisions, NoDecision
<1>11. ASSUME NEW r \in Requests, NEW c \in Cards, SendReturns(r, c) PROVE StatusInv'
  BY <1>11 DEF SendReturns
<1>12. ASSUME NEW r \in Requests, NEW c \in Cards, SendFails(r, c) PROVE StatusInv'
  BY <1>12 DEF SendFails
<1>13. ASSUME NEW r \in Requests, NEW c \in Cards, SnoozeRepost(r, c) PROVE StatusInv'
  BY <1>13 DEF SnoozeRepost
<1>14. ASSUME NEW r \in Requests, NEW c \in Cards, NEW a \in Buttons, Tap(r, c, a)
      PROVE StatusInv'
  BY <1>14 DEF Tap, Decisions
<1>15. ASSUME NEW r \in Requests, NEW a \in Buttons, Dispatch(r, a) PROVE StatusInv'
  BY <1>15 DEF Dispatch
<1>16. ASSUME NEW t \in HttpThreads, NEW r \in Requests, NEW d \in ReplyDecisions,
     HandleReply(t, r, d) PROVE StatusInv'
  BY <1>16 DEF HandleReply, Decisions
<1>17. ASSUME NEW e \in edits, RunEdit(e) PROVE StatusInv'
  <2>1. e.req \in Requests /\ e.card \in Cards
    BY DEF Edit
  <2>2. ASSUME NEW r \in Requests, NEW c \in Cards
        PROVE  \/ card'[r][c] = card[r][c]
               \/ card'[r][c] = "stripped"
               \/ r = e.req /\ card'[r][c] = e.text
    <3>1. CASE card' = [card EXCEPT ![e.req][e.card] = e.text]
      BY <2>1, <3>1
    <3>2. CASE card' = [card EXCEPT ![e.req][e.card] = IF @ = "live" THEN "stripped" ELSE @]
      BY <2>1, <3>2
    <3> QED BY <1>17, <3>1, <3>2 DEF RunEdit
  <2>3. "stripped" \notin Decisions
    BY DEF Decisions
  <2>4. edits' \subseteq edits /\ UNCHANGED <<hook, handler, answer>>
    BY <1>17 DEF RunEdit
  <2> HIDE DEF TypeOK, LifeInv
  <2> QED BY <2>1, <2>2, <2>3, <2>4
<1>18. ASSUME NEW f \in found, Resolve(f) PROVE StatusInv'
  BY <1>18 DEF Resolve, Decisions
<1>19. ASSUME NEW f \in found, NEW c \in Cards, HandleSnooze(f, c) PROVE StatusInv'
  BY <1>19 DEF HandleSnooze, Decisions, NoDecision
<1>20. CASE Stop
  BY <1>20 DEF Stop
<1>21. CASE CloseServer
  BY <1>21 DEF CloseServer
<1>22. CASE DrainLoop
  BY <1>22 DEF DrainLoop
<1>23. CASE Exit
  BY <1>23 DEF Exit, Decisions
<1>24. CASE Tick
  BY <1>24 DEF Tick
<1>25. CASE UNCHANGED vars
  BY <1>25 DEF vars, Popped, Answered, Decisions, NoDecision
<1> QED BY <1>1, <1>2, <1>3, <1>4, <1>5, <1>6, <1>7, <1>8, <1>9, <1>10, <1>11, <1>12,
     <1>13, <1>14, <1>15, <1>16, <1>17, <1>18, <1>19, <1>20, <1>21, <1>22, <1>23, <1>24,
     <1>25 DEF Next, HandlerStep, ActOnFound

(* One step keeps the three timers of a request in order.                     *)
LEMMA TimeStep ==
  ASSUME TypeOK, LifeInv, TimeInv, Next \/ UNCHANGED vars PROVE TimeInv'
<1> USE ConstantsAssumption
<1> USE DEF TypeOK, LifeInv, TimeInv, Ordered, Active, NotWoken, SnoozesUsed, hookVars,
     slotVars, chatVars, stopVars, history
<1>1. ASSUME NEW r \in Requests, HandleApproval(r) PROVE TimeInv'
  BY <1>1 DEF HandleApproval, Decisions
<1>2. ASSUME NEW r \in Requests, HandleStored(r) PROVE TimeInv'
  BY <1>2 DEF HandleStored
<1>3. ASSUME NEW r \in Requests, SendGivenUp(r) PROVE TimeInv'
  BY <1>3 DEF SendGivenUp, Popped, Answered, Decisions
<1>4. ASSUME NEW r \in Requests, CheckDeadline(r) PROVE TimeInv'
  BY <1>4 DEF CheckDeadline, Decisions
<1>5. ASSUME NEW r \in Requests, WaitElapsed(r) PROVE TimeInv'
  BY <1>5 DEF WaitElapsed
<1>6. ASSUME NEW r \in Requests, WakeUp(r) PROVE TimeInv'
  BY <1>6 DEF WakeUp, Decisions
<1>7. ASSUME NEW r \in Requests, Finish(r) PROVE TimeInv'
  <2>1. answer[r] # "gaveUp"
    <3> HIDE ConstantsAssumption DEF TimeInv, LifeInv
    <3>1. answer[r] \in Decisions \cup {NoDecision}
      OBVIOUS
    <3> QED BY <3>1 DEF Decisions, NoDecision
  <2> QED BY <1>7, <2>1 DEF Finish, Popped, Answered
<1>8. ASSUME NEW r \in Requests, HookGivesUp(r) PROVE TimeInv'
  <2>1. SnoozesUsed(r) # {}
    <3> HIDE DEF SnoozesUsed
    <3>1. SnoozesUsed(r) = {} => age[r] <= ApprovalTimeout \/ age[r] <= SendTimeout
      BY <1>8 DEF HookGivesUp
    <3>2. age[r] = ApprovalTimeout + HookGrace
      BY <1>8 DEF HookGivesUp, HookPatience
    <3> HIDE DEF TypeOK, LifeInv, TimeInv
    <3> QED BY <3>1, <3>2
  <2>2. /\ \A q \in Requests \ {r} : hook'[q] = hook[q] /\ age'[q] = age[q]
        /\ hook'[r] = "gaveUp"
        /\ UNCHANGED <<handler, left, post, sleepLeft>>
    <3> HIDE ConstantsAssumption DEF LifeInv, TimeInv
    <3> QED BY <1>8 DEF HookGivesUp, Answered
  <2>3. ASSUME NEW q \in Requests PROVE SnoozesUsed(q)' = SnoozesUsed(q)
    BY <2>2
  <2> HIDE ConstantsAssumption DEF TypeOK, LifeInv, SnoozesUsed
  <2> QED BY <2>1, <2>2, <2>3
<1>9. ASSUME NEW r \in Requests, CancelOne(r) PROVE TimeInv'
  BY <1>9 DEF CancelOne, Decisions
<1>10. ASSUME NEW r \in Requests, NEW c \in Cards, CardDelivered(r, c) PROVE TimeInv'
  BY <1>10 DEF CardDelivered
<1>11. ASSUME NEW r \in Requests, NEW c \in Cards, SendReturns(r, c) PROVE TimeInv'
  BY <1>11 DEF SendReturns
<1>12. ASSUME NEW r \in Requests, NEW c \in Cards, SendFails(r, c) PROVE TimeInv'
  BY <1>12 DEF SendFails
<1>13. ASSUME NEW r \in Requests, NEW c \in Cards, SnoozeRepost(r, c) PROVE TimeInv'
  BY <1>13 DEF SnoozeRepost
<1>14. ASSUME NEW r \in Requests, NEW c \in Cards, NEW a \in Buttons, Tap(r, c, a)
      PROVE TimeInv'
  BY <1>14 DEF Tap, Decisions
<1>15. ASSUME NEW r \in Requests, NEW a \in Buttons, Dispatch(r, a) PROVE TimeInv'
  BY <1>15 DEF Dispatch
<1>16. ASSUME NEW t \in HttpThreads, NEW r \in Requests, NEW d \in ReplyDecisions,
     HandleReply(t, r, d) PROVE TimeInv'
  BY <1>16 DEF HandleReply, Decisions
<1>17. ASSUME NEW e \in edits, RunEdit(e) PROVE TimeInv'
  BY <1>17 DEF RunEdit
<1>18. ASSUME NEW f \in found, Resolve(f) PROVE TimeInv'
  BY <1>18 DEF Resolve, Decisions
<1>19. ASSUME NEW f \in found, NEW c \in Cards, HandleSnooze(f, c) PROVE TimeInv'
  <2>1. f.req \in Requests /\ hook[f.req] # "idle"
    BY DEF Lookup
  <2>2. ASSUME NEW r \in Requests, r # f.req
        PROVE  post'[r] = post[r] /\ left'[r] = left[r] /\ sleepLeft'[r] = sleepLeft[r]
    BY <1>19, <2>1, <2>2 DEF HandleSnooze
  <2>3. /\ post'[f.req][c] = "sleeping" /\ sleepLeft'[f.req][c] = SnoozeSeconds
        /\ left'[f.req] >= SnoozeSeconds + SnoozeBuffer /\ left'[f.req] >= left[f.req]
        /\ left'[f.req] \in Nat
    BY <1>19, <2>1 DEF HandleSnooze, Extended
  <2>4. ASSUME NEW k \in Cards, k # c
        PROVE  post'[f.req][k] = post[f.req][k] /\ sleepLeft'[f.req][k] = sleepLeft[f.req][k]
    BY <1>19, <2>1, <2>4 DEF HandleSnooze
  <2>5. c \in Cards \ {1} /\ UNCHANGED <<hook, age, handler>>
    BY <1>19 DEF HandleSnooze
  <2>6. SnoozesUsed(f.req)' # {}
    BY <2>1, <2>3, <2>5
  <2>7. ASSUME NEW k \in Cards, post'[f.req][k] = "sleeping", handler[f.req] \in NotWoken
        PROVE  left'[f.req] >= sleepLeft'[f.req][k] + SnoozeBuffer
    <3>1. CASE k = c
      BY <2>3, <3>1
    <3>2. CASE k # c
      <4>1. left[f.req] >= sleepLeft[f.req][k] + SnoozeBuffer
        BY <2>1, <2>4, <2>7, <3>2
      <4>2. left[f.req] \in Nat /\ sleepLeft[f.req][k] \in Nat
        BY <2>1
      <4> QED BY <2>3, <2>4, <3>2, <4>1, <4>2
    <3> QED BY <3>1, <3>2
  <2> QED BY <2>1, <2>2, <2>5, <2>6, <2>7
<1>20. CASE Stop
  BY <1>20 DEF Stop
<1>21. CASE CloseServer
  BY <1>21 DEF CloseServer
<1>22. CASE DrainLoop
  <2>1. ASSUME NEW r \in Requests, NEW c \in Cards
        PROVE  /\ post'[r][c] # "sleeping"
               /\ post'[r][c] = "none" <=> post[r][c] = "none"
    <3> HIDE ConstantsAssumption DEF LifeInv, TimeInv
    <3> QED BY <1>22 DEF DrainLoop
  <2>2. UNCHANGED <<hook, age, handler, left, sleepLeft>>
    BY <1>22 DEF DrainLoop
  <2>3. ASSUME NEW r \in Requests PROVE SnoozesUsed(r)' = SnoozesUsed(r)
    BY <2>1
  <2> HIDE DEF SnoozesUsed, LifeInv
  <2> QED BY <2>1, <2>2, <2>3
<1>23. CASE Exit
  BY <1>23 DEF Exit, Decisions
<1>24. CASE Tick
  <2> SUFFICES ASSUME NEW r \in Requests PROVE Ordered(r)'
    BY DEF TimeInv
  <2>1. Ordered(r) /\ ~Due(r) /\ UNCHANGED <<hook, handler, post>>
    BY <1>24 DEF Tick
  <2>2. /\ age'[r] = IF hook[r] = "asking" THEN age[r] + 1 ELSE age[r]
        /\ handler[r] \in NotWoken => left'[r] = Less(left[r])
        /\ \A c \in Cards : sleepLeft'[r][c] = Less(sleepLeft[r][c])
    BY <1>24 DEF Tick
  <2>3. /\ age[r] \in Nat /\ left[r] \in Nat
        /\ \A c \in Cards : sleepLeft[r][c] \in Nat
    BY PatienceNat
  <2>4. UNCHANGED SnoozesUsed(r)
    BY <2>1
  <2>5. hook[r] = "asking" => handler[r] \in Active
    OBVIOUS
  <2> HIDE DEF TypeOK, LifeInv, TimeInv, SnoozesUsed
  <2>6. ASSUME NEW c \in Cards, post[r][c] = "sleeping", handler[r] \in NotWoken
        PROVE  left'[r] >= sleepLeft'[r][c] + SnoozeBuffer
    <3>1. left[r] >= sleepLeft[r][c] + SnoozeBuffer /\ sleepLeft[r][c] # 0
      BY <2>1, <2>6 DEF Due
    <3> QED BY <2>2, <2>3, <2>6, <3>1 DEF Less
  <2>7. ASSUME SnoozesUsed(r) = {}, hook[r] = "asking"
        PROVE  /\ age'[r] <= ApprovalTimeout \/ age'[r] <= SendTimeout
               /\ handler[r] \in NotWoken =>
                    left'[r] = IF age'[r] < ApprovalTimeout THEN ApprovalTimeout - age'[r] ELSE 0
               /\ handler[r] = "sending" => age'[r] <= SendTimeout
    <3>1. handler[r] \in {"sending", "check", "blocked"}
      BY <2>1, <2>5, <2>7 DEF Due
    <3>2. handler[r] = "sending" => age[r] < SendTimeout
      BY <2>1, <2>3 DEF Due
    <3>3. handler[r] \in {"check", "blocked"} => left[r] # 0
      BY <2>1 DEF Due
    <3>4. left[r] = IF age[r] < ApprovalTimeout THEN ApprovalTimeout - age[r] ELSE 0
      BY <2>1, <2>7, <3>1
    <3> QED BY <2>2, <2>3, <2>7, <3>1, <3>2, <3>3, <3>4 DEF Less
  <2> QED BY <2>1, <2>2, <2>4, <2>6, <2>7
<1>25. CASE UNCHANGED vars
  BY <1>25 DEF vars, Popped, Answered, Decisions, NoDecision
<1> QED BY <1>1, <1>2, <1>3, <1>4, <1>5, <1>6, <1>7, <1>8, <1>9, <1>10, <1>11, <1>12,
     <1>13, <1>14, <1>15, <1>16, <1>17, <1>18, <1>19, <1>20, <1>21, <1>22, <1>23, <1>24,
     <1>25 DEF Next, HandlerStep, ActOnFound

-----------------------------------------------------------------------------
(* Theorems. *)

(* The initial states satisfy the invariant.                                  *)
LEMMA InitInv == Init => IInv
<1> SUFFICES ASSUME Init PROVE IInv
  OBVIOUS
<1> USE DEF Init
<1>1. TypeOK
  BY PatienceNat DEF TypeOK, HookStates, HandlerStates, NoDecision, PostStates, CardStates,
       StopStates
<1>2. WokenAnswered /\ LifeInv
  BY DEF WokenAnswered, LifeInv, Active, NotWoken
<1>3. VoteInv /\ StatusInv
  BY DEF VoteInv, StatusInv, CardTellsTheAnswer, Decisions, NotWoken
<1>4. TimeInv
  BY DEF TimeInv, Ordered, NotWoken
<1> QED BY <1>1, <1>2, <1>3, <1>4 DEF IInv

(* Every step of every execution keeps the invariant.                         *)
THEOREM Invariance == SafeSpec => []IInv
<1>1. IInv /\ [Next]_vars => IInv'
  BY TypeStep, WokenStep, LifeStep, VoteStep, StatusStep, TimeStep DEF IInv
<1> QED BY InitInv, <1>1, PTL DEF SafeSpec

(* Types: in particular a hook is only ever told a decision, never the absence *)
(* of one (approval_service.py:63-78, 120-168).                               *)
THEOREM TypeCorrect == SafeSpec => []TypeOK
<1>1. IInv => TypeOK
  BY DEF IInv
<1> QED BY Invariance, <1>1, PTL

(* The pending table and the handler threads never part                       *)
(* (approval_service.py:112-118, 126-153).                                    *)
THEOREM NoHandlerStranded == SafeSpec => []NobodyStranded
<1>1. IInv => NobodyStranded
  BY DEF IInv, LifeInv, NobodyStranded, Active, NotWoken
<1> QED BY Invariance, <1>1, PTL

(* A decision that arrives in time is not turned into a timeout by the order   *)
(* of the tests in wait() (approval_service.py:53-78).                        *)
THEOREM DecisionBeatsDeadline == SafeSpec => []InTimeDecisionWins
<1>1. IInv => InTimeDecisionWins
  BY DEF IInv, TypeOK, VoteInv, InTimeDecisionWins
<1> QED BY Invariance, <1>1, PTL

(* However snoozes overlap, a request outlives its re-post                    *)
(* (approval_service.py:57-61, 192).                                          *)
THEOREM RepostInTime == SafeSpec => []SnoozeOutlivesRepost
<1>1. IInv => SnoozeOutlivesRepost
  BY DEF IInv, TimeInv, Ordered, SnoozeOutlivesRepost, Waiting, NotWoken
<1> QED BY Invariance, <1>1, PTL

(* The hook of a request nobody snoozed gets an answer before it hangs up     *)
(* (bridge_approval.py:254-255, approval_service.py:134).                     *)
THEOREM UnsnoozedHookAnswered == SafeSpec => []OnlySnoozedHookGivesUp
<1>1. IInv => OnlySnoozedHookGivesUp
  BY DEF IInv, TimeInv, Ordered, OnlySnoozedHookGivesUp
<1> QED BY Invariance, <1>1, PTL

(* What a card says is what the handler answered (approval_service.py:155-168). *)
THEOREM StatusIsAnswer == SafeSpec => []CardTellsTheAnswer
<1>1. IInv => CardTellsTheAnswer
  BY DEF IInv, StatusInv
<1> QED BY Invariance, <1>1, PTL

-----------------------------------------------------------------------------
(* Refinement of HookVerdict. *)

(* Steps that touch neither the hook nor the votes are stuttering steps of it. *)
LEMMA Stutter == ASSUME UNCHANGED <<hook, votes>> PROVE UNCHANGED Verdict!vars
  BY DEF Verdict!vars, VerdictOf

(* A handler that answers d, backed by a vote or fail-safe, rules d, or its    *)
(* hook has gone and nothing changes for it.                                  *)
LEMMA AnswerRules ==
  ASSUME TypeOK, NEW r \in Requests, NEW d \in Decisions \cup {"gaveUp"},
         d \in votes[r] \cup {"ask", "timeout", "gaveUp"},
         Answered(r, d), UNCHANGED votes
  PROVE  Verdict!Next \/ UNCHANGED Verdict!vars
<1>1. CASE hook[r] = "asking"
  <2>1. VerdictOf[r] = "asked"
    BY <1>1 DEF VerdictOf
  <2>2. VerdictOf' = [VerdictOf EXCEPT ![r] = d]
    BY <1>1 DEF VerdictOf, Answered, TypeOK, Decisions
  <2>3. Verdict!Rule(r, d)
    BY <2>1, <2>2 DEF Verdict!Rule
  <2> QED BY <2>3 DEF Verdict!Next
<1>2. CASE hook[r] # "asking"
  <2>1. UNCHANGED hook
    BY <1>2 DEF Answered, TypeOK
  <2> QED BY <2>1, Stutter
<1> QED BY <1>1, <1>2

(* A vote is for a request that was asked.                                     *)
LEMMA VoteCounts ==
  ASSUME TypeOK, NEW r \in Requests, NEW d \in Decisions, hook[r] # "idle",
         votes' = [votes EXCEPT ![r] = @ \cup {d}], UNCHANGED hook
  PROVE  Verdict!Next
<1>1. VerdictOf[r] # "none" /\ UNCHANGED VerdictOf
  BY DEF VerdictOf, TypeOK, HookStates, HookOutcomes, Decisions
<1> QED BY <1>1 DEF Verdict!Next, Verdict!Vote

(* Every step of the service is a step of HookVerdict, or none.                *)
LEMMA VerdictStep ==
  ASSUME IInv, Next \/ UNCHANGED vars PROVE Verdict!Next \/ UNCHANGED Verdict!vars
<1> USE DEF IInv, hookVars, slotVars, chatVars, stopVars, history
<1>1. ASSUME NEW r \in Requests, HandleApproval(r)
      PROVE Verdict!Next \/ UNCHANGED Verdict!vars
  <2>1. VerdictOf[r] = "none" /\ VerdictOf' = [VerdictOf EXCEPT ![r] = "asked"]
    BY <1>1 DEF HandleApproval, VerdictOf, TypeOK
  <2>2. Verdict!Ask(r)
    BY <1>1, <2>1 DEF HandleApproval, Verdict!Ask
  <2> QED BY <2>2 DEF Verdict!Next
<1>2. ASSUME NEW r \in Requests, HandleStored(r)
      PROVE Verdict!Next \/ UNCHANGED Verdict!vars
  BY <1>2, Stutter DEF HandleStored
<1>3. ASSUME NEW r \in Requests, SendGivenUp(r) PROVE Verdict!Next \/ UNCHANGED Verdict!vars
  BY <1>3, AnswerRules DEF SendGivenUp, Decisions
<1>4. ASSUME NEW r \in Requests, CheckDeadline(r)
      PROVE Verdict!Next \/ UNCHANGED Verdict!vars
  BY <1>4, Stutter DEF CheckDeadline
<1>5. ASSUME NEW r \in Requests, WaitElapsed(r) PROVE Verdict!Next \/ UNCHANGED Verdict!vars
  BY <1>5, Stutter DEF WaitElapsed
<1>6. ASSUME NEW r \in Requests, WakeUp(r) PROVE Verdict!Next \/ UNCHANGED Verdict!vars
  BY <1>6, Stutter DEF WakeUp
<1>7. ASSUME NEW r \in Requests, Finish(r) PROVE Verdict!Next \/ UNCHANGED Verdict!vars
  <2>1. answer[r] \in Decisions /\ answer[r] \in votes[r] \cup {"ask", "timeout"}
    BY <1>7 DEF Finish, TypeOK, WokenAnswered, VoteInv
  <2> QED BY <1>7, <2>1, AnswerRules DEF Finish
<1>8. ASSUME NEW r \in Requests, HookGivesUp(r) PROVE Verdict!Next \/ UNCHANGED Verdict!vars
  BY <1>8, AnswerRules DEF HookGivesUp
<1>9. ASSUME NEW r \in Requests, CancelOne(r) PROVE Verdict!Next \/ UNCHANGED Verdict!vars
  BY <1>9, Stutter DEF CancelOne
<1>10. ASSUME NEW r \in Requests, NEW c \in Cards, CardDelivered(r, c)
      PROVE Verdict!Next \/ UNCHANGED Verdict!vars
  BY <1>10, Stutter DEF CardDelivered
<1>11. ASSUME NEW r \in Requests, NEW c \in Cards, SendReturns(r, c)
      PROVE Verdict!Next \/ UNCHANGED Verdict!vars
  BY <1>11, Stutter DEF SendReturns
<1>12. ASSUME NEW r \in Requests, NEW c \in Cards, SendFails(r, c)
      PROVE Verdict!Next \/ UNCHANGED Verdict!vars
  BY <1>12, Stutter DEF SendFails
<1>13. ASSUME NEW r \in Requests, NEW c \in Cards, SnoozeRepost(r, c)
      PROVE Verdict!Next \/ UNCHANGED Verdict!vars
  BY <1>13, Stutter DEF SnoozeRepost
<1>14. ASSUME NEW r \in Requests, NEW c \in Cards, NEW a \in Buttons, Tap(r, c, a)
      PROVE Verdict!Next \/ UNCHANGED Verdict!vars
  <2>1. hook[r] # "idle"
    BY <1>14 DEF Tap, TypeOK, LifeInv
  <2>2. CASE a = "snooze"
    BY <1>14, <2>2, Stutter DEF Tap
  <2>3. CASE a # "snooze"
    BY <1>14, <2>1, <2>3, ButtonDecision, VoteCounts DEF Tap
  <2> QED BY <2>2, <2>3
<1>15. ASSUME NEW r \in Requests, NEW a \in Buttons, Dispatch(r, a)
      PROVE Verdict!Next \/ UNCHANGED Verdict!vars
  BY <1>15, Stutter DEF Dispatch
<1>16. ASSUME NEW t \in HttpThreads, NEW r \in Requests, NEW d \in ReplyDecisions,
     HandleReply(t, r, d) PROVE Verdict!Next \/ UNCHANGED Verdict!vars
  <2>1. hook[r] # "idle" /\ d \in Decisions
    BY <1>16, ConstantsAssumption DEF HandleReply, TypeOK, LifeInv, Active
  <2> QED BY <1>16, <2>1, VoteCounts DEF HandleReply
<1>17. ASSUME NEW e \in edits, RunEdit(e) PROVE Verdict!Next \/ UNCHANGED Verdict!vars
  BY <1>17, Stutter DEF RunEdit
<1>18. ASSUME NEW f \in found, Resolve(f) PROVE Verdict!Next \/ UNCHANGED Verdict!vars
  BY <1>18, Stutter DEF Resolve
<1>19. ASSUME NEW f \in found, NEW c \in Cards, HandleSnooze(f, c)
      PROVE Verdict!Next \/ UNCHANGED Verdict!vars
  BY <1>19, Stutter DEF HandleSnooze
<1>20. CASE Stop
  BY <1>20, Stutter DEF Stop
<1>21. CASE CloseServer
  BY <1>21, Stutter DEF CloseServer
<1>22. CASE DrainLoop
  BY <1>22, Stutter DEF DrainLoop
<1>23. CASE Exit
  <2>1. VerdictOf' = [r \in Requests |-> IF VerdictOf[r] = "asked" THEN "reset" ELSE VerdictOf[r]]
    BY <1>23 DEF Exit, VerdictOf, TypeOK, HookStates, HookOutcomes, Decisions
  <2>2. Verdict!FallBackAll("reset")
    BY <1>23, <2>1 DEF Exit, Verdict!FallBackAll
  <2> QED BY <2>2 DEF Verdict!Next
<1>24. CASE Tick
  BY <1>24, Stutter DEF Tick
<1>25. CASE UNCHANGED vars
  BY <1>25, Stutter DEF vars
<1> QED BY <1>1, <1>2, <1>3, <1>4, <1>5, <1>6, <1>7, <1>8, <1>9, <1>10, <1>11, <1>12,
     <1>13, <1>14, <1>15, <1>16, <1>17, <1>18, <1>19, <1>20, <1>21, <1>22, <1>23, <1>24,
     <1>25 DEF Next, HandlerStep, ActOnFound

(* The service implements the safety part of HookVerdict: one verdict per hook, *)
(* backed by a vote for its own request, or fail-safe                          *)
(* (approval_service.py:120-168, bridge_approval.py:252-284).                  *)
THEOREM ImplementsVerdict == SafeSpec => VerdictSafe
<1>1. Init => Verdict!Init
  BY DEF Init, Verdict!Init, VerdictOf
<1>2. IInv /\ [Next]_vars => [Verdict!Next]_(Verdict!vars)
  BY VerdictStep
<1> QED BY Invariance, <1>1, <1>2, PTL DEF SafeSpec, VerdictSafe, Verdict!SafeSpec
-----------------------------------------------------------------------------
(* What HookVerdict promises a hook. *)

(* A verdict is a vote for this very request, or fail-safe.                   *)
VerdictBacked ==
  \A r \in Requests :
    VerdictOf[r] \in votes[r] \cup {"none", "asked", "ask", "timeout", "gaveUp", "reset"}

(* No hook is ever told an approval that nobody gave for its own request: not  *)
(* after a tap on an old card, a vote cast while another was on its way, two   *)
(* votes in either order, or a shutdown                                        *)
(* (approval_service.py:120-168, bridge_approval.py:252-284).                  *)
THEOREM VerdictsAreBacked == SafeSpec => []VerdictBacked
<1>1. Init => VerdictBacked
  BY DEF Init, VerdictBacked, VerdictOf
<1>2. TypeOK /\ VerdictBacked /\ [Verdict!Next]_(Verdict!vars) => VerdictBacked'
  <2> SUFFICES ASSUME TypeOK, VerdictBacked, [Verdict!Next]_(Verdict!vars) PROVE VerdictBacked'
    OBVIOUS
  <2>1. votes \in [Requests -> SUBSET Decisions] /\ DOMAIN VerdictOf = Requests
    BY DEF TypeOK, VerdictOf
  <2> HIDE DEF VerdictOf
  <2>2. ASSUME NEW r \in Requests, Verdict!Ask(r) PROVE VerdictBacked'
    BY <2>1, <2>2 DEF VerdictBacked, Verdict!Ask
  <2>3. ASSUME NEW r \in Requests, NEW d \in Decisions, Verdict!Vote(r, d) PROVE VerdictBacked'
    BY <2>1, <2>3 DEF VerdictBacked, Verdict!Vote
  <2>4. ASSUME NEW r \in Requests, NEW d, Verdict!Rule(r, d) PROVE VerdictBacked'
    BY <2>1, <2>4 DEF VerdictBacked, Verdict!Rule
  <2>5. ASSUME NEW d \in {"ask", "timeout", "gaveUp", "reset"}, Verdict!FallBackAll(d)
        PROVE  VerdictBacked'
    BY <2>1, <2>5 DEF VerdictBacked, Verdict!FallBackAll
  <2>6. CASE UNCHANGED Verdict!vars
    BY <2>6 DEF VerdictBacked, Verdict!vars
  <2> QED
    BY <2>2, <2>3, <2>4, <2>5, <2>6 DEF Verdict!Next
<1> QED
  BY <1>1, <1>2, ImplementsVerdict, TypeCorrect, PTL DEF SafeSpec, VerdictSafe, Verdict!SafeSpec

(* What a hook was told is not taken back, whatever reaches the daemon after   *)
(* it (approval_service.py:63-78, 155-168).                                    *)
THEOREM VerdictsAreFinal ==
  SafeSpec => [][\A r \in Requests : VerdictOf[r] \notin {"none", "asked"}
                                      => VerdictOf'[r] = VerdictOf[r]]_VerdictOf
<1>1. [Verdict!Next]_(Verdict!vars)
        => [\A r \in Requests : VerdictOf[r] \notin {"none", "asked"}
                               => VerdictOf'[r] = VerdictOf[r]]_VerdictOf
  <2> SUFFICES ASSUME [Verdict!Next]_(Verdict!vars), NEW r \in Requests,
                      VerdictOf[r] \notin {"none", "asked"}
               PROVE  VerdictOf'[r] = VerdictOf[r]
    OBVIOUS
  <2>1. DOMAIN VerdictOf = Requests
    BY DEF VerdictOf
  <2> HIDE DEF VerdictOf
  <2>2. ASSUME NEW q \in Requests, Verdict!Ask(q) PROVE VerdictOf'[r] = VerdictOf[r]
    BY <2>1, <2>2 DEF Verdict!Ask
  <2>3. ASSUME NEW q \in Requests, NEW d, Verdict!Rule(q, d) PROVE VerdictOf'[r] = VerdictOf[r]
    BY <2>1, <2>3 DEF Verdict!Rule
  <2>4. ASSUME NEW d, Verdict!FallBackAll(d) PROVE VerdictOf'[r] = VerdictOf[r]
    BY <2>4 DEF Verdict!FallBackAll
  <2> QED
    BY <2>2, <2>3, <2>4 DEF Verdict!Next, Verdict!Vote, Verdict!vars
<1> QED
  BY <1>1, ImplementsVerdict, PTL DEF VerdictSafe, Verdict!SafeSpec

=============================================================================
