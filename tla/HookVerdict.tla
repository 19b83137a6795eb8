----------------------------- MODULE HookVerdict -----------------------------
(***************************************************************************)
(* What the tool-approval bridge promises to a blocked hook, without        *)
(* saying how: a request that was asked gets one verdict, once, and the     *)
(* verdict is a vote that was cast for this very request or one of the      *)
(* fail-safe outcomes, which never let the tool run unattended.             *)
(* ApprovalService.tla is shown to implement this specification.            *)
(***************************************************************************)
CONSTANTS
  Requests,    \* the tool calls hooks ask about
  Votes,       \* the decisions a human, or POST /reply, can cast
  FailSafes    \* the outcomes reached without any vote

VARIABLES
  verdict,     \* request -> "none", "asked" or the outcome the hook got
  votes        \* request -> votes cast for it so far

vars == <<verdict, votes>>

Init ==
  /\ verdict = [r \in Requests |-> "none"]
  /\ votes = [r \in Requests |-> {}]

Ask(r) ==
  /\ verdict[r] = "none"
  /\ verdict' = [verdict EXCEPT ![r] = "asked"]
  /\ UNCHANGED votes

\* A vote may come after the verdict: a tap on a card that is still in the chat.
Vote(r, d) ==
  /\ verdict[r] # "none"
  /\ votes' = [votes EXCEPT ![r] = @ \cup {d}]
  /\ UNCHANGED verdict

Rule(r, d) ==
  /\ verdict[r] = "asked"
  /\ d \in votes[r] \cup FailSafes
  /\ verdict' = [verdict EXCEPT ![r] = d]
  /\ UNCHANGED votes

\* When the daemon goes away, every request still open falls back at once.
FallBackAll(d) ==
  /\ d \in FailSafes
  /\ verdict' = [r \in Requests |-> IF verdict[r] = "asked" THEN d ELSE verdict[r]]
  /\ UNCHANGED votes

Next ==
  \/ \E r \in Requests :
       \/ Ask(r)
       \/ \E d \in Votes : Vote(r, d)
       \/ \E d \in Votes \cup FailSafes : Rule(r, d)
  \/ \E d \in FailSafes : FallBackAll(d)

SafeSpec == Init /\ [][Next]_vars

\* No hook waits for ever: an asked request is eventually ruled on.
Ruled(r) ==
  /\ verdict[r] = "asked"
  /\ \/ \E d \in Votes \cup FailSafes : Rule(r, d)
     \/ \E d \in FailSafes : FallBackAll(d)

Spec == SafeSpec /\ \A r \in Requests : WF_vars(Ruled(r))
=============================================================================
