------------------------------- MODULE SignIn -------------------------------
(***************************************************************************)
(* What a team member's HTTP requests reach: the refresh tokens of the      *)
(* community edition (RefreshStore), the browser login and the client       *)
(* registration of the enterprise edition (ClientRegistration), and the     *)
(* team's messages, which both editions have (TeamInbox).  Which edition it *)
(* is is decided by the packages installed (auth_stack.py, edition.py) and  *)
(* does not change.  The messages share nothing with the other two: a call  *)
(* is identified when it comes in, and not again.  So the three are         *)
(* explored one at a time.                                                  *)
(***************************************************************************)
EXTENDS RefreshStore, ClientRegistration, TeamInbox

CONSTANT Parts

VARIABLE part

vars == <<part, refreshVars, registrationVars, inboxVars>>

TypeOK ==
  /\ part \in Parts
  /\ RefreshTypeOK /\ RegistrationTypeOK /\ InboxTypeOK

Init == part \in Parts /\ RefreshInit /\ RegistrationInit /\ InboxInit

CommunityNext ==
  part = "refresh tokens" /\ RefreshNext /\ UNCHANGED <<part, registrationVars, inboxVars>>

EnterpriseNext ==
  part = "registration" /\ RegistrationNext /\ UNCHANGED <<part, refreshVars, inboxVars>>

MessagesNext ==
  part = "messages" /\ InboxNext /\ UNCHANGED <<part, refreshVars, registrationVars>>

Next == CommunityNext \/ EnterpriseNext \/ MessagesNext

Spec == Init /\ [][Next]_vars

-----------------------------------------------------------------------------

\* Nothing a client is handed to sign in with is good for two sign-ins: no
\* refresh token in the one edition, no login state in the other
\* (consume_and_rotate, PendingLoginStore.take).
UsedOnce == TokenOnce /\ StateOnce

\* What the message tools tell a member is so, and stays so.
ToolsTellTrue == SentIsKept /\ MarkedIsRead /\ ListingIsFull

=============================================================================
