------------------------------ MODULE MCPmSync ------------------------------
(* A small instance of PmSync for TLC. *)
EXTENDS PmSync

CONSTANTS login, oauth

\* A change is approved, worked on and finished, and another one approved:
\* its name is contained in the title of the first one's issue.
MCType == <<"spec-change-approved", "task-assignment", "task-complete", "spec-change-approved">>
MCChange == <<login, login, login, oauth>>
MCLike == [c \in Changes |-> IF c = login THEN {login} ELSE Changes]
=============================================================================
