----------------------------- MODULE MCApproval -----------------------------
(* Small instances of ApprovalService for TLC. *)
EXTENDS ApprovalService

=============================================================================
