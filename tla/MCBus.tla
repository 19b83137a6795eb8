------------------------------- MODULE MCBus -------------------------------
(* Small instances of BusSurface for TLC. *)
EXTENDS BusSurface

CONSTANTS p1, p2, n1, f1, i1, g1

MCKind == [m \in Messages |->
  CASE m \in {p1, p2} -> "proposal" [] m = n1 -> "note" [] m = f1 -> "forged"
    [] m = g1 -> "garbled" [] OTHER -> "info"]
MCProposer == [m \in Messages |-> "agent"]
=============================================================================
