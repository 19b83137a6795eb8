----------------------------- MODULE MCSessions -----------------------------
(* Small instances of SessionSpawn for TLC. *)
EXTENDS SessionSpawn

CONSTANTS t1, t2, bridge, ann

MCHeader == [m \in Messages |->
  [type |-> "task-assignment", to |-> bridge, from |-> ann,
   line |-> bridge, note |-> "headless"]]
=============================================================================
