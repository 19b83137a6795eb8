---------------------------- MODULE SessionTable ----------------------------
(***************************************************************************)
(* What the session registry promises: at most one session holds the row    *)
(* of an addressee (an agent and the human it works for), a row is taken    *)
(* only when it is free, and a session that has given it up, or was too     *)
(* late for it, never gets it back (session_registry.py).                   *)
(***************************************************************************)
CONSTANTS
  Addressees,
  Sessions,
  Free          \* no session, and not one of Sessions

VARIABLES
  holder,       \* addressee -> the session of its row
  over          \* sessions that will hold no row any more

vars == <<holder, over>>

Init == /\ holder = [k \in Addressees |-> Free]
        /\ over = {}

Take(k, s) ==
  /\ holder[k] = Free /\ s \notin over
  /\ \A j \in Addressees : holder[j] # s
  /\ holder' = [holder EXCEPT ![k] = s]
  /\ UNCHANGED over

Miss(S) ==
  /\ \A j \in Addressees : holder[j] \notin S
  /\ over' = over \cup S
  /\ UNCHANGED holder

GiveUp(k) ==
  /\ holder[k] # Free
  /\ holder' = [holder EXCEPT ![k] = Free]
  /\ over' = over \cup {holder[k]}

Next ==
  \/ \E k \in Addressees, s \in Sessions : Take(k, s)
  \/ \E S \in SUBSET Sessions : Miss(S)
  \/ \E k \in Addressees : GiveUp(k)

Spec == Init /\ [][Next]_vars
=============================================================================
