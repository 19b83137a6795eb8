----------------------------- MODULE DecisionLog -----------------------------
(***************************************************************************)
(* What the bus surface promises to the human and to the agents, without    *)
(* saying how: a decision is a tap on a card that was shown, made while the *)
(* message was open; a tap rules once; and what the agents are told is the  *)
(* human's last word, told once and with the message closed by it.          *)
(* BusSurface.tla is shown to implement this specification.                 *)
(***************************************************************************)
CONSTANTS
  Messages,
  Proposals,   \* messages that wait for a verdict
  Notes,       \* messages that are acknowledged at most
  Actions,     \* what the human can do with a card
  Buttons,     \* those of them that decide
  Verdict,     \* button -> the verdict it stands for
  None         \* no word, and no verdict

VARIABLES
  shown,       \* messages with a card in the chat
  taps,        \* <<message, what the human did>>, on their way
  open,        \* messages that may be decided
  word,        \* message -> what the human last said
  ruling,      \* the decision that agents are about to be told
  told         \* the decisions agents were told

vars == <<shown, taps, open, word, ruling, told>>

Init ==
  /\ shown = {} /\ taps = {} /\ open = {} /\ ruling = {} /\ told = {}
  /\ word = [m \in Messages |-> None]

Show(m) ==
  /\ shown' = shown \cup {m}
  /\ UNCHANGED <<taps, open, word, ruling, told>>

Open(m) ==
  /\ m \in Proposals \cup Notes
  /\ open' = open \cup {m}
  /\ UNCHANGED <<shown, taps, word, ruling, told>>

\* A card that could not be sent leaves nothing to decide.
Close(m) ==
  /\ ruling = {}
  /\ open' = open \ {m}
  /\ UNCHANGED <<shown, taps, word, ruling, told>>

Tap(t) ==
  /\ t[1] \in shown
  /\ taps' = taps \cup {t}
  /\ UNCHANGED <<shown, open, word, ruling, told>>

\* A tap that decides nothing.
Drop(t) ==
  /\ taps' = taps \ {t}
  /\ UNCHANGED <<shown, open, word, ruling, told>>

Acknowledge(m, b) ==
  /\ m \in open \cap Notes /\ <<m, b>> \in taps
  /\ taps' = taps \ {<<m, b>>} /\ open' = open \ {m}
  /\ word' = [word EXCEPT ![m] = "acknowledged"]
  /\ UNCHANGED <<shown, ruling, told>>

\* The word could not be put down, and the one before it is lost: the message is
\* still open.
LoseWord(m, b) ==
  /\ m \in open /\ <<m, b>> \in taps
  /\ taps' = taps \ {<<m, b>>}
  /\ word' = [word EXCEPT ![m] = None]
  /\ UNCHANGED <<shown, open, ruling, told>>

Rule(m, b) ==
  /\ m \in open \cap Proposals /\ <<m, b>> \in taps /\ ruling = {}
  /\ taps' = taps \ {<<m, b>>}
  /\ word' = [word EXCEPT ![m] = Verdict[b]]
  /\ ruling' = {[about |-> m, what |-> Verdict[b]]}
  /\ UNCHANGED <<shown, open, told>>

Tell(d) ==
  /\ d \in ruling /\ d.about \in open /\ word[d.about] = d.what
  /\ told' = told \cup {d}
  /\ ruling' = {} /\ open' = open \ {d.about}
  /\ UNCHANGED <<shown, taps, word>>

\* The agents could not be told: the message is still open.
Fail ==
  /\ ruling' = {}
  /\ UNCHANGED <<shown, taps, open, word, told>>

\* A restart.  What was decided, shown and told stays.
Forget ==
  /\ taps' = {} /\ open' = {} /\ ruling' = {}
  /\ UNCHANGED <<shown, word, told>>

Next ==
  \/ \E m \in Messages : Show(m) \/ Open(m) \/ Close(m)
  \/ \E t \in Messages \X Actions : Tap(t) \/ Drop(t)
  \/ \E m \in Messages, b \in Buttons : Acknowledge(m, b) \/ LoseWord(m, b) \/ Rule(m, b)
  \/ \E d \in ruling : Tell(d)
  \/ Fail \/ Forget

Spec == Init /\ [][Next]_vars
=============================================================================
