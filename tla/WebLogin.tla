------------------------------ MODULE WebLogin ------------------------------
(***************************************************************************)
(* Browser sign-in of the enterprise edition: authorization code with PKCE  *)
(* (web_auth.py, web_session.py and the /auth routes of http_handler.py).   *)
(*                                                                          *)
(* A state is put by /auth/login, the browser comes back with it to         *)
(* /auth/callback, whose thread takes it, asks the identity provider        *)
(* without any lock, and makes a session.  Both stores are in memory.  A    *)
(* session is named by its state.  purge_expired has no caller.             *)
(***************************************************************************)
EXTENDS Naturals, FiniteSets

CONSTANTS
  Callbacks,   \* threads of /auth/callback
  MaxLogins    \* bound: logins started

ASSUME LoginAssumption == MaxLogins \in Nat

States == 1..MaxLogins

VARIABLES
  started,    \* states handed out so far
  pending,    \* states of PendingLoginStore
  sessions,   \* sessions of SessionStore
  overdue,    \* states and sessions whose ttl has passed, see Lapse
  callback,   \* thread -> the state it has taken, or 0
  sessionsOf  \* history: state -> sessions made with it

loginVars == <<started, pending, sessions, overdue, callback, sessionsOf>>

LoginTypeOK ==
  /\ started \in 0..MaxLogins
  /\ pending \subseteq States /\ sessions \subseteq States
  /\ overdue \subseteq {"login", "session"} \X States
  /\ callback \in [Callbacks -> 0..MaxLogins]
  /\ sessionsOf \in [States -> Nat]

LoginInit ==
  /\ started = 0 /\ pending = {} /\ sessions = {} /\ overdue = {}
  /\ callback = [c \in Callbacks |-> 0]
  /\ sessionsOf = [s \in States |-> 0]

\* LoginFlow.start
StartLogin ==
  /\ started < MaxLogins
  /\ started' = started + 1
  /\ pending' = pending \cup {started'}
  /\ UNCHANGED <<sessions, overdue, callback, sessionsOf>>

\* Faulty: the state is looked up, and left in the store.
TakeKept(c, s) ==
  /\ callback[c] = 0 /\ s \in 1..started
  /\ callback' = [callback EXCEPT ![c] = IF s \in pending THEN s ELSE 0]
  /\ UNCHANGED <<started, pending, sessions, overdue, sessionsOf>>

\* take: the state is popped even if it is too old (400).  A browser may come
\* back with any state, more than once.
Take(c, s) ==
  /\ callback[c] = 0 /\ s \in 1..started
  /\ pending' = pending \ {s}
  /\ callback' = [callback EXCEPT
       ![c] = IF s \in pending /\ <<"login", s>> \notin overdue THEN s ELSE 0]
  /\ UNCHANGED <<started, sessions, overdue, sessionsOf>>

\* The provider gives a valid id token, and the session is made ...
Complete(c) ==
  /\ callback[c] # 0
  /\ sessions' = sessions \cup {callback[c]}
  /\ sessionsOf' = [sessionsOf EXCEPT ![callback[c]] = @ + 1]
  /\ callback' = [callback EXCEPT ![c] = 0]
  /\ UNCHANGED <<started, pending, overdue>>

\* ... or anything fails on the way (400 or 502): the state is used up.
CompleteFails(c) ==
  /\ callback[c] # 0
  /\ callback' = [callback EXCEPT ![c] = 0]
  /\ UNCHANGED <<started, pending, sessions, overdue, sessionsOf>>

\* POST /auth/logout with the cookie of s.
Logout(s) ==
  /\ s \in sessions
  /\ sessions' = sessions \ {s}
  /\ UNCHANGED <<started, pending, overdue, callback, sessionsOf>>

Lapse(s) ==
  /\ \/ s \in pending /\ overdue' = overdue \cup {<<"login", s>>}
     \/ s \in sessions /\ overdue' = overdue \cup {<<"session", s>>}
  /\ UNCHANGED <<started, pending, sessions, callback, sessionsOf>>

\* identify, given the cookie of s: SessionStore.get drops an old session.
SignedIn(s) == s \in sessions /\ <<"session", s>> \notin overdue

Identify(s) ==
  /\ sessions' = IF SignedIn(s) THEN sessions ELSE sessions \ {s}
  /\ UNCHANGED <<started, pending, overdue, callback, sessionsOf>>

\* A restart: both stores begin empty.
LoginRestart ==
  /\ pending' = {} /\ sessions' = {}
  /\ callback' = [c \in Callbacks |-> 0]
  /\ UNCHANGED <<started, overdue, sessionsOf>>

LoginNext ==
  \/ StartLogin
  \/ \E s \in States : Logout(s) \/ Lapse(s) \/ \E c \in Callbacks : Take(c, s)
  \/ \E c \in Callbacks : Complete(c) \/ CompleteFails(c)

-----------------------------------------------------------------------------

\* A state makes one session at most, whatever two callbacks with it do
\* between take and create (PendingLoginStore: "can never be replayed").
StateOnce == \A s \in States : sessionsOf[s] <= 1

=============================================================================
