---------------------------- MODULE RefreshStore ----------------------------
(***************************************************************************)
(* Sign-in of the community edition: opaque refresh tokens that are good    *)
(* for one exchange each (ce_web_auth.py).                                  *)
(*                                                                          *)
(* Every HTTP request has a thread.  The store's methods run under its      *)
(* lock, each a step here; the core manager is asked between them, and the  *)
(* users it knows may change there.  The records are in memory and, after   *)
(* every change, on disk: a temporary file replaces the old one, so that a  *)
(* save is done or not.  A save that raises comes after the change.         *)
(***************************************************************************)
EXTENDS Naturals, FiniteSets

CONSTANTS
  Requests,     \* threads of the HTTP server
  Users,
  None,
  MaxTokens,    \* bound: tokens minted
  MaxFails,     \* bound: saves that fail
  MaxRestarts   \* bound: restarts of the bridge

ASSUME RefreshAssumption ==
  /\ None \notin Users
  /\ MaxTokens \in Nat /\ MaxFails \in Nat /\ MaxRestarts \in Nat

\* Tokens are numbered as they are minted.  Their ttl is the same: they expire in order.
Tokens == 1..MaxTokens

VARIABLES
  mem,       \* tokens of _records
  disk,      \* tokens of the file
  minted,    \* tokens made so far
  owner,     \* token -> user of its record
  aged,      \* tokens up to this one have expired
  users,     \* users the core manager knows
  at,        \* request -> where it is
  who,       \* request -> the user it is for
  tok,       \* request -> the token it presents, or 0
  given,     \* tokens a client holds or has held
  fails,     \* saves that failed
  restarts,  \* restarts so far
  uses,      \* history: token -> exchanges answered with a new token on record
  refused    \* history: users whose refresh was refused, with no token made for them since

storeVars == <<mem, disk, minted, owner, fails>>
requestVars == <<at, who, tok>>
refreshVars == <<storeVars, aged, users, requestVars, given, restarts, uses, refused>>

RefreshTypeOK ==
  /\ mem \subseteq Tokens /\ disk \subseteq Tokens
  /\ minted \in 0..MaxTokens /\ aged \in 0..MaxTokens
  /\ owner \in [Tokens -> Users \cup {None}]
  /\ users \subseteq Users
  /\ at \in [Requests -> {"idle", "issue", "rotate", "session", "revoke"}]
  /\ who \in [Requests -> Users \cup {None}]
  /\ tok \in [Requests -> 0..MaxTokens]
  /\ given \subseteq Tokens
  /\ fails \in 0..MaxFails /\ restarts \in 0..MaxRestarts
  /\ uses \in [Tokens -> Nat]
  /\ refused \subseteq Users

RefreshInit ==
  /\ mem = {} /\ disk = {} /\ minted = 0 /\ aged = 0
  /\ owner = [t \in Tokens |-> None]
  /\ users = Users
  /\ at = [r \in Requests |-> "idle"]
  /\ who = [r \in Requests |-> None]
  /\ tok = [r \in Requests |-> 0]
  /\ given = {}
  /\ fails = 0 /\ restarts = 0
  /\ uses = [t \in Tokens |-> 0]
  /\ refused = {}

-----------------------------------------------------------------------------
(* The store. *)

\* _prune: what has expired is dropped, in memory alone.
Fresh(records) == {t \in records : t > aged}

\* _save, after the records became m ...
SaveDone(m) ==
  /\ mem' = m /\ disk' = m
  /\ UNCHANGED fails

\* ... and when it raises.
SaveRaises(m) ==
  /\ fails < MaxFails /\ fails' = fails + 1
  /\ mem' = m
  /\ UNCHANGED disk

\* The next token, and a record of it for user u.
Mint(u) ==
  /\ minted < MaxTokens
  /\ minted' = minted + 1
  /\ owner' = [owner EXCEPT ![minted'] = u]

Reply(r) ==
  /\ at' = [at EXCEPT ![r] = "idle"]
  /\ who' = [who EXCEPT ![r] = None]
  /\ tok' = [tok EXCEPT ![r] = 0]

-----------------------------------------------------------------------------
(* POST /api/auth/login. *)

\* The core manager verifies the password.
Login(r, u) ==
  /\ at[r] = "idle" /\ u \in users
  /\ at' = [at EXCEPT ![r] = "issue"] /\ who' = [who EXCEPT ![r] = u]
  /\ UNCHANGED <<storeVars, aged, users, tok, given, restarts, uses, refused>>

\* issue: the client gets the token, or a 500 if the save raised.
Issue(r) ==
  /\ at[r] = "issue"
  /\ Mint(who[r])
  /\ LET m == Fresh(mem) \cup {minted'}
     IN \/ SaveDone(m) /\ given' = given \cup {minted'}
        \/ SaveRaises(m) /\ UNCHANGED given
  /\ Reply(r)
  /\ refused' = refused \ {who[r]}
  /\ UNCHANGED <<aged, users, restarts, uses>>

-----------------------------------------------------------------------------
(* POST /api/auth/refresh. *)

\* A client presents a token it has, or had.
Present(r, t) ==
  /\ at[r] = "idle" /\ t \in given
  /\ at' = [at EXCEPT ![r] = "rotate"] /\ tok' = [tok EXCEPT ![r] = t]
  /\ UNCHANGED <<storeVars, aged, users, who, given, restarts, uses, refused>>

\* A token that is unknown, used or expired: 401.
RotateUnknown(r) ==
  /\ at[r] = "rotate" /\ tok[r] \notin Fresh(mem)
  /\ mem' = Fresh(mem)
  /\ Reply(r)
  /\ UNCHANGED <<disk, minted, owner, fails, aged, users, given, restarts, uses, refused>>

\* The clock passes between the two looks at it: 401, or 500 if the save raised.
RotateOverdue(r) ==
  /\ at[r] = "rotate" /\ tok[r] \in Fresh(mem)
  /\ aged' = tok[r]
  /\ LET m == Fresh(mem) \ {tok[r]} IN SaveDone(m) \/ SaveRaises(m)
  /\ Reply(r)
  /\ UNCHANGED <<minted, owner, users, given, restarts, uses, refused>>

\* Faulty: the record of the token presented stays.
RotateKept(r) ==
  /\ at[r] = "rotate" /\ tok[r] \in Fresh(mem)
  /\ LET t == tok[r]
     IN /\ Mint(owner[t])
        /\ LET m == Fresh(mem) \cup {minted'}
           IN /\ SaveDone(m)
              /\ at' = [at EXCEPT ![r] = "session"]
              /\ who' = [who EXCEPT ![r] = owner[t]]
              /\ tok' = [tok EXCEPT ![r] = minted']
              /\ uses' = [uses EXCEPT ![t] = @ + 1]
  /\ UNCHANGED <<aged, users, given, restarts, refused>>

\* consume_and_rotate: the record is replaced by one of a new token.  If the
\* save raises, the client gets a 500, and nobody the new token.
Rotate(r) ==
  /\ at[r] = "rotate" /\ tok[r] \in Fresh(mem)
  /\ LET t == tok[r]
     IN /\ Mint(owner[t])
        /\ LET m == (Fresh(mem) \ {t}) \cup {minted'}
           IN \/ /\ SaveDone(m)
                 /\ at' = [at EXCEPT ![r] = "session"]
                 /\ who' = [who EXCEPT ![r] = owner[t]]
                 /\ tok' = [tok EXCEPT ![r] = minted']
                 /\ uses' = [uses EXCEPT ![t] = @ + 1]
              \/ SaveRaises(m) /\ Reply(r) /\ UNCHANGED uses
  /\ UNCHANGED <<aged, users, given, restarts, refused>>

\* Faulty: the client is given the user's name for the token.
NewSessionUser(r) ==
  /\ at[r] = "session" /\ who[r] \in users
  /\ given' = given \cup {who[r]}
  /\ Reply(r)
  /\ UNCHANGED <<storeVars, aged, users, restarts, uses, refused>>

\* issue_session_token of the core manager: the user is known, and the client
\* gets both tokens ...
NewSession(r) ==
  /\ at[r] = "session" /\ who[r] \in users
  /\ given' = given \cup {tok[r]}
  /\ Reply(r)
  /\ UNCHANGED <<storeVars, aged, users, restarts, uses, refused>>

\* ... or it raises.
NoSession(r) ==
  /\ at[r] = "session" /\ who[r] \notin users
  /\ at' = [at EXCEPT ![r] = "revoke"]
  /\ UNCHANGED <<storeVars, aged, users, who, tok, given, restarts, uses, refused>>

\* Faulty: the token just made is revoked, and the user's others stay.
RevokeOne(r) ==
  /\ at[r] = "revoke"
  /\ LET m == mem \ {tok[r]} IN SaveDone(m) \/ SaveRaises(m)
  /\ Reply(r)
  /\ refused' = refused \cup {who[r]}
  /\ UNCHANGED <<minted, owner, aged, users, given, restarts, uses>>

\* revoke_user: all tokens of the user, then 401, or 500 if the save raised.
Revoke(r) ==
  /\ at[r] = "revoke"
  /\ LET m == {t \in mem : owner[t] # who[r]}
     IN IF m = mem THEN UNCHANGED <<mem, disk, fails>> ELSE SaveDone(m) \/ SaveRaises(m)
  /\ Reply(r)
  /\ refused' = refused \cup {who[r]}
  /\ UNCHANGED <<minted, owner, aged, users, given, restarts, uses>>

-----------------------------------------------------------------------------
(* The world. *)

\* Users are removed from the core manager, and may come back.
RemoveUser(u) ==
  /\ u \in users /\ users' = users \ {u}
  /\ UNCHANGED <<storeVars, aged, requestVars, given, restarts, uses, refused>>

RestoreUser(u) ==
  /\ u \notin users /\ users' = users \cup {u}
  /\ UNCHANGED <<storeVars, aged, requestVars, given, restarts, uses, refused>>

Tick ==
  /\ aged < minted /\ aged' = aged + 1
  /\ UNCHANGED <<storeVars, users, requestVars, given, restarts, uses, refused>>

\* A crash, and _load of the next process.
RefreshRestart ==
  /\ restarts < MaxRestarts /\ restarts' = restarts + 1
  /\ mem' = Fresh(disk)
  /\ at' = [r \in Requests |-> "idle"]
  /\ who' = [r \in Requests |-> None]
  /\ tok' = [r \in Requests |-> 0]
  /\ UNCHANGED <<disk, minted, owner, fails, aged, users, given, uses, refused>>

-----------------------------------------------------------------------------

RequestNext(r) ==
  \/ \E u \in Users : Login(r, u)
  \/ \E t \in Tokens : Present(r, t)
  \/ Issue(r) \/ RotateUnknown(r) \/ RotateOverdue(r) \/ Rotate(r)
  \/ NewSession(r) \/ NoSession(r) \/ Revoke(r)

RefreshNext ==
  \/ \E r \in Requests : RequestNext(r)
  \/ \E u \in Users : RemoveUser(u) \/ RestoreUser(u)
  \/ Tick \/ RefreshRestart

-----------------------------------------------------------------------------
(* Properties. *)

\* No token is exchanged twice, however many requests present it and whatever
\* becomes of the process (consume_and_rotate: "a replay of the same token
\* always fails").  After a failed save and a restart the same token may be
\* presented again: the first exchange then gave its client nothing.
TokenOnce == \A t \in Tokens : uses[t] <= 1

\* A user who has been refused has no token left, whatever requests were under
\* way, until a login is completed; only a failed save brings one back at a
\* restart (refresh: "a removed account can't keep rotating").
RemovedStaysOut ==
  \A t \in Fresh(mem) : owner[t] \in refused => fails > 0 /\ restarts > 0

=============================================================================
