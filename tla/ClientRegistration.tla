------------------------- MODULE ClientRegistration -------------------------
(***************************************************************************)
(* Dynamic client registration in front of an identity provider that has    *)
(* none (dcr_shim.py, routes_dcr.py, auth_stack.py).  A registration finds  *)
(* the provider's app by a name made of the request's fingerprint, or       *)
(* creates it; a sweep in a worker thread removes apps older than the ttl.  *)
(* Nothing is kept by the bridge: every step is a call to the provider,     *)
(* and other bridges, the sweep and an administrator come between.          *)
(*                                                                          *)
(* The provider is modelled from its use: names are unique (409), a call    *)
(* may fail before or after its effect.  Every call carries a token that is *)
(* kept until shortly before it expires.  With trust "protected",           *)
(* registering needs a session of WebLogin.                                 *)
(***************************************************************************)
EXTENDS WebLogin, Sequences, SequencesExt

CONSTANTS
  Registrations,  \* threads of POST /oauth/register
  Clients,        \* registration requests: software, redirects, method, grants, responses
  Protected,      \* registration_trust is "protected"
  MaxApps,        \* bound: apps created
  MaxMishaps      \* bound: calls that fail

ASSUME RegistrationAssumption ==
  /\ MaxApps \in Nat /\ MaxMishaps \in Nat
  /\ Protected \in BOOLEAN
  /\ \A q \in Clients : q.redirects \in Seq(ToSet(q.redirects))

-----------------------------------------------------------------------------
(* What is asked for. *)

\* _is_loopback_http_uri, of a URI as the record of its scheme, host and rest.
Loopback(u) == u.scheme = "http" /\ u.host \in {"localhost", "127.0.0.1"}

\* parse_register_request accepts it.
Valid(q) ==
  /\ q.redirects # <<>>
  /\ \A i \in DOMAIN q.redirects : Loopback(q.redirects[i])
  /\ q.method = "none"
  /\ q.grants # {} /\ q.grants \subseteq {"authorization_code", "refresh_token"}
  /\ q.responses = {"code"}

Times(u, uris) == Cardinality({i \in DOMAIN uris : uris[i] = u})

\* Faulty: the redirects in the order they came.
FingerprintUnsorted(q) == <<q.software, q.redirects>>

\* The order of the redirects makes no difference, how often one comes does.
Fingerprint(q) ==
  <<q.software, [u \in ToSet(q.redirects) |-> Times(u, q.redirects)]>>

\* The apps of the installation, of which app 0 stands for all, have no such name.
Bootstrap == 0
Apps == 0..MaxApps
BootstrapName == <<"otaman", <<>>>>

VARIABLES
  apps,      \* apps there are
  created,   \* apps made so far
  name,      \* app -> fingerprint in its name
  age,       \* app -> young, old, or undated if it says no date
  reg,       \* thread -> where it is and the request it handles
  doomed,    \* apps the sweep has yet to delete
  token,     \* the management token kept: none, good, or revoked by the provider
  mishaps,   \* calls that failed
  harmed,    \* history: threads that had a call fail, or their app removed
  answers,   \* history: requests answered with 201, and the app each was given
  away,      \* history: requests turned away for no such reason
  byHand     \* history: apps an administrator removed

regVars == <<apps, created, name, age, reg, doomed, token, mishaps, harmed, answers, away, byHand>>
providerVars == <<apps, created, name, age>>
registrationVars == <<loginVars, regVars>>

Idle == [at |-> "idle"]

RegistrationTypeOK ==
  /\ LoginTypeOK
  /\ apps \subseteq Apps /\ created \in 0..MaxApps
  /\ DOMAIN name = Apps
  /\ age \in [Apps -> {"young", "old", "undated"}]
  /\ reg \in [Registrations -> {Idle} \cup [at : {"find", "create", "again"}, q : Clients]]
  /\ doomed \subseteq Apps
  /\ token \in {"none", "good", "revoked"}
  /\ mishaps \in 0..MaxMishaps
  /\ harmed \subseteq Registrations
  /\ answers \subseteq Clients \X Apps
  /\ away \subseteq Clients /\ byHand \subseteq Apps

RegistrationInit ==
  /\ LoginInit
  /\ apps = {Bootstrap} /\ created = 0
  /\ name = [i \in Apps |-> BootstrapName]
  /\ age = [i \in Apps |-> IF i = Bootstrap THEN "old" ELSE "young"]
  /\ reg = [r \in Registrations |-> Idle]
  /\ doomed = {} /\ token = "none" /\ mishaps = 0
  /\ harmed = {} /\ answers = {} /\ away = {} /\ byHand = {}

-----------------------------------------------------------------------------
(* The provider. *)

Named(q) == {i \in apps : name[i] = Fingerprint(q)}

Mishap == mishaps < MaxMishaps /\ mishaps' = mishaps + 1

\* _get_access_token, and the call with it: a token is fetched if none is kept.
MgmtCall == token # "revoked" /\ token' = "good"

\* A call fails: on its way, or for a token that is revoked but not yet expired,
\* which no 401 makes the bridge drop.
MgmtFails ==
  \/ Mishap /\ UNCHANGED token
  \/ token = "revoked" /\ UNCHANGED <<token, mishaps>>

NewApp(q) ==
  /\ created < MaxApps
  /\ created' = created + 1
  /\ apps' = apps \cup {created'}
  /\ name' = [name EXCEPT ![created'] = Fingerprint(q)]
  /\ \E a \in {"young", "undated"} : age' = [age EXCEPT ![created'] = a]

\* Registrations that are about to look for app i once more.
Awaiting(i) == {r \in Registrations : reg[r].at = "again" /\ Fingerprint(reg[r].q) = name[i]}

Removed(i) == apps' = apps \ {i} /\ harmed' = harmed \cup Awaiting(i)

-----------------------------------------------------------------------------
(* POST /oauth/register. *)

Goto(r, l) == reg' = [reg EXCEPT ![r].at = l]

Created201(r, i) ==
  /\ reg' = [reg EXCEPT ![r] = Idle]
  /\ answers' = answers \cup {<<reg[r].q, i>>}
  /\ UNCHANGED away

BadGateway502(r) ==
  /\ reg' = [reg EXCEPT ![r] = Idle]
  /\ away' = IF r \in harmed THEN away ELSE away \cup {reg[r].q}
  /\ UNCHANGED answers

\* The gate: with trust "protected" a user is needed, here by the cookie of a
\* session.  An invalid request is answered 400.
Register(r, q) ==
  /\ reg[r] = Idle
  /\ IF Protected THEN \E s \in States : SignedIn(s) /\ Identify(s) ELSE UNCHANGED loginVars
  /\ Valid(q)
  /\ UNCHANGED token
  /\ reg' = [reg EXCEPT ![r] = [at |-> "find", q |-> q]]
  /\ harmed' = harmed \ {r}
  /\ UNCHANGED <<providerVars, doomed, mishaps, answers, away, byHand>>

\* A cookie of an old session: 401.
Challenge(s) ==
  /\ Protected /\ s \in sessions /\ ~SignedIn(s)
  /\ Identify(s)
  /\ UNCHANGED regVars

\* Any call may fail before its effect: 502.
RegisterFails(r) ==
  /\ reg[r] # Idle /\ MgmtFails
  /\ reg' = [reg EXCEPT ![r] = Idle]
  /\ UNCHANGED <<loginVars, providerVars, doomed, harmed, answers, away, byHand>>

\* find_app_by_name
Find(r) ==
  /\ reg[r].at = "find" /\ MgmtCall
  /\ \/ \E i \in Named(reg[r].q) : Created201(r, i)
     \/ Named(reg[r].q) = {} /\ Goto(r, "create") /\ UNCHANGED <<answers, away>>
  /\ UNCHANGED <<loginVars, providerVars, doomed, mishaps, harmed, byHand>>

\* create_oidc_app makes the app, and its answer comes or is lost ...
Create(r) ==
  /\ reg[r].at = "create" /\ Named(reg[r].q) = {} /\ MgmtCall
  /\ NewApp(reg[r].q)
  /\ \/ Created201(r, created') /\ UNCHANGED mishaps
     \/ Mishap /\ reg' = [reg EXCEPT ![r] = Idle] /\ UNCHANGED <<answers, away>>
  /\ UNCHANGED <<loginVars, doomed, harmed, byHand>>

\* Faulty: the 409 is passed on.
CreateConflictRaised(r) ==
  /\ reg[r].at = "create" /\ Named(reg[r].q) # {} /\ MgmtCall
  /\ BadGateway502(r)
  /\ UNCHANGED <<loginVars, providerVars, doomed, mishaps, harmed, byHand>>

\* ... or another registration was faster (409).
CreateConflict(r) ==
  /\ reg[r].at = "create" /\ Named(reg[r].q) # {} /\ MgmtCall
  /\ Goto(r, "again")
  /\ UNCHANGED <<loginVars, providerVars, doomed, mishaps, harmed, answers, away, byHand>>

\* The lookup after a 409: once, and if there is nothing the 409 is raised.
FindAgain(r) ==
  /\ reg[r].at = "again" /\ MgmtCall
  /\ \/ \E i \in Named(reg[r].q) : Created201(r, i)
     \/ Named(reg[r].q) = {} /\ BadGateway502(r)
  /\ UNCHANGED <<loginVars, providerVars, doomed, mishaps, harmed, byHand>>

-----------------------------------------------------------------------------
(* dcr_cleanup_sweep_loop: one sweep at a time. *)

\* is_managed_app.  The provider's search goes by the same prefix, and may be lax.
Managed(i) == name[i] # BootstrapName

\* Faulty: an app that says no date counts as old.
SweepUndated ==
  /\ doomed = {} /\ MgmtCall
  /\ doomed' = {i \in apps : Managed(i) /\ age[i] # "young"}
  /\ UNCHANGED <<loginVars, providerVars, reg, mishaps, harmed, answers, away, byHand>>

\* sweep_orphans lists the apps and chooses; if the list fails it ends.
SweepList ==
  /\ doomed = {} /\ MgmtCall
  /\ doomed' = {i \in apps : Managed(i) /\ age[i] = "old"}
  /\ UNCHANGED <<loginVars, providerVars, reg, mishaps, harmed, answers, away, byHand>>

\* delete_app: done, gone already (404), or failed with an error of the provider,
\* which does not end the sweep.  An answer that does not come in time does: the
\* TimeoutError is none of those, and the loop catches it only around the sweep.
SweepDelete(i) ==
  /\ i \in doomed
  /\ \/ MgmtCall /\ Removed(i) /\ doomed' = doomed \ {i} /\ UNCHANGED mishaps
     \/ MgmtFails /\ doomed' = doomed \ {i} /\ UNCHANGED <<apps, harmed>>
     \/ MgmtCall /\ Mishap /\ doomed' \in {{}, doomed \ {i}} /\ (Removed(i) \/ UNCHANGED <<apps, harmed>>)
  /\ UNCHANGED <<loginVars, created, name, age, reg, answers, away, byHand>>

-----------------------------------------------------------------------------
(* The world. *)

\* An app gets older than the ttl.
Ripen(i) ==
  /\ i \in apps /\ age[i] = "young"
  /\ age' = [age EXCEPT ![i] = "old"]
  /\ UNCHANGED <<loginVars, apps, created, name, reg, doomed, token, mishaps, harmed, answers, away, byHand>>

\* "sweep can race with manual deletes"
RemoveByHand(i) ==
  /\ i \in apps /\ i # Bootstrap
  /\ Removed(i) /\ byHand' = byHand \cup {i}
  /\ UNCHANGED <<loginVars, created, name, age, reg, doomed, token, mishaps, answers, away>>

\* The provider revokes the token the bridge keeps (the client secret is changed).
TokenRevoked ==
  /\ token = "good" /\ Mishap
  /\ token' = "revoked"
  /\ UNCHANGED <<loginVars, providerVars, reg, doomed, harmed, answers, away, byHand>>

\* The token kept comes within 30 seconds of its expiry, or past it.
TokenLapses ==
  /\ token # "none"
  /\ token' = "none"
  /\ UNCHANGED <<loginVars, providerVars, reg, doomed, mishaps, harmed, answers, away, byHand>>

\* The bridge is restarted: requests, the sweep and the token are gone.
RegistrationRestart ==
  /\ Mishap
  /\ LoginRestart
  /\ token' = "none"
  /\ reg' = [r \in Registrations |-> Idle] /\ doomed' = {}
  /\ UNCHANGED <<providerVars, harmed, answers, away, byHand>>

RegisterNext(r) ==
  \/ \E q \in Clients : Register(r, q)
  \/ Find(r) \/ Create(r) \/ CreateConflict(r) \/ FindAgain(r) \/ RegisterFails(r)

RegistrationNext ==
  \/ LoginNext /\ UNCHANGED regVars
  \/ \E s \in States : Challenge(s)
  \/ \E r \in Registrations : RegisterNext(r)
  \/ SweepList
  \/ \E i \in Apps : SweepDelete(i) \/ Ripen(i) \/ RemoveByHand(i)
  \/ TokenRevoked \/ TokenLapses \/ RegistrationRestart

-----------------------------------------------------------------------------
(* Properties. *)

\* Requests with the same software and redirects, in any order, are given the
\* same app, unless the first one's is gone (compute_fingerprint: "Same inputs
\* -> same fingerprint -> same app name -> fingerprint-reuse").
SameClient ==
  \A a, b \in answers :
    /\ a[1].software = b[1].software
    /\ \A u \in ToSet(a[1].redirects \o b[1].redirects) :
         Times(u, a[1].redirects) = Times(u, b[1].redirects)
    /\ {a[2], b[2]} \subseteq apps
    => a[2] = b[2]

\* An app a client was given stays until it is older than the ttl by its own
\* date, or is removed by hand, and the installation's own stay
\* (sweep_orphans: "must NEVER be swept").
ClientKept ==
  /\ Bootstrap \in apps
  /\ \A a \in answers : a[2] \in apps \cup byHand \/ age[a[2]] = "old"

\* A valid registration fails only if a call to the provider failed, or the
\* app was removed between the 409 and the second look.
RegisteredUnless == away = {}

=============================================================================
