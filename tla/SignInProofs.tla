---------------------------- MODULE SignInProofs ----------------------------
(***************************************************************************)
(* Proofs about SignIn, for any requests, users, callbacks, clients, calls  *)
(* and bounds: the refresh tokens, the login states and the registration    *)
(* here (one app for one client, which stays, and no registration that      *)
(* fails without a cause), the messages in InboxProofs.                     *)
(***************************************************************************)
EXTENDS SignIn, InboxProofs, FiniteSetTheorems, TLAPS

-----------------------------------------------------------------------------
(* Refresh tokens: the inductive invariant. *)

\* Requests are for users, and tokens on record have owners.
RequestOk(r) ==
  /\ at[r] \in {"issue", "session", "revoke"} => who[r] \in Users
  /\ at[r] = "session" => tok[r] \in Tokens

RequestInv ==
  /\ \A t \in mem \cup disk : owner[t] \in Users
  /\ \A r \in Requests : RequestOk(r)

\* A token on record, in memory or on disk, has not been exchanged.
OnceInv ==
  /\ \A t \in mem \cup disk : t <= minted /\ uses[t] = 0
  /\ \A t \in Tokens : t > minted => uses[t] = 0
  /\ TokenOnce

\* A restart finds what memory holds, unless a save failed.
OutInv ==
  /\ fails = 0 => Fresh(disk) = Fresh(mem)
  /\ RemovedStaysOut

RefreshInv == RefreshTypeOK /\ RequestInv /\ OnceInv /\ OutInv

\* A token just minted is new.
LEMMA MintNew ==
  ASSUME RefreshTypeOK, NEW u, Mint(u)
  PROVE  /\ minted' \in Tokens /\ minted' = minted + 1 /\ minted \in Nat
         /\ minted' \in 0..MaxTokens
         /\ owner' = [owner EXCEPT ![minted'] = u]
  BY RefreshAssumption DEF RefreshTypeOK, Mint, Tokens

LEMMA RefreshInitInv == RefreshInit => RefreshInv
<1> SUFFICES ASSUME RefreshInit PROVE RefreshInv
  OBVIOUS
<1>1. RefreshTypeOK
  BY RefreshAssumption DEF RefreshInit, RefreshTypeOK
<1>2. RequestInv
  BY DEF RefreshInit, RequestInv, RequestOk
<1>3. OnceInv
  BY DEF RefreshInit, OnceInv, TokenOnce
<1>4. OutInv
  BY DEF RefreshInit, OutInv, RemovedStaysOut, Fresh
<1> QED
  BY <1>1, <1>2, <1>3, <1>4 DEF RefreshInv

\* What a step of one request, or of the world, leaves well typed.
LEMMA RefreshTypeStep ==
  ASSUME RefreshTypeOK, RequestInv, RefreshNext
  PROVE  RefreshTypeOK'
<1> USE RefreshAssumption
<1>1. ASSUME NEW r \in Requests, NEW u \in Users, Login(r, u) PROVE RefreshTypeOK'
  BY <1>1 DEF Login, RefreshTypeOK, storeVars
<1>2. ASSUME NEW r \in Requests, NEW t \in Tokens, Present(r, t) PROVE RefreshTypeOK'
  BY <1>2 DEF Present, RefreshTypeOK, storeVars, Tokens
<1>3. ASSUME NEW r \in Requests, Issue(r) PROVE RefreshTypeOK'
  <2>1. Mint(who[r])
    BY <1>3 DEF Issue
  <2>2. Fresh(mem) \cup {minted'} \subseteq Tokens
    BY <2>1, MintNew DEF RefreshTypeOK, Fresh
  <2>3. mem' \subseteq Tokens /\ disk' \subseteq Tokens
        /\ fails' \in 0..MaxFails /\ given' \subseteq Tokens
    BY <1>3, <2>1, <2>2, MintNew DEF Issue, SaveDone, SaveRaises, RefreshTypeOK
  <2>4. who[r] \in Users
    BY <1>3 DEF Issue, RequestInv, RequestOk
  <2>5. owner' \in [Tokens -> Users \cup {None}] /\ minted' \in 0..MaxTokens
    BY <2>1, <2>4, MintNew DEF RefreshTypeOK
  <2>6. at' \in [Requests -> {"idle", "issue", "rotate", "session", "revoke"}]
        /\ who' \in [Requests -> Users \cup {None}] /\ tok' \in [Requests -> 0..MaxTokens]
    BY <1>3 DEF Issue, Reply, RefreshTypeOK
  <2>7. refused' \subseteq Users /\ UNCHANGED <<aged, users, restarts, uses>>
    BY <1>3 DEF Issue, RefreshTypeOK
  <2> QED
    BY <2>3, <2>5, <2>6, <2>7 DEF RefreshTypeOK
<1>4. ASSUME NEW r \in Requests, RotateUnknown(r) PROVE RefreshTypeOK'
  BY <1>4 DEF RotateUnknown, Reply, Fresh, RefreshTypeOK
<1>5. ASSUME NEW r \in Requests, RotateOverdue(r) PROVE RefreshTypeOK'
  <2> DEFINE m == Fresh(mem) \ {tok[r]}
  <2>1. m \subseteq Tokens /\ aged' \in 0..MaxTokens
    BY <1>5 DEF RotateOverdue, RefreshTypeOK, Fresh
  <2>2. mem' \subseteq Tokens /\ disk' \subseteq Tokens /\ fails' \in 0..MaxFails
    BY <1>5, <2>1 DEF RotateOverdue, SaveDone, SaveRaises, RefreshTypeOK
  <2> QED
    BY <1>5, <2>1, <2>2 DEF RotateOverdue, Reply, RefreshTypeOK
<1>6. ASSUME NEW r \in Requests, Rotate(r) PROVE RefreshTypeOK'
  <2> DEFINE t == tok[r]
             m == (Fresh(mem) \ {t}) \cup {minted'}
  <2>1. t \in Tokens /\ owner[t] \in Users /\ Mint(owner[t])
    BY <1>6 DEF Rotate, Fresh, RefreshTypeOK, RequestInv, RequestOk
  <2>2. m \subseteq Tokens
    BY <2>1, MintNew DEF RefreshTypeOK, Fresh
  <2>3. owner' \in [Tokens -> Users \cup {None}] /\ minted' \in 0..MaxTokens
    BY <2>1, MintNew DEF RefreshTypeOK
  <2>4. CASE /\ SaveDone(m)
             /\ at' = [at EXCEPT ![r] = "session"]
             /\ who' = [who EXCEPT ![r] = owner[t]]
             /\ tok' = [tok EXCEPT ![r] = minted']
             /\ uses' = [uses EXCEPT ![t] = @ + 1]
    <3>1. mem' \subseteq Tokens /\ disk' \subseteq Tokens /\ fails' \in 0..MaxFails
      BY <2>2, <2>4 DEF SaveDone, RefreshTypeOK
    <3>2. uses' \in [Tokens -> Nat]
      BY <2>1, <2>4 DEF RefreshTypeOK
    <3>3. at' \in [Requests -> {"idle", "issue", "rotate", "session", "revoke"}]
          /\ who' \in [Requests -> Users \cup {None}] /\ tok' \in [Requests -> 0..MaxTokens]
      BY <2>1, <2>3, <2>4 DEF RefreshTypeOK
    <3> QED
      BY <1>6, <2>3, <3>1, <3>2, <3>3 DEF Rotate, RefreshTypeOK
  <2>5. CASE SaveRaises(m) /\ Reply(r) /\ UNCHANGED uses
    <3>1. mem' \subseteq Tokens /\ disk' \subseteq Tokens /\ fails' \in 0..MaxFails
      BY <2>2, <2>5 DEF SaveRaises, RefreshTypeOK
    <3> QED
      BY <1>6, <2>3, <2>5, <3>1 DEF Rotate, Reply, RefreshTypeOK
  <2> QED
    BY <1>6, <2>4, <2>5 DEF Rotate
<1>7. ASSUME NEW r \in Requests, NewSession(r) PROVE RefreshTypeOK'
  BY <1>7 DEF NewSession, Reply, RefreshTypeOK, RequestInv, RequestOk, storeVars
<1>8. ASSUME NEW r \in Requests, NoSession(r) PROVE RefreshTypeOK'
  BY <1>8 DEF NoSession, RefreshTypeOK, storeVars
<1>9. ASSUME NEW r \in Requests, Revoke(r) PROVE RefreshTypeOK'
  <2>1. who[r] \in Users
    BY <1>9 DEF Revoke, RequestInv, RequestOk
  <2> QED
    BY <1>9, <2>1 DEF Revoke, Reply, SaveDone, SaveRaises, RefreshTypeOK
<1>10. ASSUME NEW u \in Users, RemoveUser(u) \/ RestoreUser(u) PROVE RefreshTypeOK'
  BY <1>10 DEF RemoveUser, RestoreUser, RefreshTypeOK, storeVars, requestVars
<1>11. CASE Tick
  BY <1>11 DEF Tick, RefreshTypeOK, storeVars, requestVars
<1>12. CASE RefreshRestart
  BY <1>12 DEF RefreshRestart, Fresh, RefreshTypeOK
<1> QED
  BY <1>1, <1>2, <1>3, <1>4, <1>5, <1>6, <1>7, <1>8, <1>9, <1>10, <1>11, <1>12
  DEF RefreshNext, RequestNext

\* Every token of the store after a step was in it, in memory or on disk, or is
\* the one just minted; the others keep their owners and their uses, but for the
\* one a rotation takes out of both.
StoreStep ==
  /\ mem' \cup disk' \subseteq mem \cup disk \cup {minted'}
  /\ \A t \in mem \cup disk : owner'[t] = owner[t]
  /\ \A t \in mem' \cup disk' : t \in Tokens
  /\ \/ minted' = minted /\ mem' \cup disk' \subseteq mem \cup disk
     \/ minted' = minted + 1 /\ minted' \in Tokens /\ owner'[minted'] \in Users

LEMMA MintStore ==
  ASSUME RefreshTypeOK, RequestInv, OnceInv, NEW u \in Users, Mint(u),
         NEW m, m \subseteq Fresh(mem) \cup {minted'}, SaveDone(m) \/ SaveRaises(m)
  PROVE  StoreStep
<1>1. \A t \in mem \cup disk : t \in Tokens /\ t # minted'
  BY MintNew DEF RefreshTypeOK, OnceInv, Tokens
<1>2. owner' = [owner EXCEPT ![minted'] = u] /\ minted' \in Tokens /\ minted' = minted + 1
  BY MintNew
<1>3. mem' \cup disk' \subseteq mem \cup disk \cup {minted'}
  BY DEF SaveDone, SaveRaises, Fresh
<1>4. owner'[minted'] = u /\ \A t \in mem \cup disk : owner'[t] = owner[t]
  BY <1>1, <1>2 DEF RefreshTypeOK
<1> QED
  BY <1>1, <1>2, <1>3, <1>4 DEF StoreStep

LEMMA RefreshStoreStep ==
  ASSUME RefreshTypeOK, RequestInv, OnceInv, RefreshNext
  PROVE  StoreStep
<1>1. ASSUME NEW r \in Requests, Issue(r) PROVE StoreStep
  BY <1>1, MintStore DEF Issue, RequestInv, RequestOk
<1>2. ASSUME NEW r \in Requests, RotateUnknown(r) PROVE StoreStep
  BY <1>2 DEF RotateUnknown, StoreStep, Fresh, RefreshTypeOK
<1>3. ASSUME NEW r \in Requests, RotateOverdue(r) PROVE StoreStep
  BY <1>3 DEF RotateOverdue, SaveDone, SaveRaises, StoreStep, Fresh, RefreshTypeOK
<1>4. ASSUME NEW r \in Requests, Rotate(r) PROVE StoreStep
  <2> DEFINE m == (Fresh(mem) \ {tok[r]}) \cup {minted'}
  <2>1. owner[tok[r]] \in Users /\ Mint(owner[tok[r]])
    BY <1>4 DEF Rotate, Fresh, RequestInv, RequestOk
  <2>2. m \subseteq Fresh(mem) \cup {minted'} /\ (SaveDone(m) \/ SaveRaises(m))
    BY <1>4 DEF Rotate
  <2> QED
    BY <2>1, <2>2, MintStore
<1>5. ASSUME NEW r \in Requests, Revoke(r) PROVE StoreStep
  BY <1>5 DEF Revoke, SaveDone, SaveRaises, StoreStep, RefreshTypeOK
<1>6. CASE RefreshRestart
  BY <1>6 DEF RefreshRestart, Fresh, StoreStep, RefreshTypeOK
<1>7. ASSUME UNCHANGED storeVars PROVE StoreStep
  BY <1>7 DEF storeVars, StoreStep, RefreshTypeOK
<1> QED
  BY <1>1, <1>2, <1>3, <1>4, <1>5, <1>6, <1>7
  DEF RefreshNext, RequestNext, Login, Present, NewSession, NoSession, RemoveUser, RestoreUser, Tick

LEMMA RefreshRequestStep ==
  ASSUME RefreshTypeOK, RequestInv, OnceInv, RefreshNext
  PROVE  RequestInv'
<1>1. \A t \in mem' \cup disk' : owner'[t] \in Users
  BY RefreshStoreStep DEF StoreStep, RequestInv, RequestOk
<1>2. ASSUME NEW q \in Requests PROVE RequestOk(q)'
  <2>1. ASSUME NEW r \in Requests, NEW u \in Users, Login(r, u) PROVE RequestOk(q)'
    BY <2>1 DEF Login, RequestInv, RequestOk, RefreshTypeOK
  <2>2. ASSUME NEW r \in Requests, NEW t \in Tokens, Present(r, t) PROVE RequestOk(q)'
    BY <2>2 DEF Present, RequestInv, RequestOk, RefreshTypeOK
  <2>3. ASSUME NEW r \in Requests, Reply(r) PROVE RequestOk(q)'
    BY <2>3 DEF Reply, RequestInv, RequestOk, RefreshTypeOK
  <2>4. ASSUME NEW r \in Requests, Rotate(r) PROVE RequestOk(q)'
    <3>1. CASE Reply(r)
      BY <2>3, <3>1
    <3>2. CASE /\ at' = [at EXCEPT ![r] = "session"]
               /\ who' = [who EXCEPT ![r] = owner[tok[r]]]
               /\ tok' = [tok EXCEPT ![r] = minted']
      <4>1. owner[tok[r]] \in Users /\ minted' \in Tokens
        BY <2>4, MintNew DEF Rotate, Fresh, RequestInv, RequestOk
      <4> QED
        BY <3>2, <4>1 DEF RequestInv, RequestOk, RefreshTypeOK
    <3> QED
      BY <2>4, <3>1, <3>2 DEF Rotate
  <2>5. ASSUME NEW r \in Requests, NoSession(r) PROVE RequestOk(q)'
    BY <2>5 DEF NoSession, RequestInv, RequestOk, RefreshTypeOK
  <2>6. ASSUME UNCHANGED requestVars PROVE RequestOk(q)'
    BY <2>6 DEF requestVars, RequestInv, RequestOk
  <2>7. CASE RefreshRestart
    BY <2>7 DEF RefreshRestart, RequestOk
  <2> QED
    BY <2>1, <2>2, <2>3, <2>4, <2>5, <2>6, <2>7
    DEF RefreshNext, RequestNext, Issue, RotateUnknown, RotateOverdue, NewSession, Revoke,
        RemoveUser, RestoreUser, Tick, RequestOk
<1> QED
  BY <1>1, <1>2 DEF RequestInv, RequestOk

\* Only a rotation counts a use, of a token that it takes out of memory and disk.
LEMMA RefreshOnceStep ==
  ASSUME RefreshTypeOK, RequestInv, OnceInv, RefreshNext
  PROVE  OnceInv'
<1>1. CASE UNCHANGED uses
  BY <1>1, RefreshStoreStep DEF StoreStep, OnceInv, TokenOnce, Tokens, RefreshTypeOK
<1>2. ASSUME NEW r \in Requests, Rotate(r), uses' # uses PROVE OnceInv'
  <2> DEFINE t == tok[r]
             m == (Fresh(mem) \ {t}) \cup {minted'}
  <2>1. SaveDone(m) /\ uses' = [uses EXCEPT ![t] = @ + 1] /\ Mint(owner[t])
    BY <1>2 DEF Rotate
  <2>2. t \in mem /\ t \in Tokens /\ uses[t] = 0 /\ t <= minted
    BY <1>2 DEF Rotate, Fresh, OnceInv, RefreshTypeOK
  <2>3. minted' = minted + 1 /\ minted' \in Tokens /\ minted \in Nat
    BY <2>1, MintNew
  <2>4. \A x \in Tokens : uses'[x] = IF x = t THEN 1 ELSE uses[x]
    BY <2>1, <2>2 DEF RefreshTypeOK
  <2>5. \A x \in mem' \cup disk' : x \in Tokens /\ x # t /\ (x \in mem \/ x = minted')
    BY <2>1, <2>2, <2>3 DEF SaveDone, Fresh, RefreshTypeOK, Tokens
  <2>6. \A x \in mem' \cup disk' : x <= minted' /\ uses'[x] = 0
    BY <2>2, <2>3, <2>4, <2>5 DEF OnceInv, RefreshTypeOK, Tokens
  <2>7. \A x \in Tokens : x > minted' => uses'[x] = 0
    BY <2>2, <2>3, <2>4 DEF OnceInv, Tokens
  <2>8. TokenOnce'
    BY <2>4 DEF OnceInv, TokenOnce
  <2> QED
    BY <2>6, <2>7, <2>8 DEF OnceInv
<1> QED
  BY <1>1, <1>2
  DEF RefreshNext, RequestNext, Login, Present, Issue, RotateUnknown, RotateOverdue, NewSession,
      NoSession, Revoke, RemoveUser, RestoreUser, Tick, RefreshRestart

\* A token just minted is no token of a removed user's, unless one was before.
LEMMA MintOut ==
  ASSUME RefreshTypeOK, OnceInv, OutInv, NEW u, Mint(u),
         \A t \in mem' : t \in Fresh(mem) \/ t = minted',
         fails' >= fails, fails' \in Nat, UNCHANGED <<aged, restarts>>,
         \A v \in refused' : v \in refused,
         u \in refused' => fails > 0 /\ restarts > 0
  PROVE  RemovedStaysOut'
<1>1. fails \in Nat /\ restarts \in Nat
  BY RefreshAssumption DEF RefreshTypeOK
<1>2. owner' = [owner EXCEPT ![minted'] = u] /\ minted' \in Tokens /\ minted' = minted + 1
      /\ minted \in Nat
  BY MintNew
<1>3. \A t \in mem : t \in Tokens /\ t # minted'
  BY <1>2 DEF OnceInv, RefreshTypeOK, Tokens
<1>4. owner'[minted'] = u /\ \A t \in mem : owner'[t] = owner[t]
  BY <1>2, <1>3 DEF RefreshTypeOK
<1>5. ASSUME NEW t \in mem', owner'[t] \in refused' PROVE fails' > 0 /\ restarts' > 0
  <2>1. CASE t = minted'
    BY <1>1, <1>4, <1>5, <2>1
  <2>2. CASE t \in Fresh(mem)
    <3>1. t \in mem /\ owner[t] \in refused
      BY <1>4, <1>5, <2>2 DEF Fresh
    <3> QED
      BY <1>1, <2>2, <3>1 DEF OutInv, RemovedStaysOut
  <2> QED
    BY <2>1, <2>2
<1> QED
  BY <1>5 DEF RemovedStaysOut, Fresh

LEMMA RefreshOutStep ==
  ASSUME RefreshTypeOK, RequestInv, OnceInv, OutInv, RefreshNext
  PROVE  OutInv'
<1>1. fails \in Nat /\ restarts \in Nat
  BY RefreshAssumption DEF RefreshTypeOK
<1>2. ASSUME NEW m, SaveDone(m) \/ SaveRaises(m), UNCHANGED aged
      PROVE  (fails = 0 => Fresh(disk) = Fresh(mem))'
  BY <1>1, <1>2 DEF SaveDone, SaveRaises, OutInv, Fresh
<1>3. ASSUME NEW r \in Requests, Issue(r) PROVE OutInv'
  <2>1. Mint(who[r]) /\ refused' = refused \ {who[r]} /\ UNCHANGED <<aged, restarts>>
    BY <1>3 DEF Issue
  <2>2. mem' = Fresh(mem) \cup {minted'} /\ fails' >= fails
    BY <1>1, <1>3 DEF Issue, SaveDone, SaveRaises
  <2>3. fails' \in Nat
    BY <1>1, <1>3 DEF Issue, SaveDone, SaveRaises
  <2>5. RemovedStaysOut'
    BY <2>1, <2>2, <2>3, MintOut
  <2>6. (fails = 0 => Fresh(disk) = Fresh(mem))'
    BY <1>2, <1>3 DEF Issue
  <2> QED
    BY <2>5, <2>6 DEF OutInv
<1>4. ASSUME NEW r \in Requests, RotateUnknown(r) PROVE OutInv'
  BY <1>4 DEF RotateUnknown, OutInv, RemovedStaysOut, Fresh
<1>5. ASSUME NEW r \in Requests, RotateOverdue(r) PROVE OutInv'
  <2>1. tok[r] > aged /\ aged' = tok[r] /\ aged \in Nat /\ aged' \in Nat
    BY <1>5 DEF RotateOverdue, Fresh, RefreshTypeOK
  <2>2. /\ mem' \subseteq Fresh(mem) /\ fails' >= fails /\ fails' \in Nat
        /\ UNCHANGED <<owner, refused, restarts>>
    BY <1>1, <1>5 DEF RotateOverdue, SaveDone, SaveRaises
  <2>3. (fails = 0 => Fresh(disk) = Fresh(mem))'
    BY <1>1, <1>5 DEF RotateOverdue, SaveDone, SaveRaises, Fresh
  <2>4. ASSUME NEW t \in Fresh(mem)', owner'[t] \in refused' PROVE fails' > 0 /\ restarts' > 0
    <3>1. t \in Fresh(mem) /\ owner[t] \in refused
      BY <2>2, <2>4 DEF Fresh
    <3> QED
      BY <1>1, <2>2, <3>1 DEF OutInv, RemovedStaysOut
  <2> QED
    BY <2>3, <2>4 DEF OutInv, RemovedStaysOut
<1>6. ASSUME NEW r \in Requests, Rotate(r) PROVE OutInv'
  <2> DEFINE t == tok[r]
             m == (Fresh(mem) \ {t}) \cup {minted'}
  <2>1. /\ t \in Fresh(mem) /\ Mint(owner[t])
        /\ SaveDone(m) \/ SaveRaises(m)
        /\ UNCHANGED <<aged, refused, restarts>>
    BY <1>6 DEF Rotate
  <2>2. mem' = m /\ fails' >= fails /\ fails' \in Nat
    BY <1>1, <2>1 DEF SaveDone, SaveRaises
  <2>3. owner[t] \in refused => fails > 0 /\ restarts > 0
    BY <2>1 DEF OutInv, RemovedStaysOut
  <2>4. \A x \in mem' : x \in Fresh(mem) \/ x = minted'
    BY <2>2
  <2>5. RemovedStaysOut'
    BY <2>1, <2>2, <2>3, <2>4, MintOut
  <2> QED
    BY <1>2, <2>1, <2>5 DEF OutInv
<1>7. ASSUME NEW r \in Requests, Revoke(r) PROVE OutInv'
  <2>1. /\ mem' = {t \in mem : owner[t] # who[r]} /\ fails' >= fails /\ fails' \in Nat
        /\ refused' = refused \cup {who[r]} /\ UNCHANGED <<owner, aged, restarts>>
    BY <1>1, <1>7 DEF Revoke, SaveDone, SaveRaises
  <2>2. ASSUME NEW t \in Fresh(mem)', owner'[t] \in refused' PROVE fails' > 0 /\ restarts' > 0
    <3>1. t \in Fresh(mem) /\ owner[t] \in refused
      BY <2>1, <2>2 DEF Fresh
    <3> QED
      BY <1>1, <2>1, <3>1 DEF OutInv, RemovedStaysOut
  <2>3. (fails = 0 => Fresh(disk) = Fresh(mem))'
    BY <1>1, <1>7 DEF Revoke, SaveDone, SaveRaises, OutInv, Fresh
  <2> QED
    BY <2>2, <2>3 DEF OutInv, RemovedStaysOut
<1>8. CASE RefreshRestart
  <2>1. mem' = Fresh(disk) /\ restarts' > 0 /\ UNCHANGED <<disk, owner, fails, aged, refused>>
    BY <1>1, <1>8 DEF RefreshRestart
  <2> QED
    BY <1>1, <2>1 DEF OutInv, RemovedStaysOut, Fresh
<1>9. CASE Tick
  <2>1. aged' > aged /\ aged \in Nat /\ aged' \in Nat /\ UNCHANGED <<mem, disk, owner, fails, restarts, refused>>
    BY <1>9 DEF Tick, storeVars, RefreshTypeOK
  <2>2. \A t \in mem \cup disk : t \in Nat
    BY DEF RefreshTypeOK, Tokens
  <2>3. (fails = 0 => Fresh(disk) = Fresh(mem))'
    BY <2>1, <2>2 DEF OutInv, Fresh
  <2>4. RemovedStaysOut'
    BY <2>1, <2>2 DEF OutInv, RemovedStaysOut, Fresh
  <2> QED
    BY <2>3, <2>4 DEF OutInv
<1>10. ASSUME UNCHANGED <<storeVars, aged, restarts, refused>> PROVE OutInv'
  BY <1>10 DEF storeVars, OutInv, RemovedStaysOut, Fresh
<1> QED
  BY <1>3, <1>4, <1>5, <1>6, <1>7, <1>8, <1>9, <1>10
  DEF RefreshNext, RequestNext, Login, Present, NewSession, NoSession, RemoveUser, RestoreUser

LEMMA RefreshStep == RefreshInv /\ [RefreshNext]_refreshVars => RefreshInv'
<1>1. ASSUME RefreshInv, RefreshNext PROVE RefreshInv'
  BY <1>1, RefreshTypeStep, RefreshRequestStep, RefreshOnceStep, RefreshOutStep DEF RefreshInv
<1>2. ASSUME RefreshInv, UNCHANGED refreshVars PROVE RefreshInv'
  BY <1>2 DEF RefreshInv, RefreshTypeOK, RequestInv, RequestOk, OnceInv, OutInv, TokenOnce,
     RemovedStaysOut, Fresh, refreshVars, storeVars, requestVars
<1> QED
  BY <1>1, <1>2

-----------------------------------------------------------------------------
(* Login states. *)

\* A state that is pending, or taken by a callback, has made no session, and is
\* in one place only.
LoginInv ==
  /\ LoginTypeOK
  /\ \A s \in pending : s <= started /\ sessionsOf[s] = 0
  /\ \A c \in Callbacks :
       callback[c] # 0 => callback[c] <= started /\ sessionsOf[callback[c]] = 0
                          /\ callback[c] \notin pending
  /\ \A c, d \in Callbacks : callback[c] # 0 /\ callback[c] = callback[d] => c = d
  /\ \A s \in States : s > started => sessionsOf[s] = 0
  /\ StateOnce

\* What registration, its gate and a restart do to the login.
LoginStep ==
  \/ LoginNext
  \/ \E s \in States : Identify(s)
  \/ LoginRestart
  \/ UNCHANGED loginVars

LEMMA LoginInitInv == LoginInit => LoginInv
  BY LoginAssumption DEF LoginInit, LoginInv, LoginTypeOK, StateOnce, States

LEMMA LoginStepInv ==
  ASSUME LoginInv, LoginStep
  PROVE  LoginInv'
<1> USE LoginAssumption
<1>1. CASE StartLogin
  <2>1. started' \in States /\ started' = started + 1 /\ started \in Nat
    BY <1>1 DEF StartLogin, LoginInv, LoginTypeOK, States
  <2>2. sessionsOf[started'] = 0 /\ \A c \in Callbacks : callback[c] # started'
    BY <2>1 DEF LoginInv, LoginTypeOK, States
  <2>3. LoginTypeOK'
    BY <1>1, <2>1 DEF StartLogin, LoginInv, LoginTypeOK, States
  <2> QED
    BY <1>1, <2>1, <2>2, <2>3 DEF StartLogin, LoginInv, LoginTypeOK, StateOnce, States
<1>2. ASSUME NEW s \in States, Logout(s) \/ Identify(s) PROVE LoginInv'
  BY <1>2 DEF Logout, Identify, LoginInv, LoginTypeOK, StateOnce
<1>3. ASSUME NEW s \in States, Lapse(s) PROVE LoginInv'
  <2>1. overdue' \subseteq {"login", "session"} \X States
    BY <1>3 DEF Lapse, LoginInv, LoginTypeOK
  <2> QED
    BY <1>3, <2>1 DEF Lapse, LoginInv, LoginTypeOK, StateOnce
<1>4. ASSUME NEW s \in States, NEW c \in Callbacks, Take(c, s) PROVE LoginInv'
  <2>1. /\ pending' = pending \ {s} /\ UNCHANGED <<started, sessions, overdue, sessionsOf>>
        /\ s \in States /\ s \in Nat /\ s # 0 /\ s <= started
    BY <1>4 DEF Take, States, LoginInv, LoginTypeOK
  <2>2. CASE callback' = [callback EXCEPT ![c] = s] /\ s \in pending
    BY <2>1, <2>2 DEF LoginInv, LoginTypeOK, StateOnce, States
  <2>3. CASE callback' = [callback EXCEPT ![c] = 0]
    BY <2>1, <2>3 DEF LoginInv, LoginTypeOK, StateOnce, States
  <2> QED
    BY <1>4, <2>2, <2>3 DEF Take
<1>5. ASSUME NEW c \in Callbacks, Complete(c) PROVE LoginInv'
  <2> DEFINE s == callback[c]
  <2>1. s \in States /\ s <= started /\ s \notin pending /\ sessionsOf[s] = 0 /\ started \in Nat
    BY <1>5 DEF Complete, LoginInv, LoginTypeOK, States
  <2>2. /\ callback' = [callback EXCEPT ![c] = 0] /\ sessionsOf' = [sessionsOf EXCEPT ![s] = @ + 1]
        /\ sessions' = sessions \cup {s} /\ UNCHANGED <<started, pending, overdue>>
    BY <1>5 DEF Complete
  <2>3. \A x \in States : sessionsOf'[x] = IF x = s THEN 1 ELSE sessionsOf[x]
    BY <2>1, <2>2 DEF LoginInv, LoginTypeOK
  <2>4. \A d \in Callbacks : callback'[d] # 0 => callback'[d] = callback[d] /\ callback[d] # s
    BY <2>1, <2>2 DEF LoginInv, LoginTypeOK
  <2>5. LoginTypeOK'
    BY <2>1, <2>2 DEF LoginInv, LoginTypeOK
  <2>6. \A x \in pending' : x <= started' /\ sessionsOf'[x] = 0
    BY <2>1, <2>2, <2>3 DEF LoginInv, LoginTypeOK
  <2>7. \A d \in Callbacks : callback'[d] # 0 =>
          callback'[d] <= started' /\ sessionsOf'[callback'[d]] = 0 /\ callback'[d] \notin pending'
    BY <2>2, <2>3, <2>4 DEF LoginInv, LoginTypeOK, States
  <2>8. \A d, e \in Callbacks : callback'[d] # 0 /\ callback'[d] = callback'[e] => d = e
    BY <2>4 DEF LoginInv
  <2>9. \A x \in States : (x > started' => sessionsOf'[x] = 0) /\ sessionsOf'[x] <= 1
    BY <2>1, <2>2, <2>3 DEF LoginInv, StateOnce, States
  <2> QED
    BY <2>5, <2>6, <2>7, <2>8, <2>9 DEF LoginInv, StateOnce
<1>6. ASSUME NEW c \in Callbacks, CompleteFails(c) PROVE LoginInv'
  BY <1>6 DEF CompleteFails, LoginInv, LoginTypeOK, StateOnce
<1>7. CASE LoginRestart
  BY <1>7 DEF LoginRestart, LoginInv, LoginTypeOK, StateOnce
<1>8. CASE UNCHANGED loginVars
  BY <1>8 DEF loginVars, LoginInv, LoginTypeOK, StateOnce
<1> QED
  BY <1>1, <1>2, <1>3, <1>4, <1>5, <1>6, <1>7, <1>8 DEF LoginStep, LoginNext

\* Registration does nothing else to the login.
LEMMA RegistrationLogin == RegistrationNext => LoginStep
<1>1. ASSUME NEW r \in Registrations, RegisterNext(r) PROVE LoginStep
  BY <1>1 DEF RegisterNext, Register, Find, Create, CreateConflict, FindAgain, RegisterFails,
     LoginStep
<1> QED
  BY <1>1 DEF RegistrationNext, Challenge, SweepList, SweepDelete, Ripen, RemoveByHand,
     TokenRevoked, TokenLapses, RegistrationRestart, LoginStep

-----------------------------------------------------------------------------
(* Registration: the inductive invariant. *)

\* Apps have names of their own, and new ones are new.
AppInv ==
  /\ Bootstrap \in apps /\ name[Bootstrap] = BootstrapName
  /\ \A i \in apps : i <= created
  /\ \A i, j \in apps : name[i] = name[j] => i = j
  /\ \A i \in doomed : i <= created /\ name[i] # BootstrapName /\ age[i] = "old"

\* A client was given the app of its fingerprint.
AnswerInv ==
  /\ \A a \in answers : a[2] <= created /\ name[a[2]] = Fingerprint(a[1])
  /\ ClientKept

\* After a 409 there is an app to be found, as long as it is not removed.
AgainInv ==
  /\ RegisteredUnless
  /\ \A r \in Registrations :
       reg[r].at = "again" /\ r \notin harmed => Named(reg[r].q) # {}

RegistrationInv == RegistrationTypeOK /\ AppInv /\ AnswerInv /\ AgainInv

\* Requests a thread is at.
Asks == [at : {"find", "create", "again"}, q : Clients]

LEMMA AskOf ==
  ASSUME RegistrationTypeOK, NEW r \in Registrations, reg[r].at # "idle"
  PROVE  reg[r] \in Asks /\ reg[r].q \in Clients
  BY DEF RegistrationTypeOK, Asks, Idle

LEMMA NewAppFacts ==
  ASSUME RegistrationTypeOK, AppInv, NEW q, NewApp(q)
  PROVE  /\ created \in Nat /\ created' = created + 1 /\ created' \in Apps
         /\ created' \in 0..MaxApps /\ created' \notin apps
         /\ apps' = apps \cup {created'}
         /\ DOMAIN name' = Apps /\ age' \in [Apps -> {"young", "old", "undated"}]
         /\ \A i \in Apps : name'[i] = IF i = created' THEN Fingerprint(q) ELSE name[i]
         /\ \A i \in Apps : i # created' => age'[i] = age[i]
  BY RegistrationAssumption DEF RegistrationTypeOK, AppInv, NewApp, Apps

-----------------------------------------------------------------------------

LEMMA RegistrationInitInv == RegistrationInit /\ LoginTypeOK => RegistrationInv
<1> SUFFICES ASSUME RegistrationInit, LoginTypeOK PROVE RegistrationInv
  OBVIOUS
<1> USE DEF RegistrationInit
<1>1. RegistrationTypeOK
  BY RegistrationAssumption DEF RegistrationTypeOK, Apps, Bootstrap
<1>2. AppInv
  BY RegistrationAssumption DEF AppInv, Apps, Bootstrap
<1>3. AnswerInv
  BY DEF AnswerInv, ClientKept
<1>4. AgainInv
  BY DEF AgainInv, RegisteredUnless, Idle
<1> QED
  BY <1>1, <1>2, <1>3, <1>4 DEF RegistrationInv

LEMMA RegistrationTypeStep ==
  ASSUME RegistrationTypeOK, AppInv, RegistrationNext, LoginTypeOK'
  PROVE  RegistrationTypeOK'
<1> USE RegistrationAssumption
<1>1. ASSUME NEW r \in Registrations, reg' = [reg EXCEPT ![r] = Idle]
      PROVE  reg' \in [Registrations -> {Idle} \cup Asks]
  BY <1>1 DEF RegistrationTypeOK, Asks
<1>2. ASSUME NEW r \in Registrations, NEW l \in {"create", "again"}, reg[r].at # "idle", Goto(r, l)
      PROVE  reg' \in [Registrations -> {Idle} \cup Asks]
  <2>1. reg[r] \in Asks
    BY <1>2, AskOf
  <2> QED
    BY <1>2, <2>1 DEF Goto, RegistrationTypeOK, Asks
<1>3. ASSUME NEW r \in Registrations, NEW i \in apps, reg[r].at # "idle", Created201(r, i)
      PROVE  /\ reg' \in [Registrations -> {Idle} \cup Asks] /\ answers' \subseteq Clients \X Apps
             /\ UNCHANGED away
  <2>1. /\ reg[r].q \in Clients /\ i \in Apps
        /\ reg' = [reg EXCEPT ![r] = Idle] /\ answers' = answers \cup {<<reg[r].q, i>>}
    BY <1>3, AskOf DEF Created201, RegistrationTypeOK
  <2>2. reg' \in [Registrations -> {Idle} \cup Asks]
    BY <1>1, <2>1
  <2>3. answers' \subseteq Clients \X Apps
    BY <2>1 DEF RegistrationTypeOK
  <2> QED
    BY <1>3, <2>2, <2>3 DEF Created201
<1>4. ASSUME NEW r \in Registrations, reg[r].at # "idle", BadGateway502(r)
      PROVE  /\ reg' \in [Registrations -> {Idle} \cup Asks] /\ away' \subseteq Clients
             /\ UNCHANGED answers
  BY <1>1, <1>4, AskOf DEF BadGateway502, RegistrationTypeOK
<1>5. ASSUME NEW r \in Registrations, NEW q \in Clients, Register(r, q) PROVE RegistrationTypeOK'
  BY <1>5 DEF Register, providerVars, RegistrationTypeOK, Asks
<1>6. Idle.at = "idle"
  BY DEF Idle
<1>7. ASSUME NEW r \in Registrations, RegisterFails(r) PROVE RegistrationTypeOK'
  BY <1>1, <1>7 DEF RegisterFails, MgmtFails, Mishap, providerVars, RegistrationTypeOK, Asks
<1>8. ASSUME NEW r \in Registrations, Find(r) PROVE RegistrationTypeOK'
  <2>1. reg[r].at # "idle" /\ Named(reg[r].q) \subseteq apps
    BY <1>8 DEF Find, Named
  <2>2. /\ reg' \in [Registrations -> {Idle} \cup Asks]
        /\ answers' \subseteq Clients \X Apps /\ UNCHANGED away
    <3>1. CASE \E i \in Named(reg[r].q) : Created201(r, i)
      BY <1>3, <2>1, <3>1
    <3>2. CASE Goto(r, "create") /\ UNCHANGED <<answers, away>>
      BY <1>2, <2>1, <3>2 DEF RegistrationTypeOK
    <3> QED
      BY <1>8, <3>1, <3>2 DEF Find
  <2> QED
    BY <1>8, <2>2 DEF Find, MgmtCall, providerVars, RegistrationTypeOK, Asks
<1>9. ASSUME NEW r \in Registrations, Create(r) PROVE RegistrationTypeOK'
  <2>1. reg[r].at # "idle" /\ reg[r].q \in Clients
    BY <1>9, AskOf DEF Create
  <2>2. /\ created' \in Apps /\ created' \in 0..MaxApps /\ apps' = apps \cup {created'}
        /\ DOMAIN name' = Apps /\ age' \in [Apps -> {"young", "old", "undated"}]
    BY <1>9, NewAppFacts DEF Create
  <2>3. /\ reg' \in [Registrations -> {Idle} \cup Asks]
        /\ answers' \subseteq Clients \X Apps /\ UNCHANGED away
    BY <1>1, <1>9, <2>1, <2>2 DEF Create, Created201, RegistrationTypeOK
  <2>4. mishaps' \in 0..MaxMishaps
    BY <1>9 DEF Create, Mishap, RegistrationTypeOK
  <2> QED
    BY <1>9, <2>2, <2>3, <2>4 DEF Create, MgmtCall, RegistrationTypeOK, Asks
<1>10. ASSUME NEW r \in Registrations, CreateConflict(r) PROVE RegistrationTypeOK'
  <2>1. reg' \in [Registrations -> {Idle} \cup Asks]
    BY <1>2, <1>10 DEF CreateConflict
  <2> QED
    BY <1>10, <2>1 DEF CreateConflict, MgmtCall, providerVars, RegistrationTypeOK, Asks
<1>11. ASSUME NEW r \in Registrations, FindAgain(r) PROVE RegistrationTypeOK'
  <2>1. reg[r].at # "idle" /\ Named(reg[r].q) \subseteq apps
    BY <1>11 DEF FindAgain, Named
  <2>2. /\ reg' \in [Registrations -> {Idle} \cup Asks]
        /\ answers' \subseteq Clients \X Apps /\ away' \subseteq Clients
    BY <1>3, <1>4, <1>11, <2>1 DEF FindAgain, RegistrationTypeOK
  <2> QED
    BY <1>11, <2>2 DEF FindAgain, MgmtCall, providerVars, RegistrationTypeOK, Asks
<1>12. CASE SweepList
  BY <1>12 DEF SweepList, MgmtCall, providerVars, RegistrationTypeOK
<1>13. ASSUME NEW i \in Apps, SweepDelete(i) PROVE RegistrationTypeOK'
  BY <1>13 DEF SweepDelete, Removed, Awaiting, Mishap, MgmtFails, MgmtCall, RegistrationTypeOK
<1>14. ASSUME NEW i \in Apps, Ripen(i) PROVE RegistrationTypeOK'
  BY <1>14 DEF Ripen, RegistrationTypeOK
<1>15. ASSUME NEW i \in Apps, RemoveByHand(i) PROVE RegistrationTypeOK'
  BY <1>15 DEF RemoveByHand, Removed, Awaiting, RegistrationTypeOK
<1>16. CASE TokenRevoked \/ TokenLapses
  BY <1>16 DEF TokenRevoked, TokenLapses, Mishap, providerVars, RegistrationTypeOK
<1>17. CASE RegistrationRestart
  BY <1>17 DEF RegistrationRestart, Mishap, providerVars, RegistrationTypeOK
<1>18. CASE UNCHANGED regVars
  BY <1>18 DEF regVars, RegistrationTypeOK
<1> QED
  BY <1>5, <1>7, <1>8, <1>9, <1>10, <1>11, <1>12, <1>13, <1>14, <1>15, <1>16, <1>17, <1>18
  DEF RegistrationNext, RegisterNext, Challenge

\* What registrations, the sweep and the world do to the apps.
AppsStep ==
  \/ (\E q : Named(q) = {} /\ NewApp(q)) /\ UNCHANGED doomed
  \/ (\E i \in doomed : apps' = apps \ {i} /\ UNCHANGED age) /\ doomed' \subseteq doomed
     /\ UNCHANGED <<created, name>>
  \/ (\E i \in apps \ {Bootstrap} : apps' = apps \ {i}) /\ UNCHANGED <<created, name, age, doomed>>
  \/ (\E i \in apps : age' = [age EXCEPT ![i] = "old"]) /\ UNCHANGED <<apps, created, name, doomed>>
  \/ /\ UNCHANGED providerVars
     /\ \/ doomed' \subseteq doomed
        \/ doomed' = {i \in apps : Managed(i) /\ age[i] = "old"}

LEMMA RegistrationApps == RegistrationNext => AppsStep
<1>1. ASSUME NEW r \in Registrations, RegisterNext(r) PROVE AppsStep
  <2>1. ASSUME Create(r) PROVE AppsStep
    BY <2>1 DEF Create, AppsStep
  <2>2. ASSUME UNCHANGED <<providerVars, doomed>> PROVE AppsStep
    BY <2>2 DEF AppsStep
  <2> QED
    BY <1>1, <2>1, <2>2 DEF RegisterNext, Register, Find, CreateConflict, FindAgain, RegisterFails
<1>2. ASSUME NEW i \in Apps, SweepDelete(i) PROVE AppsStep
  BY <1>2 DEF SweepDelete, Removed, AppsStep, providerVars
<1>3. ASSUME NEW i \in Apps, Ripen(i) \/ RemoveByHand(i) PROVE AppsStep
  BY <1>3 DEF Ripen, RemoveByHand, Removed, AppsStep
<1>4. CASE SweepList
  BY <1>4 DEF SweepList, AppsStep
<1>5. ASSUME UNCHANGED providerVars, doomed' \subseteq doomed PROVE AppsStep
  BY <1>5 DEF AppsStep
<1>6. CASE UNCHANGED regVars
  BY <1>5, <1>6 DEF regVars, providerVars
<1> QED
  BY <1>1, <1>2, <1>3, <1>4, <1>5, <1>6
  DEF RegistrationNext, Challenge, TokenRevoked, TokenLapses, RegistrationRestart

LEMMA AppStep ==
  ASSUME RegistrationTypeOK, AppInv, AppsStep
  PROVE  AppInv'
<1>1. ASSUME NEW q, Named(q) = {}, NewApp(q), UNCHANGED doomed PROVE AppInv'
  <2>1. /\ created \in Nat /\ created' = created + 1 /\ apps' = apps \cup {created'}
        /\ \A i \in Apps : name'[i] = IF i = created' THEN Fingerprint(q) ELSE name[i]
        /\ \A i \in Apps : i # created' => age'[i] = age[i]
    BY <1>1, NewAppFacts
  <2>2. Bootstrap \in Apps /\ apps \subseteq Apps /\ doomed \subseteq Apps /\ Apps \subseteq Nat
    BY RegistrationAssumption DEF RegistrationTypeOK, Bootstrap, Apps
  <2>3. created' \in Apps
    BY <1>1, NewAppFacts
  <2>4. \A i \in apps : i # created' /\ name'[i] = name[i] /\ name[i] # Fingerprint(q)
    BY <1>1, <2>1, <2>2 DEF AppInv, Named
  <2>5. \A i \in doomed : i # created'
    BY <2>1, <2>2 DEF AppInv
  <2>6. \A i, j \in apps' : name'[i] = name'[j] => i = j
    BY <2>1, <2>3, <2>4 DEF AppInv
  <2>7. \A i \in apps' : i <= created'
    BY <2>1, <2>2 DEF AppInv
  <2>8. \A i \in doomed' : i <= created' /\ name'[i] # BootstrapName /\ age'[i] = "old"
    BY <1>1, <2>1, <2>2, <2>5 DEF AppInv
  <2> QED
    BY <2>1, <2>4, <2>6, <2>7, <2>8 DEF AppInv
<1>2. ASSUME NEW i \in doomed, apps' = apps \ {i}, doomed' \subseteq doomed, UNCHANGED <<created, name, age>>
      PROVE  AppInv'
  BY <1>2 DEF AppInv
<1>3. ASSUME NEW i \in apps \ {Bootstrap}, apps' = apps \ {i}, UNCHANGED <<created, name, age, doomed>>
      PROVE  AppInv'
  BY <1>3 DEF AppInv
<1>4. ASSUME NEW i \in apps, age' = [age EXCEPT ![i] = "old"], UNCHANGED <<apps, created, name, doomed>>
      PROVE  AppInv'
  BY <1>4 DEF AppInv, RegistrationTypeOK
<1>5. ASSUME UNCHANGED providerVars,
             doomed' \subseteq doomed \/ doomed' = {i \in apps : Managed(i) /\ age[i] = "old"}
      PROVE  AppInv'
  BY <1>5 DEF AppInv, providerVars, Managed
<1> QED
  BY <1>1, <1>2, <1>3, <1>4, <1>5 DEF AppsStep

\* Clients are given apps of their name; nothing else is said to them.
AnswersStep ==
  \/ UNCHANGED answers
  \/ \E r \in Registrations : \E i \in Named(reg[r].q) :
       answers' = answers \cup {<<reg[r].q, i>>} /\ UNCHANGED providerVars
  \/ \E r \in Registrations :
       NewApp(reg[r].q) /\ answers' = answers \cup {<<reg[r].q, created'>>}

LEMMA AnswerStep ==
  ASSUME RegistrationTypeOK, AppInv, AnswerInv, AppsStep, AnswersStep,
         byHand \subseteq byHand',
         \A i \in apps \ apps' : i \in doomed \/ i \in byHand'
  PROVE  AnswerInv'
<1>1. Bootstrap \in apps /\ apps \subseteq Apps /\ Apps \subseteq Nat /\ answers \subseteq Clients \X Apps
  BY RegistrationAssumption DEF AppInv, RegistrationTypeOK, Apps
<1>2. Bootstrap \in apps'
  BY AppStep DEF AppInv
<1>3. /\ created \in Nat /\ created' \in Nat /\ created <= created'
      /\ \A i \in Apps : i <= created => name'[i] = name[i] /\ (age[i] = "old" => age'[i] = "old")
  <2>1. ASSUME NEW q, NewApp(q) PROVE
          /\ created \in Nat /\ created' = created + 1
          /\ \A i \in Apps : i # created' => name'[i] = name[i] /\ age'[i] = age[i]
    BY <2>1, NewAppFacts
  <2>2. created \in Nat
    BY RegistrationAssumption DEF RegistrationTypeOK
  <2>3. CASE \E q : NewApp(q)
    BY <1>1, <2>1, <2>3
  <2>4. CASE UNCHANGED <<created, name>> /\ (UNCHANGED age \/ \E i \in apps : age' = [age EXCEPT ![i] = "old"])
    BY <2>2, <2>4 DEF RegistrationTypeOK
  <2> QED
    BY <2>3, <2>4 DEF AppsStep, providerVars
<1>4. ASSUME NEW a \in answers PROVE
        /\ a[2] <= created' /\ name'[a[2]] = Fingerprint(a[1])
        /\ a[2] \in apps' \cup byHand' \/ age'[a[2]] = "old"
  <2>1. a[2] \in Apps /\ a[2] <= created /\ name[a[2]] = Fingerprint(a[1])
        /\ (a[2] \in apps \cup byHand \/ age[a[2]] = "old")
    BY <1>1 DEF AnswerInv, ClientKept
  <2>2. a[2] \in apps \ apps' => a[2] \in byHand' \/ age[a[2]] = "old"
    BY DEF AppInv
  <2>3. a[2] <= created'
    <3>1. \A i, m, n \in Nat : i <= m /\ m <= n => i <= n
      OBVIOUS
    <3>2. a[2] \in Nat /\ a[2] <= created
      BY <1>1, <2>1
    <3>3. created \in Nat /\ created' \in Nat /\ created <= created'
      BY <1>3
    <3> QED
      BY <3>1, <3>2, <3>3
  <2>4. name'[a[2]] = name[a[2]] /\ (age[a[2]] = "old" => age'[a[2]] = "old")
    BY <1>3, <2>1
  <2> QED
    BY <2>1, <2>2, <2>3, <2>4
<1>5. ASSUME NEW a \in answers', a \notin answers PROVE
        /\ a[2] <= created' /\ name'[a[2]] = Fingerprint(a[1])
        /\ a[2] \in apps' \cup byHand' \/ age'[a[2]] = "old"
  <2>1. ASSUME NEW r \in Registrations, NEW i \in Named(reg[r].q), a = <<reg[r].q, i>>, UNCHANGED providerVars
        PROVE  a[2] <= created' /\ name'[a[2]] = Fingerprint(a[1]) /\ a[2] \in apps'
    <3>1. a[1] = reg[r].q /\ a[2] = i
      BY <2>1
    <3>2. i \in apps /\ name[i] = Fingerprint(reg[r].q) /\ i <= created
      BY <2>1 DEF Named, AppInv
    <3> QED
      BY <2>1, <3>1, <3>2 DEF providerVars
  <2>2. ASSUME NEW r \in Registrations, NewApp(reg[r].q), a = <<reg[r].q, created'>>
        PROVE  a[2] <= created' /\ name'[a[2]] = Fingerprint(a[1]) /\ a[2] \in apps'
    <3>1. /\ created' \in Apps /\ created' \in Nat /\ apps' = apps \cup {created'}
          /\ name'[created'] = Fingerprint(reg[r].q)
      BY <1>1, <2>2, NewAppFacts
    <3> QED
      BY <2>2, <3>1
  <2>3. CASE \E r \in Registrations : \E i \in Named(reg[r].q) :
               answers' = answers \cup {<<reg[r].q, i>>} /\ UNCHANGED providerVars
    BY <1>5, <2>1, <2>3
  <2>4. CASE \E r \in Registrations :
               NewApp(reg[r].q) /\ answers' = answers \cup {<<reg[r].q, created'>>}
    BY <1>5, <2>2, <2>4
  <2> QED
    BY <1>5, <2>3, <2>4 DEF AnswersStep
<1> QED
  BY <1>2, <1>4, <1>5 DEF AnswerInv, ClientKept

LEMMA RegistrationAnswers ==
  ASSUME RegistrationNext
  PROVE  /\ AnswersStep /\ byHand \subseteq byHand'
         /\ \A i \in apps \ apps' : i \in doomed \/ i \in byHand'
<1>1. ASSUME NEW r \in Registrations, RegisterNext(r)
      PROVE  AnswersStep /\ byHand' = byHand /\ apps \subseteq apps'
  BY <1>1 DEF RegisterNext, Register, Find, Create, CreateConflict, FindAgain, RegisterFails,
     Created201, BadGateway502, AnswersStep, NewApp, providerVars
<1>2. ASSUME NEW i \in Apps, SweepDelete(i) \/ Ripen(i) \/ RemoveByHand(i)
      PROVE  /\ AnswersStep /\ byHand \subseteq byHand'
             /\ \A j \in apps \ apps' : j \in doomed \/ j \in byHand'
  BY <1>2 DEF SweepDelete, Removed, Ripen, RemoveByHand, AnswersStep
<1>3. CASE UNCHANGED <<apps, answers, byHand>>
  BY <1>3 DEF AnswersStep
<1> QED
  BY <1>1, <1>2, <1>3 DEF RegistrationNext, regVars, Challenge, SweepList, TokenRevoked, TokenLapses,
     RegistrationRestart, providerVars

\* How a request gets to look for its app a second time, and how it is turned away.
LEMMA AgainStep ==
  ASSUME RegistrationTypeOK, AppInv, AgainInv, RegistrationNext
  PROVE  AgainInv'
<1>a. ASSUME NEW i \in Apps, Removed(i), UNCHANGED <<name, reg, away>> PROVE AgainInv'
  <2>1. ASSUME NEW r \in Registrations, reg[r].at = "again", r \notin harmed'
        PROVE  Named(reg[r].q)' # {}
    <3>1. PICK j \in apps : name[j] = Fingerprint(reg[r].q)
      BY <1>a, <2>1 DEF AgainInv, Removed, Named
    <3>2. j # i
      BY <1>a, <2>1, <3>1 DEF Removed, Awaiting
    <3>3. j \in apps' /\ name'[j] = Fingerprint(reg'[r].q)
      BY <1>a, <3>1, <3>2 DEF Removed
    <3> QED
      BY <3>3 DEF Named
  <2> QED
    BY <1>a, <2>1 DEF AgainInv, RegisteredUnless
\* A thread goes on, and the apps stay.
<1>b. ASSUME NEW r \in Registrations, UNCHANGED providerVars, away' = {},
             \A x \in Registrations \ {r} : reg'[x] = reg[x],
             \A x \in Registrations \ {r} : x \in harmed => x \in harmed',
             reg'[r].at = "again" => Named(reg'[r].q) # {}
      PROVE  AgainInv'
  BY <1>b DEF AgainInv, RegisteredUnless, Named, providerVars
<1>c. Idle.at = "idle"
  BY DEF Idle
<1>1. ASSUME NEW r \in Registrations, RegisterNext(r) PROVE AgainInv'
  <2>a. away = {}
    BY DEF AgainInv, RegisteredUnless
  <2>1. CASE \E q \in Clients : Register(r, q)
    <3>1. PICK q \in Clients : Register(r, q)
      BY <2>1
    <3>2. /\ \A x \in Registrations \ {r} : reg'[x] = reg[x]
          /\ reg'[r].at = "find"
      BY <3>1 DEF Register, RegistrationTypeOK
    <3> QED
      BY <1>b, <2>a, <3>1, <3>2 DEF Register
  <2>2. ASSUME reg' = [reg EXCEPT ![r] = Idle], UNCHANGED <<providerVars, harmed>>, away' = {}
        PROVE  AgainInv'
    BY <1>b, <1>c, <2>2 DEF RegistrationTypeOK
  <2>3. ASSUME NEW l \in {"create", "again"}, Goto(r, l), reg[r].at # "idle",
               UNCHANGED <<providerVars, harmed, away>>, l = "again" => Named(reg[r].q) # {}
        PROVE  AgainInv'
    <3>1. reg[r] \in Asks
      BY <2>3, AskOf
    <3>2. /\ \A x \in Registrations \ {r} : reg'[x] = reg[x]
          /\ reg'[r].at = l /\ reg'[r].q = reg[r].q
      BY <2>3, <3>1 DEF Goto, RegistrationTypeOK, Asks
    <3> QED
      BY <1>b, <2>a, <2>3, <3>2
  <2>4. CASE RegisterFails(r)
    BY <2>2, <2>4, <2>a DEF RegisterFails
  <2>5. CASE Find(r)
    <3>1. CASE \E i \in Named(reg[r].q) : Created201(r, i)
      BY <2>2, <2>5, <2>a, <3>1 DEF Find, Created201
    <3>2. CASE Goto(r, "create") /\ UNCHANGED away
      BY <2>3, <2>5, <3>2 DEF Find
    <3> QED
      BY <2>5, <3>1, <3>2 DEF Find
  <2>6. CASE Create(r)
    <3>1. reg' = [reg EXCEPT ![r] = Idle] /\ UNCHANGED <<harmed, away>> /\ NewApp(reg[r].q)
      BY <2>6 DEF Create, Created201
    <3>2. /\ created' \notin apps /\ apps' = apps \cup {created'} /\ apps \subseteq Apps
          /\ \A i \in Apps : i # created' => name'[i] = name[i]
      BY <3>1, NewAppFacts DEF RegistrationTypeOK
    <3>3. \A x \in Registrations \ {r} : reg'[x] = reg[x]
      BY <3>1 DEF RegistrationTypeOK
    <3>4. reg'[r].at = "idle"
      BY <1>c, <3>1 DEF RegistrationTypeOK
    <3>5. \A q : Named(q) # {} => Named(q)' # {}
      BY <3>2 DEF Named
    <3>6. ASSUME NEW x \in Registrations, reg'[x].at = "again", x \notin harmed'
          PROVE  Named(reg[x].q)' # {}
      <4>1. x # r /\ reg[x].at = "again" /\ reg'[x] = reg[x]
        BY <3>3, <3>4, <3>6
      <4>2. PICK j \in apps : name[j] = Fingerprint(reg[x].q)
        BY <3>1, <3>6, <4>1 DEF AgainInv, Named
      <4>3. j \in apps' /\ name'[j] = Fingerprint(reg'[x].q)
        BY <3>2, <4>1, <4>2
      <4> QED
        BY <4>3 DEF Named
    <3> QED
      BY <2>a, <3>1, <3>6 DEF AgainInv, RegisteredUnless
  <2>7. CASE CreateConflict(r)
    BY <2>3, <2>7 DEF CreateConflict
  <2>8. CASE FindAgain(r)
    <3>1. CASE \E i \in Named(reg[r].q) : Created201(r, i)
      BY <2>2, <2>8, <2>a, <3>1 DEF FindAgain, Created201
    <3>2. CASE Named(reg[r].q) = {} /\ BadGateway502(r)
      <4>1. r \in harmed
        BY <2>8, <3>2 DEF FindAgain, AgainInv
      <4> QED
        BY <2>2, <2>8, <2>a, <3>2, <4>1 DEF FindAgain, BadGateway502
    <3> QED
      BY <2>8, <3>1, <3>2 DEF FindAgain
  <2> QED
    BY <1>1, <2>1, <2>4, <2>5, <2>6, <2>7, <2>8 DEF RegisterNext
<1>2. ASSUME NEW i \in Apps, SweepDelete(i) PROVE AgainInv'
  <2>1. CASE Removed(i)
    BY <1>2, <1>a, <2>1 DEF SweepDelete
  <2>2. CASE UNCHANGED <<apps, harmed>>
    BY <1>2, <2>2 DEF SweepDelete, AgainInv, RegisteredUnless, Named
  <2> QED
    BY <1>2, <2>1, <2>2 DEF SweepDelete
<1>3. ASSUME NEW i \in Apps, RemoveByHand(i) PROVE AgainInv'
  BY <1>3, <1>a DEF RemoveByHand
<1>4. CASE UNCHANGED <<apps, name, reg, harmed, away>>
  BY <1>4 DEF AgainInv, RegisteredUnless, Named
<1>5. CASE RegistrationRestart
  BY <1>5, <1>c DEF RegistrationRestart, AgainInv, RegisteredUnless
<1> QED
  BY <1>1, <1>2, <1>3, <1>4, <1>5 DEF RegistrationNext, regVars, Challenge, SweepList, Ripen,
     TokenRevoked, TokenLapses, providerVars

LEMMA RegistrationStep ==
  ASSUME RegistrationInv, [RegistrationNext]_registrationVars, LoginTypeOK'
  PROVE  RegistrationInv'
<1>1. CASE RegistrationNext
  BY <1>1, RegistrationTypeStep, RegistrationApps, AppStep, RegistrationAnswers, AnswerStep, AgainStep
  DEF RegistrationInv
<1>2. CASE UNCHANGED registrationVars
  BY <1>2 DEF registrationVars, regVars, RegistrationInv, RegistrationTypeOK, AppInv, AnswerInv,
     ClientKept, AgainInv, RegisteredUnless, Named
<1> QED
  BY <1>1, <1>2

-----------------------------------------------------------------------------
(* Requests that ask for the same have one fingerprint. *)

LEMMA TimesOf ==
  ASSUME NEW uris, uris \in Seq(ToSet(uris)), NEW u
  PROVE  u \in ToSet(uris) <=> Times(u, uris) # 0
<1> DEFINE places == {i \in DOMAIN uris : uris[i] = u}
<1>1. DOMAIN uris = 1..Len(uris) /\ Len(uris) \in Nat
  OBVIOUS
<1>2. IsFiniteSet(1..Len(uris))
  BY <1>1, FS_Interval
<1>3. IsFiniteSet(places)
  BY <1>1, <1>2, FS_Subset
<1>4. Cardinality(places) # 0 <=> places # {}
  BY <1>3, FS_EmptySet
<1>5. u \in ToSet(uris) <=> places # {}
  BY DEF ToSet
<1> QED
  BY <1>4, <1>5 DEF Times

LEMMA SameFingerprint ==
  ASSUME NEW a \in Clients, NEW b \in Clients, a.software = b.software,
         \A u \in ToSet(a.redirects \o b.redirects) : Times(u, a.redirects) = Times(u, b.redirects)
  PROVE  Fingerprint(a) = Fingerprint(b)
<1> DEFINE x == a.redirects
           y == b.redirects
<1>1. x \in Seq(ToSet(x)) /\ y \in Seq(ToSet(y))
  BY RegistrationAssumption
<1>2. ToSet(x) \subseteq ToSet(x \o y) /\ ToSet(y) \subseteq ToSet(x \o y)
  <2> DEFINE S == ToSet(x) \cup ToSet(y)
  <2>1. x \in Seq(S) /\ y \in Seq(S)
    BY <1>1
  <2> HIDE DEF x, y, S
  <2>2. /\ Len(x \o y) = Len(x) + Len(y) /\ DOMAIN (x \o y) = 1..(Len(x) + Len(y))
        /\ \A i \in 1..Len(x) : (x \o y)[i] = x[i]
        /\ \A i \in 1..Len(y) : (x \o y)[i + Len(x)] = y[i]
        /\ DOMAIN x = 1..Len(x) /\ DOMAIN y = 1..Len(y) /\ Len(x) \in Nat /\ Len(y) \in Nat
    BY <2>1
  <2>3. \A i \in DOMAIN y : i + Len(x) \in DOMAIN (x \o y)
    BY <2>2
  <2>4. ToSet(x) \subseteq ToSet(x \o y)
    BY <2>2 DEF ToSet
  <2>5. ToSet(y) \subseteq ToSet(x \o y)
    BY <2>2, <2>3 DEF ToSet
  <2> QED
    BY <2>4, <2>5
<1>3. \A u \in ToSet(x) \cup ToSet(y) : Times(u, x) = Times(u, y)
  BY <1>2
<1>4. ToSet(x) = ToSet(y)
  BY <1>1, <1>3, TimesOf
<1> HIDE DEF x, y
<1>5. [u \in ToSet(x) |-> Times(u, x)] = [u \in ToSet(y) |-> Times(u, y)]
  BY <1>3, <1>4
<1> QED
  BY <1>5 DEF Fingerprint, x, y

LEMMA OneApp == RegistrationInv => SameClient
<1> SUFFICES ASSUME RegistrationInv, NEW a \in answers, NEW b \in answers,
                    a[1].software = b[1].software,
                    \A u \in ToSet(a[1].redirects \o b[1].redirects) :
                      Times(u, a[1].redirects) = Times(u, b[1].redirects),
                    {a[2], b[2]} \subseteq apps
             PROVE  a[2] = b[2]
  BY DEF SameClient
<1>1. a[1] \in Clients /\ b[1] \in Clients
  BY DEF RegistrationInv, RegistrationTypeOK
<1>2. Fingerprint(a[1]) = Fingerprint(b[1])
  BY <1>1, SameFingerprint
<1> QED
  BY <1>2 DEF RegistrationInv, AnswerInv, AppInv

-----------------------------------------------------------------------------
(* The theorems. *)

LEMMA RefreshPart == Next => [RefreshNext]_refreshVars
  BY DEF Next, CommunityNext, EnterpriseNext, MessagesNext

LEMMA LoginPart == Next => LoginStep
<1>1. CASE EnterpriseNext
  BY <1>1, RegistrationLogin DEF EnterpriseNext
<1>2. CASE UNCHANGED registrationVars
  BY <1>2 DEF LoginStep, registrationVars, loginVars
<1> QED
  BY <1>1, <1>2 DEF Next, CommunityNext, MessagesNext

\* The refresh tokens' invariant, whatever threads exchange, remove, restore
\* and restart (RefreshTokenStore in ce_web_auth.py).
LEMMA RefreshAlways == Spec => []RefreshInv
<1>1. Init => RefreshInv
  BY RefreshInitInv DEF Init
<1>2. RefreshInv /\ [Next]_vars => RefreshInv'
  BY RefreshStep, RefreshPart DEF vars
<1> QED
  BY <1>1, <1>2, PTL DEF Spec

\* The login states' invariant (PendingLoginStore in web_auth.py).
LEMMA LoginAlways == Spec => []LoginInv
<1>1. Init => LoginInv
  BY LoginInitInv DEF Init, RegistrationInit
<1>2. LoginInv /\ [Next]_vars => LoginInv'
  <2>1. ASSUME UNCHANGED vars PROVE LoginStep
    BY <2>1 DEF vars, LoginStep, registrationVars, loginVars
  <2> QED
    BY <2>1, LoginStepInv, LoginPart
<1> QED
  BY <1>1, <1>2, PTL DEF Spec

\* A user who was refused has no token left until a login is completed, except
\* that a restart after a failed save may bring one back (refresh, revoke_user).
THEOREM RemovedStayOut == Spec => []RemovedStaysOut
<1>1. RefreshInv => RemovedStaysOut
  BY DEF RefreshInv, OutInv
<1> QED
  BY <1>1, RefreshAlways, PTL

\* Neither a refresh token nor a login state is good for two sign-ins
\* (consume_and_rotate, PendingLoginStore.take).
THEOREM UsedAtMostOnce == Spec => []UsedOnce
<1>1. RefreshInv /\ LoginInv => UsedOnce
  BY DEF RefreshInv, OnceInv, LoginInv, UsedOnce
<1> QED
  BY <1>1, RefreshAlways, LoginAlways, PTL

\* The registration's invariant, with the login it goes through (dcr_shim.py).
LEMMA RegistrationAlways == Spec => []RegistrationInv
<1>1. Init /\ LoginInv => RegistrationInv
  BY RegistrationInitInv DEF Init, LoginInv
<1>2. RegistrationInv /\ LoginInv' /\ [Next]_vars => RegistrationInv'
  <2>1. [Next]_vars => [RegistrationNext]_registrationVars
    BY DEF vars, Next, CommunityNext, EnterpriseNext, MessagesNext
  <2>2. LoginInv' => LoginTypeOK'
    BY DEF LoginInv
  <2> QED
    BY <2>1, <2>2, RegistrationStep
<1> QED
  BY <1>1, <1>2, LoginAlways, PTL DEF Spec

\* Clients that ask for the same, in whatever order, are given one app
\* (compute_fingerprint).
THEOREM ClientsShareApps == Spec => []SameClient
  BY RegistrationAlways, OneApp, PTL

\* The app of a client is not swept before its time, nor the installation's own
\* ever (sweep_orphans).
THEOREM AppsAreKept == Spec => []ClientKept
<1>1. RegistrationInv => ClientKept
  BY DEF RegistrationInv, AnswerInv
<1> QED
  BY <1>1, RegistrationAlways, PTL

\* No valid registration is turned away without a cause: a 409 leads to the app
\* that another one made (find_or_create_client).
THEOREM RegistrationsSucceed == Spec => []RegisteredUnless
<1>1. RegistrationInv => RegisteredUnless
  BY DEF RegistrationInv, AgainInv
<1> QED
  BY <1>1, RegistrationAlways, PTL

\* The inbox's invariant (inbox.py).
LEMMA InboxAlways == Spec => []InboxInv
<1>1. Init => InboxInv
  BY InboxInitInv DEF Init
<1>2. InboxInv /\ [Next]_vars => InboxInv'
  <2>1. [Next]_vars => [InboxNext]_inboxVars
    BY DEF vars, Next, CommunityNext, EnterpriseNext, MessagesNext
  <2> QED
    BY <2>1, InboxStep
<1> QED
  BY <1>1, <1>2, PTL DEF Spec

\* What is answered to a member who sends, marks or lists messages is so, and
\* stays so, whatever threads write and rename the files (inbox.py).
THEOREM ToolsAreTrue == Spec => []ToolsTellTrue
<1>1. InboxInv => ToolsTellTrue
  BY InboxTrue DEF ToolsTellTrue
<1> QED
  BY <1>1, InboxAlways, PTL

\* The variables have their types, in every part (ce_web_auth.py, web_auth.py,
\* dcr_shim.py, inbox.py).
THEOREM SignInTyped == Spec => []TypeOK
<1>1. Init => part \in Parts
  BY DEF Init
<1>2. part \in Parts /\ [Next]_vars => (part \in Parts)'
  BY DEF vars, Next, CommunityNext, EnterpriseNext, MessagesNext
<1>3. RefreshInv /\ RegistrationInv /\ InboxInv /\ part \in Parts => TypeOK
  BY DEF RefreshInv, RegistrationInv, InboxInv, TypeOK
<1> QED
  BY <1>1, <1>2, <1>3, RefreshAlways, RegistrationAlways, InboxAlways, PTL DEF Spec

=============================================================================
