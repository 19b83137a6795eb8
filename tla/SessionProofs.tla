--------------------------- MODULE SessionProofs ---------------------------
(***************************************************************************)
(* Proofs about SessionSpawn.                                               *)
(***************************************************************************)
EXTENDS SessionSpawn, TLAPS

-----------------------------------------------------------------------------
(* The inductive invariant. *)

\* A session is one of those started for its message.
Made(s) == s[2] <= spawns[s[1]]

\* A thread that has not come to the runner handles a message nothing was
\* started for in this life of the bridge; later it has a session of its own.
ThreadOk(t) ==
  /\ pc[t] = "idle" <=> msg[t] = None
  /\ msg[t] # None => msg[t] \in seen
  /\ pc[t] \in {"read", "check", "spawn"} => spawns[msg[t]] <= restarts
  /\ pc[t] \in {"claim", "linger"} => sid[t] \in Sessions /\ sid[t][1] = msg[t]

OnceInv ==
  /\ \A t \in Threads : ThreadOk(t)
  /\ \A t, u \in Threads : msg[t] = msg[u] /\ msg[t] # None => t = u
  /\ \A m \in Messages \ seen : spawns[m] <= restarts
  /\ SpawnedOnce

\* Sessions that are kept anywhere were started, so that the next one is new;
\* the one a thread is about to claim with is in no row, and not over.
MadeInv ==
  /\ \A k \in Addressees : row[k] # None => Made(row[k]) /\ SessionKey(row[k]) = k
  /\ \A k \in Addressees : entry[k] # None => Made(entry[k]) /\ SessionKey(entry[k]) = k
  /\ \A s \in live \cup late \cup let \cup armed \cup fired \cup expiring : Made(s)
  /\ \A t \in Threads : pc[t] \in {"claim", "linger"} => Made(sid[t])

ClaimInv ==
  \A t \in Threads : pc[t] = "claim" =>
    sid[t] \notin late \cup let /\ \A k \in Addressees : row[k] # sid[t]

\* A session has no timer before its thread starts one.
TimerInv ==
  \A t \in Threads : pc[t] \in {"claim", "linger"} =>
    /\ sid[t] \notin armed \cup fired \cup expiring
    /\ \A k \in Addressees : entry[k] # sid[t]

\* As long as nothing got out of step, one thread at a time starts a session
\* for an addressee, only while its row is free, and what runs has the row or
\* is about to claim it.
Alone(k) ==
  /\ \A t, u \in Spawning(k) : t = u
  /\ Spawning(k) # {} => row[k] = None
  /\ \A s \in live : SessionKey(s) = k =>
       row[k] = s \/ \E t \in Threads : pc[t] = "claim" /\ sid[t] = s
  /\ \A t \in Threads : pc[t] = "linger" /\ SessionKey(sid[t]) = k => row[k] = sid[t]

AloneInv == \A k \in Addressees \ excused : Alone(k)

IInv == TypeOK /\ OnceInv /\ MadeInv /\ ClaimInv /\ TimerInv /\ AloneInv /\ RowWillGo

-----------------------------------------------------------------------------
(* Facts about the constants. *)

LEMMA KeyType ==
  /\ \A m \in Messages, file \in {"absent", "empty", "garbled", "head", "whole", "gone"} :
       KeyOf(m, file) \in Addressees
  /\ \A s \in Sessions : SessionKey(s) \in Addressees
  BY ConstantsAssumption DEF KeyOf, Line, Addressees, SessionKey, Sessions, Headers

\* Only a file that is there as a whole is headless, and then its key is the session's.
LEMMA HeadlessKey ==
  \A m \in Messages, file \in {"absent", "empty", "garbled", "head", "whole", "gone"} :
    Headless(m, file) => KeyOf(m, file) = KeyOf(m, "whole")
  BY ConstantsAssumption DEF Headless, KeyOf, Line

\* A thread that is not idle has a message, and later a session, which has an addressee.
LEMMA ThreadTypes ==
  ASSUME IInv, NEW t \in Threads
  PROVE  /\ pc[t] # "idle" => msg[t] \in Messages /\ bus[msg[t]] \in {"absent", "empty", "garbled", "head", "whole", "gone"}
         /\ pc[t] \in {"claim", "linger"} =>
              /\ sid[t] \in Sessions /\ sid[t] # None /\ sid[t][1] = msg[t]
              /\ SessionKey(sid[t]) \in Addressees
              /\ SessionKey(sid[t]) = KeyOf(msg[t], "whole")
<1>1. ThreadOk(t) /\ TypeOK
  BY DEF IInv, OnceInv
<1> QED
  BY <1>1, KeyType, ConstantsAssumption DEF ThreadOk, TypeOK, SessionKey, Sessions

\* No two threads have one session.
LEMMA OwnSession ==
  ASSUME IInv, NEW t \in Threads, NEW u \in Threads,
         pc[t] \in {"claim", "linger"}, pc[u] \in {"claim", "linger"}, sid[t] = sid[u]
  PROVE  t = u
<1>1. msg[t] = msg[u] /\ msg[t] # None
  BY ThreadTypes, ConstantsAssumption
<1> QED
  BY <1>1 DEF IInv, OnceInv

\* A session the runner starts is kept nowhere yet.
LEMMA NewIsNew ==
  ASSUME IInv, NEW m \in Messages, NEW s \in Sessions, Starts(m, s)
  PROVE  /\ Made(s)' /\ s[1] = m
         /\ \A x \in Sessions : Made(x) => Made(x)' /\ x # s
         /\ s \notin live \cup late \cup let \cup armed \cup fired \cup expiring
         /\ \A k \in Addressees : row[k] # s /\ entry[k] # s
         /\ \A t \in Threads : pc[t] \in {"claim", "linger"} => sid[t] # s
<1>1. /\ s = <<m, spawns[m] + 1>> /\ spawns' = [spawns EXCEPT ![m] = @ + 1]
      /\ spawns \in [Messages -> 0..MaxSpawns] /\ s # None
  BY ConstantsAssumption DEF Starts, IInv, TypeOK, Sessions
<1>2. Made(s)' /\ s[1] = m /\ ~Made(s)
  BY <1>1, ConstantsAssumption DEF Made
<1>3. ASSUME NEW x \in Sessions, Made(x) PROVE Made(x)' /\ x # s
  BY <1>1, <1>2, <1>3, ConstantsAssumption DEF Made, Sessions
<1> QED
  BY <1>1, <1>2, <1>3 DEF IInv, MadeInv

\* What a spawn that started s leaves: s is with its thread at most.
LEMMA SpawnFrame ==
  ASSUME IInv, NEW t \in Threads, NEW s \in Sessions, Spawn(t), Starts(msg[t], s)
  PROVE  \A u \in Threads : pc'[u] \in {"claim", "linger"} =>
           \/ u = t /\ sid'[u] = s /\ pc'[u] = "claim"
           \/ pc[u] \in {"claim", "linger"} /\ pc'[u] = pc[u] /\ sid'[u] = sid[u]
<1>1. pc \in [Threads -> {"idle", "read", "check", "spawn", "claim", "linger", "review", "dead"}]
      /\ sid \in [Threads -> Sessions \cup {None}]
  BY DEF IInv, TypeOK
<1>2. CASE SpawnAnswered(t)
  <2>1. pc' = [pc EXCEPT ![t] = "claim"] /\ sid' = [sid EXCEPT ![t] = s]
    BY <1>2 DEF SpawnAnswered, Starts, Goto
  <2> QED
    BY <1>1, <2>1
<1>3. CASE SpawnLost(t)
  <2>1. pc' = [pc EXCEPT ![t] = "idle"] /\ sid' = [sid EXCEPT ![t] = None]
    BY <1>3 DEF SpawnLost, Returns, Goto
  <2> QED
    BY <1>1, <2>1
<1> QED
  BY <1>2, <1>3 DEF Spawn

LEMMA TypeStep == IInv /\ [Next]_vars => TypeOK'
<1> SUFFICES ASSUME IInv, [Next]_vars PROVE TypeOK'
  OBVIOUS
<1> USE ConstantsAssumption DEF IInv, TypeOK, Threads
<1>1. ASSUME NEW m \in Messages, Publish(m) PROVE TypeOK'
  BY <1>1 DEF Publish, threadVars, lingerVars, historyVars
<1>2. ASSUME NEW m \in Messages, Write(m) PROVE TypeOK'
  BY <1>2 DEF Write, threadVars, lingerVars, historyVars
<1>3. ASSUME NEW m \in Messages, Archive(m) PROVE TypeOK'
  BY <1>3 DEF Archive, threadVars, lingerVars, historyVars
<1>4. ASSUME NEW s \in Sessions, SessionEnds(s) PROVE TypeOK'
  BY <1>4 DEF SessionEnds, threadVars, lingerVars, historyVars
<1>5. ASSUME NEW s \in Sessions, KillSession(s) PROVE TypeOK'
  BY <1>5 DEF KillSession, RunnerKill, threadVars, lingerVars, historyVars
<1>6. CASE Observe
  BY <1>6 DEF Observe, Dispatch, At, Goto, vars, threadVars, lingerVars, historyVars
<1>7. CASE ListPending
  BY <1>7 DEF ListPending, vars, threadVars, lingerVars, historyVars
<1>8. CASE TakePending
  BY <1>8 DEF TakePending, Dispatch, At, Goto, vars, threadVars, lingerVars, historyVars
<1>9. ASSUME NEW t \in Threads, ReadFile(t) PROVE TypeOK'
  BY <1>9 DEF ReadFile, At, Goto, Returns, threadVars, lingerVars, historyVars
<1>10. ASSUME NEW t \in Threads, CheckSession(t) PROVE TypeOK'
  <2>1. At(t, "check") /\ KeyOf(msg[t], bus[msg[t]]) \in Addressees
    BY <1>10, ThreadTypes, KeyType DEF CheckSession, At
  <2> QED
    BY <1>10, <2>1 DEF CheckSession, At, Goto, Returns, lingerVars
<1>11. ASSUME NEW t \in Threads, Spawn(t) PROVE TypeOK'
  BY <1>11, KeyType DEF Spawn, SpawnAnswered, SpawnLost, Starts, At, Goto, Returns, threadVars, lingerVars, historyVars
<1>12. ASSUME NEW t \in Threads, Claim(t) PROVE TypeOK'
  BY <1>12, ThreadTypes DEF Claim, ClaimRow, At, Goto, Returns, threadVars, lingerVars, historyVars
<1>13. ASSUME NEW t \in Threads, LingerStart(t) PROVE TypeOK'
  BY <1>13, ThreadTypes DEF LingerStart, StartTimer, At, Goto, Returns, threadVars, lingerVars, historyVars
<1>14. ASSUME NEW t \in Threads, Review(t) PROVE TypeOK'
  BY <1>14 DEF Review, At, Goto, Returns, threadVars, lingerVars, historyVars
<1>15. ASSUME NEW s \in Sessions, TimeOut(s) PROVE TypeOK'
  BY <1>15 DEF TimeOut, threadVars, lingerVars, historyVars
<1>16. ASSUME NEW s \in Sessions, Fire(s) PROVE TypeOK'
  BY <1>16, KeyType DEF Fire, threadVars, lingerVars, historyVars
<1>17. ASSUME NEW s \in Sessions, Release(s) PROVE TypeOK'
  BY <1>17, KeyType DEF Release, ReleaseRow, threadVars, lingerVars, historyVars
<1>18. CASE Restart
  <2>1. \A t \in Threads : pc[t] = "claim" => KeyOf(msg[t], "whole") \in Addressees /\ sid[t] \in Sessions
    BY ThreadTypes, KeyType
  <2> QED
    BY <1>18, <2>1 DEF Restart
<1>19. CASE UNCHANGED vars
  BY <1>19 DEF vars, threadVars, lingerVars, historyVars
<1> QED
  BY <1>1, <1>2, <1>3, <1>4, <1>5, <1>6, <1>7, <1>8, <1>9, <1>10, <1>11, <1>12, <1>13, <1>14, <1>15, <1>16, <1>17, <1>18, <1>19 DEF Next, ThreadNext, TimerNext

LEMMA OnceStep == IInv /\ [Next]_vars => OnceInv'
<1> SUFFICES ASSUME IInv, [Next]_vars PROVE OnceInv'
  OBVIOUS
<1> USE ConstantsAssumption DEF IInv, TypeOK, OnceInv, ThreadOk, SpawnedOnce, Threads
<1>1. ASSUME NEW m \in Messages, Publish(m) PROVE OnceInv'
  BY <1>1 DEF Publish, threadVars, lingerVars, historyVars
<1>2. ASSUME NEW m \in Messages, Write(m) PROVE OnceInv'
  BY <1>2 DEF Write, threadVars, lingerVars, historyVars
<1>3. ASSUME NEW m \in Messages, Archive(m) PROVE OnceInv'
  BY <1>3 DEF Archive, threadVars, lingerVars, historyVars
<1>4. ASSUME NEW s \in Sessions, SessionEnds(s) PROVE OnceInv'
  BY <1>4 DEF SessionEnds, threadVars, lingerVars, historyVars
<1>5. ASSUME NEW s \in Sessions, KillSession(s) PROVE OnceInv'
  BY <1>5 DEF KillSession, RunnerKill, threadVars, lingerVars, historyVars
<1>6. CASE Observe
  BY <1>6 DEF Observe, Dispatch, At, Goto, vars, threadVars, lingerVars, historyVars
<1>7. CASE ListPending
  BY <1>7 DEF ListPending, vars, threadVars, lingerVars, historyVars
<1>8. CASE TakePending
  BY <1>8 DEF TakePending, Dispatch, At, Goto, vars, threadVars, lingerVars, historyVars
<1>9. ASSUME NEW t \in Threads, ReadFile(t) PROVE OnceInv'
  BY <1>9 DEF ReadFile, At, Goto, Returns, threadVars, lingerVars, historyVars
<1>10. ASSUME NEW t \in Threads, CheckSession(t) PROVE OnceInv'
  BY <1>10 DEF CheckSession, At, Goto, Returns, threadVars, lingerVars, historyVars
<1>11. ASSUME NEW t \in Threads, Spawn(t) PROVE OnceInv'
  BY <1>11 DEF Spawn, SpawnAnswered, SpawnLost, Starts, At, Goto, Returns, threadVars, lingerVars, historyVars
<1>12. ASSUME NEW t \in Threads, Claim(t) PROVE OnceInv'
  BY <1>12 DEF Claim, ClaimRow, At, Goto, Returns, threadVars, lingerVars, historyVars
<1>13. ASSUME NEW t \in Threads, LingerStart(t) PROVE OnceInv'
  BY <1>13 DEF LingerStart, StartTimer, At, Goto, Returns, threadVars, lingerVars, historyVars
<1>14. ASSUME NEW t \in Threads, Review(t) PROVE OnceInv'
  BY <1>14 DEF Review, At, Goto, Returns, threadVars, lingerVars, historyVars
<1>15. ASSUME NEW s \in Sessions, TimeOut(s) PROVE OnceInv'
  BY <1>15 DEF TimeOut, threadVars, lingerVars, historyVars
<1>16. ASSUME NEW s \in Sessions, Fire(s) PROVE OnceInv'
  BY <1>16 DEF Fire, threadVars, lingerVars, historyVars
<1>17. ASSUME NEW s \in Sessions, Release(s) PROVE OnceInv'
  BY <1>17 DEF Release, ReleaseRow, threadVars, lingerVars, historyVars
<1>18. CASE Restart
  BY <1>18 DEF Restart, vars, threadVars, lingerVars, historyVars
<1>19. CASE UNCHANGED vars
  BY <1>19 DEF vars, threadVars, lingerVars, historyVars
<1> QED
  BY <1>1, <1>2, <1>3, <1>4, <1>5, <1>6, <1>7, <1>8, <1>9, <1>10, <1>11, <1>12, <1>13, <1>14, <1>15, <1>16, <1>17, <1>18, <1>19 DEF Next, ThreadNext, TimerNext

LEMMA MadeStep == IInv /\ [Next]_vars => MadeInv'
<1> SUFFICES ASSUME IInv, [Next]_vars PROVE MadeInv'
  OBVIOUS
<1> USE ConstantsAssumption DEF IInv, TypeOK, MadeInv, Made, Threads
<1>1. ASSUME NEW m \in Messages, Publish(m) PROVE MadeInv'
  BY <1>1 DEF Publish, threadVars, lingerVars, historyVars
<1>2. ASSUME NEW m \in Messages, Write(m) PROVE MadeInv'
  BY <1>2 DEF Write, threadVars, lingerVars, historyVars
<1>3. ASSUME NEW m \in Messages, Archive(m) PROVE MadeInv'
  BY <1>3 DEF Archive, threadVars, lingerVars, historyVars
<1>4. ASSUME NEW s \in Sessions, SessionEnds(s) PROVE MadeInv'
  BY <1>4 DEF SessionEnds, threadVars, lingerVars, historyVars
<1>5. ASSUME NEW s \in Sessions, KillSession(s) PROVE MadeInv'
  BY <1>5 DEF KillSession, RunnerKill, threadVars, lingerVars, historyVars
<1>6. CASE Observe
  BY <1>6 DEF Observe, Dispatch, At, Goto, vars, threadVars, lingerVars, historyVars
<1>7. CASE ListPending
  BY <1>7 DEF ListPending, vars, threadVars, lingerVars, historyVars
<1>8. CASE TakePending
  BY <1>8 DEF TakePending, Dispatch, At, Goto, vars, threadVars, lingerVars, historyVars
<1>9. ASSUME NEW t \in Threads, ReadFile(t) PROVE MadeInv'
  BY <1>9 DEF ReadFile, At, Goto, Returns, threadVars, lingerVars, historyVars
<1>10. ASSUME NEW t \in Threads, CheckSession(t) PROVE MadeInv'
  BY <1>10 DEF CheckSession, At, Goto, Returns, threadVars, lingerVars, historyVars
<1>11. ASSUME NEW t \in Threads, Spawn(t) PROVE MadeInv'
  <2>1. At(t, "spawn") /\ msg[t] \in Messages
    BY <1>11, ThreadTypes DEF Spawn, At
  <2>2. CASE UNCHANGED <<live, spawns>>
    BY <1>11, <2>1, <2>2 DEF Spawn, SpawnAnswered, SpawnLost, At, Goto, Returns, Starts, lingerVars
  <2>3. CASE \E s \in Sessions : Starts(msg[t], s)
    <3>1. PICK s \in Sessions : Starts(msg[t], s)
      BY <2>3
    <3>2. UNCHANGED <<row, late, let, entry, armed, fired, expiring>> /\ live' = live \cup {s}
      BY <1>11, <3>1 DEF Spawn, Starts, lingerVars
    <3> HIDE DEF Made, IInv, TypeOK
    <3>3. /\ row \in [Addressees -> Sessions \cup {None}] /\ entry \in [Addressees -> Sessions \cup {None}]
          /\ live \cup late \cup let \cup armed \cup fired \cup expiring \subseteq Sessions
      BY DEF IInv, TypeOK
    <3>4. MadeInv
      BY DEF IInv
    <3>5. Made(s)' /\ \A x \in Sessions : Made(x) => Made(x)'
      BY <3>1, <2>1, NewIsNew
    <3>6. ASSUME NEW k \in Addressees
          PROVE  /\ row'[k] # None => row'[k][2] <= spawns'[row'[k][1]] /\ SessionKey(row'[k]) = k
                 /\ entry'[k] # None => entry'[k][2] <= spawns'[entry'[k][1]] /\ SessionKey(entry'[k]) = k
      <4>1. ASSUME row[k] # None PROVE row[k][2] <= spawns'[row[k][1]] /\ SessionKey(row[k]) = k
        <5>1. PICK x \in Sessions : x = row[k] /\ Made(x) /\ SessionKey(x) = k
          BY <3>3, <3>4, <4>1 DEF MadeInv
        <5>2. Made(x)'
          BY <3>5, <5>1
        <5> QED
          BY <5>1, <5>2 DEF Made
      <4>2. ASSUME entry[k] # None PROVE entry[k][2] <= spawns'[entry[k][1]] /\ SessionKey(entry[k]) = k
        <5>1. PICK x \in Sessions : x = entry[k] /\ Made(x) /\ SessionKey(x) = k
          BY <3>3, <3>4, <4>2 DEF MadeInv
        <5>2. Made(x)'
          BY <3>5, <5>1
        <5> QED
          BY <5>1, <5>2 DEF Made
      <4> QED
        BY <3>2, <4>1, <4>2
    <3>7. ASSUME NEW u \in Threads, pc'[u] \in {"claim", "linger"} PROVE sid'[u][2] <= spawns'[sid'[u][1]]
      <4>1. CASE sid'[u] = s
        BY <4>1, <3>5 DEF Made
      <4>2. CASE pc[u] \in {"claim", "linger"} /\ sid'[u] = sid[u]
        <5>1. Made(sid[u])' /\ sid'[u] = sid[u]
          BY <4>2, <3>4, <3>5, ThreadTypes
        <5> QED
          BY <5>1 DEF Made
      <4> QED
        BY <1>11, <3>1, <3>7, <4>1, <4>2, SpawnFrame
    <3>8. ASSUME NEW x \in live' \cup late' \cup let' \cup armed' \cup fired' \cup expiring'
          PROVE  x[2] <= spawns'[x[1]]
      <4>1. Made(x)'
        BY <3>2, <3>3, <3>4, <3>5 DEF MadeInv
      <4> QED
        BY <4>1 DEF Made
    <3> QED
      BY <3>6, <3>7, <3>8 DEF Made
  <2> QED
    BY <1>11, <2>2, <2>3 DEF Spawn, SpawnAnswered, SpawnLost
<1>12. ASSUME NEW t \in Threads, Claim(t) PROVE MadeInv'
  BY <1>12 DEF Claim, ClaimRow, At, Goto, Returns, threadVars, lingerVars, historyVars
<1>13. ASSUME NEW t \in Threads, LingerStart(t) PROVE MadeInv'
  BY <1>13 DEF LingerStart, StartTimer, At, Goto, Returns, threadVars, lingerVars, historyVars
<1>14. ASSUME NEW t \in Threads, Review(t) PROVE MadeInv'
  BY <1>14 DEF Review, At, Goto, Returns, threadVars, lingerVars, historyVars
<1>15. ASSUME NEW s \in Sessions, TimeOut(s) PROVE MadeInv'
  BY <1>15 DEF TimeOut, threadVars, lingerVars, historyVars
<1>16. ASSUME NEW s \in Sessions, Fire(s) PROVE MadeInv'
  BY <1>16, KeyType DEF Fire, threadVars, lingerVars, historyVars
<1>17. ASSUME NEW s \in Sessions, Release(s) PROVE MadeInv'
  BY <1>17 DEF Release, ReleaseRow, threadVars, lingerVars, historyVars
<1>18. CASE Restart
  BY <1>18 DEF Restart, vars, threadVars, lingerVars, historyVars
<1>19. CASE UNCHANGED vars
  BY <1>19 DEF vars, threadVars, lingerVars, historyVars
<1> QED
  BY <1>1, <1>2, <1>3, <1>4, <1>5, <1>6, <1>7, <1>8, <1>9, <1>10, <1>11, <1>12, <1>13, <1>14, <1>15, <1>16, <1>17, <1>18, <1>19 DEF Next, ThreadNext, TimerNext

LEMMA ClaimStep == IInv /\ [Next]_vars => ClaimInv'
<1> SUFFICES ASSUME IInv, [Next]_vars PROVE ClaimInv'
  OBVIOUS
<1> USE ConstantsAssumption DEF IInv, TypeOK, ClaimInv, Threads
<1>1. ASSUME NEW m \in Messages, Publish(m) PROVE ClaimInv'
  BY <1>1 DEF Publish, threadVars, lingerVars, historyVars
<1>2. ASSUME NEW m \in Messages, Write(m) PROVE ClaimInv'
  BY <1>2 DEF Write, threadVars, lingerVars, historyVars
<1>3. ASSUME NEW m \in Messages, Archive(m) PROVE ClaimInv'
  BY <1>3 DEF Archive, threadVars, lingerVars, historyVars
<1>4. ASSUME NEW s \in Sessions, SessionEnds(s) PROVE ClaimInv'
  BY <1>4 DEF SessionEnds, threadVars, lingerVars, historyVars
<1>5. ASSUME NEW s \in Sessions, KillSession(s) PROVE ClaimInv'
  BY <1>5 DEF KillSession, RunnerKill, threadVars, lingerVars, historyVars
<1>6. CASE Observe
  BY <1>6 DEF Observe, Dispatch, At, Goto, vars, threadVars, lingerVars, historyVars
<1>7. CASE ListPending
  BY <1>7 DEF ListPending, vars, threadVars, lingerVars, historyVars
<1>8. CASE TakePending
  BY <1>8 DEF TakePending, Dispatch, At, Goto, vars, threadVars, lingerVars, historyVars
<1>9. ASSUME NEW t \in Threads, ReadFile(t) PROVE ClaimInv'
  BY <1>9 DEF ReadFile, At, Goto, Returns, threadVars, lingerVars, historyVars
<1>10. ASSUME NEW t \in Threads, CheckSession(t) PROVE ClaimInv'
  BY <1>10 DEF CheckSession, At, Goto, Returns, threadVars, lingerVars, historyVars
<1>11. ASSUME NEW t \in Threads, Spawn(t) PROVE ClaimInv'
  <2>1. At(t, "spawn") /\ msg[t] \in Messages
    BY <1>11, ThreadTypes DEF Spawn, At
  <2>2. CASE UNCHANGED <<live, spawns>>
    BY <1>11, <2>1, <2>2 DEF Spawn, SpawnAnswered, SpawnLost, At, Goto, Returns, Starts, lingerVars
  <2>3. CASE \E s \in Sessions : Starts(msg[t], s)
    <3>1. PICK s \in Sessions : Starts(msg[t], s)
      BY <2>3
    <3>2. UNCHANGED <<row, late, let, entry, armed, fired, expiring>> /\ live' = live \cup {s}
      BY <1>11, <3>1 DEF Spawn, Starts, lingerVars
    <3> QED
      BY <1>11, <3>1, <3>2, SpawnFrame, NewIsNew, <2>1
  <2> QED
    BY <1>11, <2>2, <2>3 DEF Spawn, SpawnAnswered, SpawnLost
<1>12. ASSUME NEW t \in Threads, Claim(t) PROVE ClaimInv'
  <2>1. \A u \in Threads : pc[u] = "claim" /\ u # t => sid[u] # sid[t]
    BY <1>12, OwnSession DEF Claim, At
  <2> QED
    BY <1>12, <2>1, ThreadTypes DEF Claim, ClaimRow, At, Goto, Returns
<1>13. ASSUME NEW t \in Threads, LingerStart(t) PROVE ClaimInv'
  BY <1>13 DEF LingerStart, StartTimer, At, Goto, Returns, threadVars, lingerVars, historyVars
<1>14. ASSUME NEW t \in Threads, Review(t) PROVE ClaimInv'
  BY <1>14 DEF Review, At, Goto, Returns, threadVars, lingerVars, historyVars
<1>15. ASSUME NEW s \in Sessions, TimeOut(s) PROVE ClaimInv'
  BY <1>15 DEF TimeOut, threadVars, lingerVars, historyVars
<1>16. ASSUME NEW s \in Sessions, Fire(s) PROVE ClaimInv'
  BY <1>16 DEF Fire, threadVars, lingerVars, historyVars
<1>17. ASSUME NEW s \in Sessions, Release(s) PROVE ClaimInv'
  <2>1. let' \subseteq let \cup {s} /\ UNCHANGED <<pc, sid, late>> /\ SessionKey(s) \in Addressees
    BY <1>17, KeyType DEF Release, ReleaseRow, threadVars
  <2>2. \/ row[SessionKey(s)] = s /\ row' = [row EXCEPT ![SessionKey(s)] = None]
        \/ UNCHANGED <<row, let>>
    BY <1>17 DEF Release, ReleaseRow
  <2> QED
    BY <2>1, <2>2, ThreadTypes
<1>18. CASE Restart
  BY <1>18 DEF Restart, vars, threadVars, lingerVars, historyVars
<1>19. CASE UNCHANGED vars
  BY <1>19 DEF vars, threadVars, lingerVars, historyVars
<1> QED
  BY <1>1, <1>2, <1>3, <1>4, <1>5, <1>6, <1>7, <1>8, <1>9, <1>10, <1>11, <1>12, <1>13, <1>14, <1>15, <1>16, <1>17, <1>18, <1>19 DEF Next, ThreadNext, TimerNext

LEMMA TimerStep == IInv /\ [Next]_vars => TimerInv'
<1> SUFFICES ASSUME IInv, [Next]_vars PROVE TimerInv'
  OBVIOUS
<1> USE ConstantsAssumption DEF IInv, TypeOK, TimerInv, Threads
<1>1. ASSUME NEW m \in Messages, Publish(m) PROVE TimerInv'
  BY <1>1 DEF Publish, threadVars, lingerVars, historyVars
<1>2. ASSUME NEW m \in Messages, Write(m) PROVE TimerInv'
  BY <1>2 DEF Write, threadVars, lingerVars, historyVars
<1>3. ASSUME NEW m \in Messages, Archive(m) PROVE TimerInv'
  BY <1>3 DEF Archive, threadVars, lingerVars, historyVars
<1>4. ASSUME NEW s \in Sessions, SessionEnds(s) PROVE TimerInv'
  BY <1>4 DEF SessionEnds, threadVars, lingerVars, historyVars
<1>5. ASSUME NEW s \in Sessions, KillSession(s) PROVE TimerInv'
  BY <1>5 DEF KillSession, RunnerKill, threadVars, lingerVars, historyVars
<1>6. CASE Observe
  BY <1>6 DEF Observe, Dispatch, At, Goto, vars, threadVars, lingerVars, historyVars
<1>7. CASE ListPending
  BY <1>7 DEF ListPending, vars, threadVars, lingerVars, historyVars
<1>8. CASE TakePending
  BY <1>8 DEF TakePending, Dispatch, At, Goto, vars, threadVars, lingerVars, historyVars
<1>9. ASSUME NEW t \in Threads, ReadFile(t) PROVE TimerInv'
  BY <1>9 DEF ReadFile, At, Goto, Returns, threadVars, lingerVars, historyVars
<1>10. ASSUME NEW t \in Threads, CheckSession(t) PROVE TimerInv'
  BY <1>10 DEF CheckSession, At, Goto, Returns, threadVars, lingerVars, historyVars
<1>11. ASSUME NEW t \in Threads, Spawn(t) PROVE TimerInv'
  <2>1. At(t, "spawn") /\ msg[t] \in Messages
    BY <1>11, ThreadTypes DEF Spawn, At
  <2>2. CASE UNCHANGED <<live, spawns>>
    BY <1>11, <2>1, <2>2 DEF Spawn, SpawnAnswered, SpawnLost, At, Goto, Returns, Starts, lingerVars
  <2>3. CASE \E s \in Sessions : Starts(msg[t], s)
    <3>1. PICK s \in Sessions : Starts(msg[t], s)
      BY <2>3
    <3>2. UNCHANGED <<row, late, let, entry, armed, fired, expiring>> /\ live' = live \cup {s}
      BY <1>11, <3>1 DEF Spawn, Starts, lingerVars
    <3> QED
      BY <1>11, <3>1, <3>2, SpawnFrame, NewIsNew, <2>1
  <2> QED
    BY <1>11, <2>2, <2>3 DEF Spawn, SpawnAnswered, SpawnLost
<1>12. ASSUME NEW t \in Threads, Claim(t) PROVE TimerInv'
  BY <1>12 DEF Claim, ClaimRow, At, Goto, Returns, threadVars, lingerVars, historyVars
<1>13. ASSUME NEW t \in Threads, LingerStart(t) PROVE TimerInv'
  <2>1. \A u \in Threads : pc[u] \in {"claim", "linger"} /\ u # t => sid[u] # sid[t]
    BY <1>13, OwnSession DEF LingerStart, At
  <2> QED
    BY <1>13, <2>1, ThreadTypes DEF LingerStart, StartTimer, At, Goto, Returns
<1>14. ASSUME NEW t \in Threads, Review(t) PROVE TimerInv'
  BY <1>14 DEF Review, At, Goto, Returns, threadVars, lingerVars, historyVars
<1>15. ASSUME NEW s \in Sessions, TimeOut(s) PROVE TimerInv'
  BY <1>15 DEF TimeOut, threadVars, lingerVars, historyVars
<1>16. ASSUME NEW s \in Sessions, Fire(s) PROVE TimerInv'
  <2>1. /\ SessionKey(s) \in Addressees
        /\ expiring' = expiring \cup ({entry[SessionKey(s)]} \ {None})
        /\ entry' = [entry EXCEPT ![SessionKey(s)] = None]
        /\ fired' \subseteq fired /\ UNCHANGED <<armed, pc, sid>>
    BY <1>16, KeyType DEF Fire, threadVars
  <2> QED
    BY <2>1, ThreadTypes
<1>17. ASSUME NEW s \in Sessions, Release(s) PROVE TimerInv'
  BY <1>17 DEF Release, ReleaseRow, threadVars, lingerVars, historyVars
<1>18. CASE Restart
  BY <1>18 DEF Restart, vars, threadVars, lingerVars, historyVars
<1>19. CASE UNCHANGED vars
  BY <1>19 DEF vars, threadVars, lingerVars, historyVars
<1> QED
  BY <1>1, <1>2, <1>3, <1>4, <1>5, <1>6, <1>7, <1>8, <1>9, <1>10, <1>11, <1>12, <1>13, <1>14, <1>15, <1>16, <1>17, <1>18, <1>19 DEF Next, ThreadNext, TimerNext

-----------------------------------------------------------------------------
(* Addressees in step. *)

\* A thread in Spawning has its key from the message.
LEMMA ClaimsSpawn ==
  ASSUME IInv, NEW t \in Threads, pc[t] = "claim"
  PROVE  t \in Spawning(SessionKey(sid[t]))
  BY ThreadTypes DEF Spawning

\* Steps that start, claim and release nothing of k.
LEMMA AloneFrame ==
  ASSUME NEW k \in Addressees, Alone(k), row'[k] = row[k], live' \subseteq live,
         \A t \in Threads :
           /\ pc'[t] \in {"spawn", "claim"} => pc[t] = pc'[t] /\ msg'[t] = msg[t]
           /\ pc'[t] = "linger" => pc[t] = "linger" /\ sid'[t] = sid[t]
           /\ pc[t] = "claim" => pc'[t] = "claim" /\ sid'[t] = sid[t]
  PROVE  Alone(k)'
<1>1. Spawning(k)' \subseteq Spawning(k)
  BY DEF Spawning
<1> QED
  BY <1>1 DEF Alone

LEMMA AloneCheck ==
  ASSUME IInv, NEW t \in Threads, CheckSession(t), NEW k \in Addressees, Alone(k), k \notin excused'
  PROVE  Alone(k)'
<1>1. /\ pc \in [Threads -> {"idle", "read", "check", "spawn", "claim", "linger", "review", "dead"}]
      /\ pc[t] = "check" /\ UNCHANGED <<row, live>>
      /\ msg \in [Threads -> Messages \cup {None}] /\ sid \in [Threads -> Sessions \cup {None}]
  BY DEF IInv, TypeOK, CheckSession, At
<1>2. ASSUME pc'[t] # "spawn" PROVE Alone(k)'
  <2>1. /\ pc' = [pc EXCEPT ![t] = "idle"] \/ pc' = [pc EXCEPT ![t] = "review"] \/ pc' = [pc EXCEPT ![t] = "spawn"]
        /\ \A u \in Threads \ {t} : msg'[u] = msg[u] /\ sid'[u] = sid[u]
    BY <1>1 DEF CheckSession, Returns, Goto
  <2> QED
    BY <1>1, <1>2, <2>1, AloneFrame
<1>3. ASSUME pc'[t] = "spawn" PROVE Alone(k)'
  <2>1. /\ pc' = [pc EXCEPT ![t] = "spawn"] /\ UNCHANGED <<msg, sid>>
        /\ Headless(msg[t], bus[msg[t]])
        /\ ~Sessioned(KeyOf(msg[t], bus[msg[t]]))
        /\ Spawning(KeyOf(msg[t], bus[msg[t]])) # {} => KeyOf(msg[t], bus[msg[t]]) \in excused'
    BY <1>1, <1>3 DEF CheckSession, Returns, Goto
  <2>2. KeyOf(msg[t], bus[msg[t]]) = KeyOf(msg[t], "whole")
    BY <1>1, <2>1, HeadlessKey, ThreadTypes
  <2>3. CASE k # KeyOf(msg[t], "whole")
    <3>1. Spawning(k)' = Spawning(k)
      BY <1>1, <2>1, <2>3 DEF Spawning
    <3> QED
      BY <1>1, <2>1, <3>1 DEF Alone
  <2>4. CASE k = KeyOf(msg[t], "whole")
    <3>1. Spawning(k) = {} /\ row[k] = None
      BY <2>1, <2>2, <2>4 DEF Sessioned
    <3>2. Spawning(k)' \subseteq {t}
      BY <1>1, <2>1, <3>1 DEF Spawning
    <3> QED
      BY <1>1, <2>1, <3>1, <3>2 DEF Alone
  <2> QED
    BY <2>3, <2>4
<1> QED
  BY <1>2, <1>3

LEMMA AloneSpawn ==
  ASSUME IInv, NEW t \in Threads, Spawn(t), NEW k \in Addressees, Alone(k), k \notin excused'
  PROVE  Alone(k)'
<1>1. /\ pc \in [Threads -> {"idle", "read", "check", "spawn", "claim", "linger", "review", "dead"}]
      /\ pc[t] = "spawn" /\ UNCHANGED row
      /\ msg \in [Threads -> Messages \cup {None}] /\ sid \in [Threads -> Sessions \cup {None}]
  BY DEF IInv, TypeOK, Spawn, At
<1>2. CASE SpawnLost(t)
  <2>1. /\ pc' = [pc EXCEPT ![t] = "idle"] /\ msg' = [msg EXCEPT ![t] = None]
        /\ sid' = [sid EXCEPT ![t] = None]
    BY <1>2 DEF SpawnLost, Returns, Goto
  <2>2. CASE live' \subseteq live
    BY <1>1, <2>1, <2>2, AloneFrame
  <2>3. CASE \E s \in Sessions : Starts(msg[t], s) /\ excused' = excused \cup {SessionKey(s)}
    <3>1. PICK s \in Sessions : live' = live \cup {s} /\ k # SessionKey(s)
      BY <2>3 DEF Starts
    <3>2. Spawning(k)' \subseteq Spawning(k)
      BY <1>1, <2>1 DEF Spawning
    <3> QED
      BY <1>1, <2>1, <3>1, <3>2 DEF Alone
  <2> QED
    BY <1>2, <2>2, <2>3 DEF SpawnLost
<1>3. CASE SpawnAnswered(t)
  <2>1. PICK s \in Sessions : /\ Starts(msg[t], s)
                             /\ pc' = [pc EXCEPT ![t] = "claim"]
                             /\ sid' = [sid EXCEPT ![t] = s] /\ UNCHANGED msg
    BY <1>3 DEF SpawnAnswered, Goto
  <2>2. Spawning(k)' = Spawning(k)
    BY <1>1, <2>1 DEF Spawning
  <2>3. live' = live \cup {s}
    BY <2>1 DEF Starts
  <2> QED
    BY <1>1, <2>1, <2>2, <2>3 DEF Alone
<1> QED
  BY <1>2, <1>3 DEF Spawn

LEMMA AloneClaim ==
  ASSUME IInv, NEW t \in Threads, Claim(t), pc'[t] = "linger", NEW k \in Addressees, Alone(k)
  PROVE  Alone(k)'
<1>1. /\ pc \in [Threads -> {"idle", "read", "check", "spawn", "claim", "linger", "review", "dead"}]
      /\ pc[t] = "claim" /\ UNCHANGED <<live, msg, sid>> /\ ClaimRow(SessionKey(sid[t]), sid[t])
      /\ pc' = [pc EXCEPT ![t] = "linger"]
      /\ row \in [Addressees -> Sessions \cup {None}]
  BY DEF IInv, TypeOK, Claim, At, Goto, Returns
<1>2. t \in Spawning(SessionKey(sid[t])) /\ SessionKey(sid[t]) \in Addressees /\ sid[t] # None
  BY <1>1, ClaimsSpawn, ThreadTypes
<1>3. Spawning(k)' = Spawning(k) \ {t}
  BY <1>1 DEF Spawning
<1>4. CASE k # SessionKey(sid[t])
  <2>1. row'[k] = row[k]
    BY <1>1, <1>2, <1>4 DEF ClaimRow
  <2> QED
    BY <1>1, <1>3, <1>4, <2>1 DEF Alone
<1>5. CASE k = SessionKey(sid[t])
  <2>1. row[k] = None /\ row'[k] = sid[t] /\ Spawning(k)' = {}
    <3>1. Spawning(k) # {} /\ \A u \in Spawning(k) : u = t
      BY <1>2, <1>5 DEF Alone
    <3>2. row[k] = None /\ Spawning(k)' = {}
      BY <1>3, <3>1 DEF Alone
    <3> QED
      BY <1>1, <1>2, <1>5, <3>2 DEF ClaimRow
  <2>2. ASSUME NEW s \in live, SessionKey(s) = k PROVE row'[k] = s
    <3>1. s \in Sessions
      BY DEF IInv, TypeOK
    <3>2. PICK u \in Threads : pc[u] = "claim" /\ sid[u] = s
      BY <2>1, <2>2, <3>1, ConstantsAssumption DEF Alone, Sessions
    <3>3. u \in Spawning(k)
      BY <2>2, <3>2, ClaimsSpawn
    <3> QED
      BY <1>2, <1>5, <2>1, <3>2, <3>3 DEF Alone
  <2>3. ASSUME NEW u \in Threads, pc'[u] = "linger", SessionKey(sid'[u]) = k PROVE row'[k] = sid'[u]
    <3>1. CASE u # t
      BY <1>1, <2>1, <2>3, <3>1, ThreadTypes DEF Alone
    <3> QED
      BY <1>1, <2>1, <3>1
  <2> QED
    BY <1>1, <2>1, <2>2, <2>3 DEF Alone
<1> QED
  BY <1>4, <1>5

\* A claim that raises excuses its addressee, and is no matter of the others.
LEMMA AloneClaimRaises ==
  ASSUME IInv, NEW t \in Threads, Claim(t), pc'[t] # "linger",
         NEW k \in Addressees, Alone(k), k \notin excused'
  PROVE  Alone(k)'
<1>1. /\ pc \in [Threads -> {"idle", "read", "check", "spawn", "claim", "linger", "review", "dead"}]
      /\ msg \in [Threads -> Messages \cup {None}] /\ sid \in [Threads -> Sessions \cup {None}]
      /\ pc[t] = "claim" /\ UNCHANGED live /\ k # SessionKey(sid[t])
      /\ pc' = [pc EXCEPT ![t] = "idle"] /\ msg' = [msg EXCEPT ![t] = None]
      /\ sid' = [sid EXCEPT ![t] = None]
  BY DEF IInv, TypeOK, Claim, At, Goto, Returns
<1>2. row'[k] = row[k]
  BY <1>1 DEF Claim, ClaimRow, IInv, TypeOK
<1>3. Spawning(k)' \subseteq Spawning(k)
  BY <1>1 DEF Spawning
<1> QED
  BY <1>1, <1>2, <1>3 DEF Alone

LEMMA AloneRelease ==
  ASSUME IInv, NEW s \in Sessions, Release(s), NEW k \in Addressees, Alone(k), k \notin excused'
  PROVE  Alone(k)'
<1>1. UNCHANGED <<pc, msg, sid, live>> /\ s \in expiring
      /\ row \in [Addressees -> Sessions \cup {None}] /\ live \subseteq Sessions
      /\ SessionKey(s) \in Addressees
  BY KeyType DEF Release, threadVars, IInv, TypeOK
<1>2. CASE row'[k] = row[k]
  BY <1>1, <1>2, AloneFrame
<1>3. CASE row'[k] # row[k]
  <2>1. k = SessionKey(s) /\ row[k] = s /\ s \notin live
    BY <1>1, <1>3 DEF Release, ReleaseRow
  <2>2. Spawning(k)' = {} /\ Spawning(k) = {}
    BY <1>1, <2>1, ConstantsAssumption DEF Alone, Spawning, Sessions
  <2>3. \A u \in Threads : pc[u] = "linger" => sid[u] # s
    BY <1>1 DEF IInv, TimerInv
  <2> QED
    BY <1>1, <2>1, <2>2, <2>3 DEF Alone
<1> QED
  BY <1>2, <1>3

LEMMA AloneRestart ==
  ASSUME IInv, Restart, NEW k \in Addressees, Alone(k), k \notin excused'
  PROVE  Alone(k)'
<1>1. /\ \A t \in Threads : pc'[t] = "idle"
      /\ UNCHANGED <<row, live>>
      /\ \A t \in Threads : pc[t] = "claim" => k # KeyOf(msg[t], "whole")
  BY DEF Restart
<1>2. Spawning(k)' = {}
  BY <1>1 DEF Spawning
<1>3. \A t \in Threads : pc[t] = "claim" => SessionKey(sid[t]) # k
  BY <1>1, ThreadTypes
<1> QED
  BY <1>1, <1>2, <1>3 DEF Alone

LEMMA AloneStep == IInv /\ [Next]_vars => AloneInv'
<1> SUFFICES ASSUME IInv, [Next]_vars PROVE AloneInv'
  OBVIOUS
<1> USE ConstantsAssumption DEF IInv, TypeOK, AloneInv, Threads
<1>1. ASSUME NEW m \in Messages, Publish(m) PROVE AloneInv'
  BY <1>1, AloneFrame DEF Publish, threadVars, lingerVars, historyVars
<1>2. ASSUME NEW m \in Messages, Write(m) PROVE AloneInv'
  BY <1>2, AloneFrame DEF Write, threadVars, lingerVars, historyVars
<1>3. ASSUME NEW m \in Messages, Archive(m) PROVE AloneInv'
  BY <1>3, AloneFrame DEF Archive, threadVars, lingerVars, historyVars
<1>4. ASSUME NEW s \in Sessions, SessionEnds(s) PROVE AloneInv'
  BY <1>4, AloneFrame DEF SessionEnds, threadVars, lingerVars, historyVars
<1>5. ASSUME NEW s \in Sessions, KillSession(s) PROVE AloneInv'
  BY <1>5, AloneFrame DEF KillSession, RunnerKill, threadVars, lingerVars, historyVars
<1>6. CASE Observe
  BY <1>6, AloneFrame DEF Observe, Dispatch, At, Goto, vars, threadVars, lingerVars, historyVars
<1>7. CASE ListPending
  BY <1>7, AloneFrame DEF ListPending, vars, threadVars, lingerVars, historyVars
<1>8. CASE TakePending
  BY <1>8, AloneFrame DEF TakePending, Dispatch, At, Goto, vars, threadVars, lingerVars, historyVars
<1>9. ASSUME NEW t \in Threads, ReadFile(t) PROVE AloneInv'
  BY <1>9, AloneFrame DEF ReadFile, At, Goto, Returns, threadVars, lingerVars, historyVars
<1>10. ASSUME NEW t \in Threads, CheckSession(t) PROVE AloneInv'
  <2>1. excused \subseteq excused'
    BY <1>10 DEF CheckSession
  <2> QED
    BY <1>10, <2>1, AloneCheck
<1>11. ASSUME NEW t \in Threads, Spawn(t) PROVE AloneInv'
  <2>1. excused \subseteq excused'
    BY <1>11 DEF Spawn, SpawnAnswered, SpawnLost
  <2> QED
    BY <1>11, <2>1, AloneSpawn
<1>12. ASSUME NEW t \in Threads, Claim(t) PROVE AloneInv'
  <2>1. excused \subseteq excused'
    BY <1>12 DEF Claim
  <2> QED
    BY <1>12, <2>1, AloneClaim, AloneClaimRaises
<1>13. ASSUME NEW t \in Threads, LingerStart(t) PROVE AloneInv'
  BY <1>13, AloneFrame DEF LingerStart, StartTimer, At, Goto, Returns, threadVars, lingerVars, historyVars
<1>14. ASSUME NEW t \in Threads, Review(t) PROVE AloneInv'
  BY <1>14, AloneFrame DEF Review, At, Goto, Returns, threadVars, lingerVars, historyVars
<1>15. ASSUME NEW s \in Sessions, TimeOut(s) PROVE AloneInv'
  BY <1>15, AloneFrame DEF TimeOut, threadVars, lingerVars, historyVars
<1>16. ASSUME NEW s \in Sessions, Fire(s) PROVE AloneInv'
  BY <1>16, AloneFrame DEF Fire, threadVars, lingerVars, historyVars
<1>17. ASSUME NEW s \in Sessions, Release(s) PROVE AloneInv'
  <2>1. excused \subseteq excused'
    BY <1>17 DEF Release
  <2> QED
    BY <1>17, <2>1, AloneRelease
<1>18. CASE Restart
  <2>1. excused \subseteq excused'
    BY <1>18 DEF Restart
  <2> QED
    BY <1>18, <2>1, AloneRestart
<1>19. CASE UNCHANGED vars
  BY <1>19, AloneFrame DEF vars, threadVars, lingerVars, historyVars
<1> QED
  BY <1>1, <1>2, <1>3, <1>4, <1>5, <1>6, <1>7, <1>8, <1>9, <1>10, <1>11, <1>12, <1>13, <1>14, <1>15, <1>16, <1>17, <1>18, <1>19 DEF Next, ThreadNext, TimerNext

-----------------------------------------------------------------------------
(* Rows and timers. *)

LEMMA RowStep == IInv /\ [Next]_vars => RowWillGo'
<1> SUFFICES ASSUME IInv, [Next]_vars PROVE RowWillGo'
  OBVIOUS
<1> USE ConstantsAssumption DEF IInv, TypeOK, RowWillGo, Threads
<1>1. ASSUME NEW m \in Messages, Publish(m) PROVE RowWillGo'
  BY <1>1 DEF Publish, threadVars, lingerVars, historyVars
<1>2. ASSUME NEW m \in Messages, Write(m) PROVE RowWillGo'
  BY <1>2 DEF Write, threadVars, lingerVars, historyVars
<1>3. ASSUME NEW m \in Messages, Archive(m) PROVE RowWillGo'
  BY <1>3 DEF Archive, threadVars, lingerVars, historyVars
<1>4. ASSUME NEW s \in Sessions, SessionEnds(s) PROVE RowWillGo'
  BY <1>4 DEF SessionEnds, threadVars, lingerVars, historyVars
<1>5. ASSUME NEW s \in Sessions, KillSession(s) PROVE RowWillGo'
  BY <1>5 DEF KillSession, RunnerKill, threadVars, lingerVars, historyVars
<1>6. CASE Observe
  BY <1>6 DEF Observe, Dispatch, At, Goto, vars, threadVars, lingerVars, historyVars
<1>7. CASE ListPending
  BY <1>7 DEF ListPending, vars, threadVars, lingerVars, historyVars
<1>8. CASE TakePending
  BY <1>8 DEF TakePending, Dispatch, At, Goto, vars, threadVars, lingerVars, historyVars
<1>9. ASSUME NEW t \in Threads, ReadFile(t) PROVE RowWillGo'
  BY <1>9 DEF ReadFile, At, Goto, Returns, threadVars, lingerVars, historyVars
<1>10. ASSUME NEW t \in Threads, CheckSession(t) PROVE RowWillGo'
  BY <1>10 DEF CheckSession, At, Goto, Returns, threadVars, lingerVars, historyVars
<1>11. ASSUME NEW t \in Threads, Spawn(t) PROVE RowWillGo'
  BY <1>11 DEF Spawn, SpawnAnswered, SpawnLost, Starts, At, Goto, Returns, threadVars, lingerVars, historyVars
<1>12. ASSUME NEW t \in Threads, Claim(t) PROVE RowWillGo'
  BY <1>12 DEF Claim, ClaimRow, At, Goto, Returns, threadVars, lingerVars, historyVars
<1>13. ASSUME NEW t \in Threads, LingerStart(t) PROVE RowWillGo'
  <2> SUFFICES ASSUME NEW k \in Addressees, row'[k] # None, row'[k] \notin orphans'
               PROVE  \/ \E u \in Threads : pc'[u] = "linger" /\ sid'[u] = row'[k]
                      \/ entry'[k] = row'[k] /\ row'[k] \in armed' \cup fired'
                      \/ row'[k] \in expiring'
    BY DEF RowWillGo
  <2>1. /\ UNCHANGED <<row, fired, expiring>>
        /\ orphans' = orphans \cup (({entry[SessionKey(sid[t])]} \cap {row[SessionKey(sid[t])]}) \ {None})
        /\ pc[t] = "linger" /\ pc' = [pc EXCEPT ![t] = "idle"] /\ sid' = [sid EXCEPT ![t] = None]
        /\ armed' = (armed \ {entry[SessionKey(sid[t])]}) \cup {sid[t]}
        /\ entry' = [entry EXCEPT ![SessionKey(sid[t])] = sid[t]]
    BY <1>13 DEF LingerStart, StartTimer, At, Goto, Returns
  <2>2. SessionKey(row[k]) = k /\ SessionKey(sid[t]) \in Addressees /\ row[k] # None
        /\ (entry[SessionKey(sid[t])] # None =>
              SessionKey(entry[SessionKey(sid[t])]) = SessionKey(sid[t]))
    BY <2>1, ThreadTypes DEF MadeInv
  <2>3. \/ \E u \in Threads : pc[u] = "linger" /\ sid[u] = row[k]
        \/ entry[k] = row[k] /\ row[k] \in armed \cup fired
        \/ row[k] \in expiring
    BY <2>1, <2>2 DEF RowWillGo
  <2> HIDE DEF RowWillGo
  <2>4. CASE k = SessionKey(sid[t])
    <3>1. row[k] # entry[k]
      BY <2>1, <2>2, <2>4
    <3> QED
      BY <2>1, <2>2, <2>3, <2>4, <3>1
  <2>5. CASE k # SessionKey(sid[t])
    <3>1. row[k] # sid[t] /\ row[k] # entry[SessionKey(sid[t])] /\ entry'[k] = entry[k]
      BY <2>1, <2>2, <2>5
    <3> QED
      BY <2>1, <2>3, <3>1
  <2> QED
    BY <2>4, <2>5
<1>14. ASSUME NEW t \in Threads, Review(t) PROVE RowWillGo'
  BY <1>14 DEF Review, At, Goto, Returns, threadVars, lingerVars, historyVars
<1>15. ASSUME NEW s \in Sessions, TimeOut(s) PROVE RowWillGo'
  BY <1>15 DEF TimeOut, threadVars, lingerVars, historyVars
<1>16. ASSUME NEW s \in Sessions, Fire(s) PROVE RowWillGo'
  <2> SUFFICES ASSUME NEW k \in Addressees, row'[k] # None, row'[k] \notin orphans'
               PROVE  \/ \E u \in Threads : pc'[u] = "linger" /\ sid'[u] = row'[k]
                      \/ entry'[k] = row'[k] /\ row'[k] \in armed' \cup fired'
                      \/ row'[k] \in expiring'
    BY DEF RowWillGo
  <2>1. /\ UNCHANGED <<row, orphans, armed, pc, sid>>
        /\ fired' = fired \ {s}
        /\ expiring' = expiring \cup ({entry[SessionKey(s)]} \ {None})
        /\ entry' = [entry EXCEPT ![SessionKey(s)] = None]
    BY <1>16 DEF Fire, threadVars, historyVars
  <2>2. SessionKey(row[k]) = k /\ SessionKey(s) \in Addressees /\ row[k] # None
    BY <2>1, KeyType DEF MadeInv
  <2>3. \/ \E u \in Threads : pc[u] = "linger" /\ sid[u] = row[k]
        \/ entry[k] = row[k] /\ row[k] \in armed \cup fired
        \/ row[k] \in expiring
    BY <2>1, <2>2 DEF RowWillGo
  <2> HIDE DEF RowWillGo
  <2>4. CASE k = SessionKey(s)
    BY <2>1, <2>2, <2>3, <2>4
  <2>5. CASE k # SessionKey(s)
    BY <2>1, <2>2, <2>3, <2>5
  <2> QED
    BY <2>4, <2>5
<1>17. ASSUME NEW s \in Sessions, Release(s) PROVE RowWillGo'
  <2> SUFFICES ASSUME NEW k \in Addressees, row'[k] # None, row'[k] \notin orphans'
               PROVE  \/ \E u \in Threads : pc'[u] = "linger" /\ sid'[u] = row'[k]
                      \/ entry'[k] = row'[k] /\ row'[k] \in armed' \cup fired'
                      \/ row'[k] \in expiring'
    BY DEF RowWillGo
  <2>1. /\ UNCHANGED <<armed, fired, entry, pc, sid>> /\ orphans \subseteq orphans'
        /\ expiring' = expiring \ {s} /\ SessionKey(s) \in Addressees
    BY <1>17, KeyType DEF Release, threadVars
  <2>2. row'[k] = row[k] /\ row[k] # s /\ row[k] \notin orphans
    BY <1>17, <2>1 DEF Release, ReleaseRow, MadeInv
  <2>3. \/ \E u \in Threads : pc[u] = "linger" /\ sid[u] = row[k]
        \/ entry[k] = row[k] /\ row[k] \in armed \cup fired
        \/ row[k] \in expiring
    BY <2>1, <2>2 DEF RowWillGo
  <2> HIDE DEF RowWillGo
  <2> QED
    BY <2>1, <2>2, <2>3
<1>18. CASE Restart
  BY <1>18 DEF Restart, vars, threadVars, lingerVars, historyVars
<1>19. CASE UNCHANGED vars
  BY <1>19 DEF vars, threadVars, lingerVars, historyVars
<1> QED
  BY <1>1, <1>2, <1>3, <1>4, <1>5, <1>6, <1>7, <1>8, <1>9, <1>10, <1>11, <1>12, <1>13, <1>14, <1>15, <1>16, <1>17, <1>18, <1>19 DEF Next, ThreadNext, TimerNext

-----------------------------------------------------------------------------
(* The theorems. *)

LEMMA InitInv == Init => IInv
<1> SUFFICES ASSUME Init PROVE IInv
  OBVIOUS
<1>1. TypeOK
  BY ConstantsAssumption DEF Init, TypeOK
<1>2. OnceInv
  BY ConstantsAssumption DEF Init, OnceInv, ThreadOk, SpawnedOnce
<1>3. MadeInv /\ ClaimInv /\ TimerInv
  BY DEF Init, MadeInv, ClaimInv, TimerInv
<1>4. AloneInv
  BY DEF Init, AloneInv, Alone, Spawning
<1>5. RowWillGo
  BY DEF Init, RowWillGo
<1> QED
  BY <1>1, <1>2, <1>3, <1>4, <1>5 DEF IInv

\* Threads, timers and rows stay tied to one another as IInv says, through every
\* step of _dispatch, handle_bus_event and on_expire, every kill and restart.
THEOREM SessionsInvariant == Spec => []IInv
<1>1. IInv /\ [Next]_vars => IInv'
  BY TypeStep, OnceStep, MadeStep, ClaimStep, TimerStep, AloneStep, RowStep DEF IInv
<1> QED
  BY <1>1, InitInv, PTL DEF Spec, SafeSpec

\* The variables have their types (triggers/filesystem.py, spawn_decision.py,
\* session_registry.py, session_linger.py).
THEOREM SessionsTyped == Spec => []TypeOK
<1>1. IInv => TypeOK
  BY DEF IInv
<1> QED
  BY <1>1, SessionsInvariant, PTL

\* A task starts one session per life of the bridge, whichever thread finds its
\* file, however often (FileSystemEventSource._dispatch).
THEOREM TasksSpawnOnce == Spec => []SpawnedOnce
<1>1. IInv => SpawnedOnce
  BY DEF IInv, OnceInv
<1> QED
  BY <1>1, SessionsInvariant, PTL

\* An addressee has two sessions at a time only if handlers overlapped, an
\* answer was lost, a row expired under its session, the bridge went down before
\* the claim or the registry raised in it (handle_bus_event, claim_session).
THEOREM AddresseesHaveOne == Spec => []OneSessionEach
<1>1. IInv => OneSessionEach
  <2> SUFFICES ASSUME IInv, NEW s \in live, NEW r \in live,
                      SessionKey(s) = SessionKey(r), SessionKey(s) \notin excused
               PROVE  s = r
    BY DEF OneSessionEach
  <2>1. PICK k \in Addressees : k = SessionKey(s)
    BY KeyType DEF IInv, TypeOK
  <2>2. Alone(k) /\ s # None /\ r # None
    BY <2>1, ConstantsAssumption DEF IInv, AloneInv, TypeOK, Sessions
  <2>3. ASSUME NEW t \in Threads, pc[t] = "claim", SessionKey(sid[t]) = k
        PROVE  row[k] = None /\ t \in Spawning(k)
    BY <2>2, <2>3, ClaimsSpawn DEF Alone
  <2> QED
    BY <2>1, <2>2, <2>3 DEF Alone
<1> QED
  BY <1>1, SessionsInvariant, PTL

\* A row has something that will give it free again, unless the timer of a session
\* without a row, a registry that raised or a restart took that away
\* (SessionLingerManager, handle_bus_event).
THEOREM RowsWillGo == Spec => []RowWillGo
<1>1. IInv => RowWillGo
  BY DEF IInv
<1> QED
  BY <1>1, SessionsInvariant, PTL

-----------------------------------------------------------------------------
(* The registry keeps its promise. *)

LEMMA TableInit == Init => Table!Init
  BY DEF Init, Table!Init

LEMMA TableClaim ==
  ASSUME IInv, NEW t \in Threads, Claim(t)
  PROVE  Table!Next
<1>1. /\ pc[t] = "claim" /\ UNCHANGED let
      /\ SessionKey(sid[t]) \in Addressees /\ sid[t] \in Sessions
      /\ row[SessionKey(sid[t])] \in Sessions \cup {None}
  BY ThreadTypes DEF Claim, At, IInv, TypeOK
<1>2. sid[t] \notin late \cup let /\ \A k \in Addressees : row[k] # sid[t]
  BY <1>1 DEF IInv, ClaimInv
<1>3. CASE row[SessionKey(sid[t])] = None /\ ClaimRow(SessionKey(sid[t]), sid[t])
  <2>1. Table!Take(SessionKey(sid[t]), sid[t])
    BY <1>1, <1>2, <1>3 DEF ClaimRow, Table!Take
  <2> QED
    BY <1>1, <2>1 DEF Table!Next
<1>4. CASE late' = late \cup {sid[t]} /\ UNCHANGED row
  <2>1. Table!Miss({sid[t]})
    BY <1>1, <1>2, <1>4 DEF Table!Miss
  <2> QED
    BY <1>1, <2>1 DEF Table!Next
<1> QED
  BY <1>2, <1>1, <1>3, <1>4 DEF Claim, ClaimRow

LEMMA TableRelease ==
  ASSUME IInv, NEW s \in Sessions, Release(s)
  PROVE  Table!Next \/ UNCHANGED Table!vars
<1>1. CASE row[SessionKey(s)] = s /\ ReleaseRow(SessionKey(s), s)
  <2>1. /\ row' = [row EXCEPT ![SessionKey(s)] = None]
        /\ let' = let \cup {s} /\ UNCHANGED late
    BY <1>1 DEF Release, ReleaseRow
  <2>2. SessionKey(s) \in Addressees /\ s # None
    BY KeyType, ConstantsAssumption DEF Sessions
  <2>3. Table!GiveUp(SessionKey(s))
    BY <1>1, <2>1, <2>2 DEF Table!GiveUp
  <2> QED
    BY <2>2, <2>3 DEF Table!Next
<1>2. CASE UNCHANGED <<row, let, late>>
  BY <1>2 DEF Table!vars
<1> QED
  BY <1>1, <1>2 DEF Release, ReleaseRow

LEMMA TableRestart ==
  ASSUME IInv, Restart
  PROVE  Table!Next
<1>1. PICK S \in SUBSET Sessions : S = {sid[t] : t \in {u \in Threads : pc[u] = "claim"}}
  BY ThreadTypes
<1>2. late' = late \cup S /\ UNCHANGED <<row, let>>
  BY <1>1 DEF Restart
<1>3. \A k \in Addressees : row[k] \notin S
  BY <1>1 DEF IInv, ClaimInv
<1>4. Table!Miss(S)
  BY <1>2, <1>3 DEF Table!Miss
<1> QED
  BY <1>1, <1>4 DEF Table!Next

LEMMA TableStep == IInv /\ [Next]_vars => [Table!Next]_(Table!vars)
<1> SUFFICES ASSUME IInv, [Next]_vars PROVE Table!Next \/ UNCHANGED Table!vars
  OBVIOUS
<1>1. CASE \E t \in Threads : Claim(t)
  BY <1>1, TableClaim
<1>2. CASE \E s \in Sessions : Release(s)
  BY <1>2, TableRelease
<1>3. CASE Restart
  BY <1>3, TableRestart
<1>4. CASE UNCHANGED <<row, late, let>>
  BY <1>4 DEF Table!vars
<1>5. ASSUME NEW t \in Threads, ThreadNext(t) PROVE Claim(t) \/ UNCHANGED <<row, late, let>>
  BY <1>5 DEF ThreadNext, ReadFile, CheckSession, Spawn, LingerStart, Review
<1>6. ASSUME TimerNext PROVE (\E s \in Sessions : Release(s)) \/ UNCHANGED <<row, late, let>>
  BY <1>6 DEF TimerNext, TimeOut, Fire, historyVars
<1>7. CASE \E m \in Messages : Publish(m) \/ Write(m) \/ Archive(m)
  BY <1>4, <1>7 DEF Publish, Write, Archive, historyVars
<1>8. CASE \E s \in Sessions : SessionEnds(s) \/ KillSession(s)
  BY <1>4, <1>8 DEF SessionEnds, KillSession, historyVars
<1>9. CASE Observe \/ ListPending \/ TakePending
  BY <1>4, <1>9 DEF Observe, ListPending, TakePending, Dispatch, historyVars
<1>10. CASE UNCHANGED vars
  BY <1>4, <1>10 DEF vars, historyVars
<1> QED
  BY <1>1, <1>2, <1>3, <1>4, <1>5, <1>6, <1>7, <1>8, <1>9, <1>10 DEF Next

\* The registry implements SessionTable, whatever threads and timers do: at most
\* one session holds a row, and one that gave it up or came late never gets it
\* (claim_session, release_session).
THEOREM RegistryKeepsPromise == Spec => TableSpec
<1>1. Init => Table!Init
  BY TableInit
<1>2. IInv /\ [Next]_vars => [Table!Next]_(Table!vars)
  BY TableStep
<1> QED
  BY <1>1, <1>2, SessionsInvariant, PTL DEF Spec, SafeSpec, TableSpec, Table!Spec

-----------------------------------------------------------------------------
(* No task is forgotten. *)

\* A thread that has not ended is at m, or will come to it.
Coming(m) ==
  \/ m \in events /\ ~Dead("observer")
  \/ todo = None \/ (m \in todo /\ ~Dead("pending"))

\* A file on the bus, even one that is still being written, that nobody has looked at
\* will be, unless the threads that would have come to it have ended; one that was
\* looked at in this life of the bridge has an outcome, or is in the hands of a
\* thread, be it that it has ended that thread.
OwedInv ==
  \A m \in Messages :
    /\ bus[m] \notin {"absent", "gone"} /\ m \notin seen => Coming(m) \/ Stranded(m)
    /\ m \in seen => outcome[m] # "none" \/ \E t \in Threads : msg[t] = m

LEMMA OwedStep == IInv /\ OwedInv /\ [Next]_vars => OwedInv'
<1> SUFFICES ASSUME IInv, OwedInv, [Next]_vars PROVE OwedInv'
  OBVIOUS
<1> USE ConstantsAssumption DEF IInv, TypeOK, OnceInv, ThreadOk, Threads, OwedInv, Coming, Stranded, Dead
<1>1. ASSUME NEW m \in Messages, Publish(m) PROVE OwedInv'
  BY <1>1 DEF Publish, threadVars, lingerVars, historyVars
<1>2. ASSUME NEW m \in Messages, Write(m) PROVE OwedInv'
  BY <1>2 DEF Write, threadVars, lingerVars, historyVars
<1>3. ASSUME NEW m \in Messages, Archive(m) PROVE OwedInv'
  BY <1>3 DEF Archive, threadVars, lingerVars, historyVars
<1>4. ASSUME NEW s \in Sessions, SessionEnds(s) PROVE OwedInv'
  BY <1>4 DEF SessionEnds, threadVars, lingerVars, historyVars
<1>5. ASSUME NEW s \in Sessions, KillSession(s) PROVE OwedInv'
  BY <1>5 DEF KillSession, RunnerKill, threadVars, lingerVars, historyVars
<1>6. CASE Observe
  BY <1>6 DEF Observe, Dispatch, At, Goto, vars, threadVars, lingerVars, historyVars
<1>7. CASE ListPending
  BY <1>7 DEF ListPending, vars, threadVars, lingerVars, historyVars
<1>8. CASE TakePending
  BY <1>8 DEF TakePending, Dispatch, At, Goto, vars, threadVars, lingerVars, historyVars
<1>9. ASSUME NEW t \in Threads, ReadFile(t) PROVE OwedInv'
  BY <1>9 DEF ReadFile, At, Goto, Returns, threadVars, lingerVars, historyVars
<1>10. ASSUME NEW t \in Threads, CheckSession(t) PROVE OwedInv'
  BY <1>10 DEF CheckSession, At, Goto, Returns, threadVars, lingerVars, historyVars
<1>11. ASSUME NEW t \in Threads, Spawn(t) PROVE OwedInv'
  BY <1>11 DEF Spawn, SpawnAnswered, SpawnLost, Starts, At, Goto, Returns, threadVars, lingerVars, historyVars
<1>12. ASSUME NEW t \in Threads, Claim(t) PROVE OwedInv'
  BY <1>12 DEF Claim, ClaimRow, At, Goto, Returns, threadVars, lingerVars, historyVars
<1>13. ASSUME NEW t \in Threads, LingerStart(t) PROVE OwedInv'
  BY <1>13 DEF LingerStart, StartTimer, At, Goto, Returns, threadVars, lingerVars, historyVars
<1>14. ASSUME NEW t \in Threads, Review(t) PROVE OwedInv'
  BY <1>14 DEF Review, At, Goto, Returns, threadVars, lingerVars, historyVars
<1>15. ASSUME NEW s \in Sessions, TimeOut(s) PROVE OwedInv'
  BY <1>15 DEF TimeOut, threadVars, lingerVars, historyVars
<1>16. ASSUME NEW s \in Sessions, Fire(s) PROVE OwedInv'
  BY <1>16 DEF Fire, threadVars, lingerVars, historyVars
<1>17. ASSUME NEW s \in Sessions, Release(s) PROVE OwedInv'
  BY <1>17 DEF Release, ReleaseRow, threadVars, lingerVars, historyVars
<1>18. CASE Restart
  BY <1>18 DEF Restart, vars, threadVars, lingerVars, historyVars
<1>19. CASE UNCHANGED vars
  BY <1>19 DEF vars, threadVars, lingerVars, historyVars
<1> QED
  BY <1>1, <1>2, <1>3, <1>4, <1>5, <1>6, <1>7, <1>8, <1>9, <1>10, <1>11, <1>12, <1>13, <1>14, <1>15, <1>16, <1>17, <1>18, <1>19 DEF Next, ThreadNext, TimerNext

\* No file is forgotten between the observer, which starts first, and
\* process_pending, however their dispatches interleave and whenever the bridge
\* dies; only a file that cannot be decoded, which ends the thread that reads it,
\* can keep it from the others (FileSystemEventSource.start, process_pending,
\* _dispatch).
THEOREM NoTaskForgotten == Spec => []OwedInv
<1>1. Init => OwedInv
  BY DEF Init, OwedInv
<1> QED
  BY <1>1, OwedStep, SessionsInvariant, PTL DEF Spec, SafeSpec

-----------------------------------------------------------------------------
(* What SessionTable promises of the registry. *)

\* No session has two rows, and none has one again that gave it up or missed it.
RowsApart ==
  \A k \in Addressees : row[k] # None =>
    /\ row[k] \notin late \cup let
    /\ \A j \in Addressees : row[j] = row[k] => j = k

\* The promise is kept for good: a second handler's session, refused its row,
\* does not come into it later, and on_expire takes no row it does not hold
\* (claim_session, release_session).
THEOREM RowsStayApart == Spec => []RowsApart
<1>1. Init => RowsApart
  BY DEF Init, RowsApart
<1>2. TypeOK /\ RowsApart /\ [Table!Next]_(Table!vars) => RowsApart'
  <2> SUFFICES ASSUME TypeOK, RowsApart, [Table!Next]_(Table!vars) PROVE RowsApart'
    OBVIOUS
  <2> DEFINE over == late \cup let
  <2>1. row \in [Addressees -> Sessions \cup {None}]
    BY DEF TypeOK
  <2>2. ASSUME NEW k \in Addressees, NEW s \in Sessions, Table!Take(k, s) PROVE RowsApart'
    <3>1. /\ s \notin over /\ (\A j \in Addressees : row[j] # s)
          /\ row' = [row EXCEPT ![k] = s] /\ over' = over
      BY <2>2 DEF Table!Take
    <3> HIDE DEF over
    <3> QED
      BY <2>1, <3>1 DEF RowsApart, over
  <2>3. ASSUME NEW S \in SUBSET Sessions, Table!Miss(S) PROVE RowsApart'
    BY <2>3 DEF RowsApart, Table!Miss
  <2>4. ASSUME NEW k \in Addressees, Table!GiveUp(k) PROVE RowsApart'
    <3>1. row[k] # None /\ row' = [row EXCEPT ![k] = None] /\ over' = over \cup {row[k]}
      BY <2>4 DEF Table!GiveUp
    <3> QED
      BY <2>1, <3>1 DEF RowsApart
  <2>5. CASE UNCHANGED Table!vars
    BY <2>5 DEF RowsApart, Table!vars
  <2> QED
    BY <2>2, <2>3, <2>4, <2>5 DEF Table!Next
<1> QED
  BY <1>1, <1>2, RegistryKeepsPromise, SessionsTyped, PTL DEF Spec, SafeSpec, TableSpec, Table!Spec
=============================================================================
