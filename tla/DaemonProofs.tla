---------------------------- MODULE DaemonProofs ----------------------------
(***************************************************************************)
(* Proofs about DaemonHost, for any number of daemons and `bridge stop`:    *)
(* one daemon serves at a time, and what is said to be stopped is, unless   *)
(* starts and stops overlapped or an answer was late.                       *)
(***************************************************************************)
EXTENDS DaemonHost, FiniteSetTheorems, TLAPS

-----------------------------------------------------------------------------
(* The inductive invariant. *)

\* A daemon that may still do something to the endpoint file: it answers, or a
\* thread of it is in stop().
Up(d) ==
  /\ stage[d] = "serving"
  /\ port[d] = "open" \/ \E t \in Threads : thread[d][t] \in InStop

\* A process that does not serve has no thread in stop(), and its port is open
\* from Bind to CloseServer, or its end.
StageInv ==
  \A d \in Daemons :
    /\ port[d] = "open" => stage[d] \in {"bound", "writing", "serving"}
    /\ stage[d] \in {"bound", "writing"} => port[d] = "open"
    /\ port[d] = "foreign" => stage[d] = "exited"
    /\ stage[d] # "serving" => d \notin flag /\ \A t \in Threads : thread[d][t] = "no"

HasServed(d) == stage[d] \in {"serving", "exited"}

Active(s) == command[s] \in {"posting", "waiting", "checking", "unlinking"}

\* A daemon that is named, by the file or by who has read it, got as far as to serve.
NameInv ==
  /\ file \in Daemons => HasServed(file)
  /\ \A d \in Daemons : stage[d] = "pinging" => saw[d] \in Daemons /\ HasServed(saw[d])
  /\ \A s \in Stops : /\ target[s] # None => HasServed(target[s])
                      /\ Active(s) /\ command[s] # "unlinking" => target[s] # None

\* A thread that is past SetFlag leaves the flag behind; while the port is open
\* and the flag set, one thread is about to close it.
StopInv ==
  \A d \in Daemons : stage[d] = "serving" =>
    /\ \A t \in Threads : /\ thread[d][t] \in {"flagged", "closed", "done"} => d \in flag
                          /\ thread[d][t] = "closed" => port[d] = "closed"
    /\ port[d] = "closed" => d \in flag
    /\ port[d] = "open" /\ d \in flag => \E t \in Threads : thread[d][t] = "flagged"

\* One process starts at a time, and past the ping it is alone; one daemon is
\* up, whom the file names until it removes the file.
Alone ==
  /\ \A d, e \in Daemons : stage[d] \in Starting /\ stage[e] \in Starting => d = e
  /\ \A d, e \in Daemons : Up(d) /\ Up(e) => d = e
  /\ \A d, e \in Daemons : stage[d] \in Starting \ {"pinging"} => ~Up(e)
  /\ \A d, e \in Daemons : stage[d] = "pinging" /\ Up(e) => saw[d] = e
  /\ \A e \in Daemons : Up(e) => file \in {e, None} /\ (port[e] = "open" => file = e)
  /\ \A d \in Daemons : stage[d] = "writing" => file = Torn /\ d \in writers

\* While `bridge stop` is under way nobody starts, and whoever is up is its target.
Told(s) ==
  /\ Active(s) => /\ \A d \in Daemons : stage[d] \notin Starting
                  /\ \A e \in Daemons : Up(e) => target[s] = e
  /\ command[s] \in {"unlinking", "stopped"} /\ target[s] # None => port[target[s]] # "open"

AloneInv == overlap \/ late \/ Alone
ToldInv == overlap \/ late \/ \A s \in Stops : Told(s)

IInv == TypeOK /\ StageInv /\ NameInv /\ StopInv /\ AloneInv /\ ToldInv

-----------------------------------------------------------------------------
(* Each action preserves it. *)

LEMMA TypeStep ==
  ASSUME TypeOK, NameInv, [Next]_vars
  PROVE  TypeOK'
<1> USE HostAssumption DEF TypeOK, Starting, InStop, Threads
<1>1. ASSUME NEW d \in Daemons, Look(d) PROVE TypeOK'
  BY <1>1 DEF Look, Starts, daemonVars
<1>2. ASSUME NEW d \in Daemons, PingAnswered(d) PROVE TypeOK'
  BY <1>2 DEF PingAnswered, daemonVars
<1>3. ASSUME NEW d \in Daemons, PingRefused(d) PROVE TypeOK'
  BY <1>3 DEF PingRefused, Starts, daemonVars
<1>4. ASSUME NEW d \in Daemons, PingLate(d) PROVE TypeOK'
  BY <1>4 DEF PingLate, Starts, daemonVars
<1>5. ASSUME NEW d \in Daemons, RemoveStale(d) PROVE TypeOK'
  BY <1>5 DEF RemoveStale, Starts, Unlink, daemonVars
<1>6. ASSUME NEW d \in Daemons, Bind(d) PROVE TypeOK'
  BY <1>6 DEF Bind, Starts, daemonVars
<1>7. ASSUME NEW d \in Daemons, OpenFile(d) PROVE TypeOK'
  BY <1>7 DEF OpenFile, Starts, daemonVars
<1>8. ASSUME NEW d \in Daemons, WriteFile(d) PROVE TypeOK'
  BY <1>8 DEF WriteFile, Starts, daemonVars
<1>9. ASSUME NEW d \in Daemons, NEW t \in Threads, CallStop(d, t) PROVE TypeOK'
  BY <1>9 DEF CallStop, daemonVars
<1>10. ASSUME NEW d \in Daemons, NEW t \in Threads, SetFlag(d, t) PROVE TypeOK'
  BY <1>10 DEF SetFlag, daemonVars
<1>11. ASSUME NEW d \in Daemons, NEW t \in Threads, CloseServer(d, t) PROVE TypeOK'
  BY <1>11 DEF CloseServer, daemonVars
<1>12. ASSUME NEW d \in Daemons, NEW t \in Threads, RemoveFile(d, t) PROVE TypeOK'
  BY <1>12 DEF RemoveFile, Unlink, daemonVars
<1>13. ASSUME NEW d \in Daemons, Exit(d) PROVE TypeOK'
  BY <1>13 DEF Exit, Gone, daemonVars
<1>14. ASSUME NEW d \in Daemons, Crash(d) PROVE TypeOK'
  BY <1>14 DEF Crash, Gone, daemonVars
<1>15. ASSUME NEW d \in Daemons, PortTaken(d) PROVE TypeOK'
  BY <1>15 DEF PortTaken, daemonVars
<1>16. ASSUME NEW s \in Stops, ReadFile(s) PROVE TypeOK'
  BY <1>16 DEF ReadFile, Goes, daemonVars
<1>17. ASSUME NEW s \in Stops, PostShutdown(s) PROVE TypeOK'
  <2>1. target[s] \in Daemons
    BY <1>17 DEF NameInv, Active, PostShutdown, TypeOK
  <2> QED
    BY <1>17, <2>1 DEF PostShutdown, Goes, daemonVars
<1>18. ASSUME NEW s \in Stops, PostLate(s) PROVE TypeOK'
  <2>1. target[s] \in Daemons
    BY <1>18 DEF NameInv, Active, PostLate, TypeOK
  <2> QED
    BY <1>18, <2>1 DEF PostLate, Goes, daemonVars
<1>19. ASSUME NEW s \in Stops, PostStray(s) PROVE TypeOK'
  BY <1>19 DEF PostStray, Goes, daemonVars
<1>20. ASSUME NEW s \in Stops, PingStray(s) PROVE TypeOK'
  BY <1>20 DEF PingStray, Goes, daemonVars
<1>21. ASSUME NEW s \in Stops, FoundDead(s) PROVE TypeOK'
  BY <1>21 DEF FoundDead, Goes, daemonVars
<1>22. ASSUME NEW s \in Stops, RemoveLeftover(s) PROVE TypeOK'
  BY <1>22 DEF RemoveLeftover, Goes, Unlink, daemonVars
<1>23. ASSUME NEW s \in Stops, FileGone(s) PROVE TypeOK'
  BY <1>23 DEF FileGone, Goes, daemonVars
<1>24. ASSUME NEW s \in Stops, WaitedLong(s) PROVE TypeOK'
  BY <1>24 DEF WaitedLong, Goes, daemonVars
<1>25. ASSUME NEW s \in Stops, StillAlive(s) PROVE TypeOK'
  BY <1>25 DEF StillAlive, Goes, daemonVars
<1>27. ASSUME NEW s \in Stops, PostTimedOut(s) PROVE TypeOK'
  BY <1>27 DEF PostTimedOut, Goes, daemonVars
<1>28. ASSUME NEW s \in Stops, PingTimedOut(s) PROVE TypeOK'
  BY <1>28 DEF PingTimedOut, Goes, daemonVars
<1>26. CASE UNCHANGED vars
  BY <1>26 DEF vars, daemonVars
<1> HIDE DEF IInv, TypeOK, StageInv, NameInv, StopInv, AloneInv, ToldInv, Alone, Told, HasServed, Up, Active
<1> QED
  BY <1>1, <1>2, <1>3, <1>4, <1>5, <1>6, <1>7, <1>8, <1>9, <1>10, <1>11, <1>12, <1>13,
     <1>14, <1>15, <1>16, <1>17, <1>18, <1>19, <1>20, <1>21, <1>22, <1>23, <1>24, <1>25, <1>26,
     <1>27, <1>28
  DEF Next, Run, Stopping, Stop, EnterStop, Signal, Threads

LEMMA StageStep ==
  ASSUME TypeOK, NameInv, StageInv, [Next]_vars
  PROVE  StageInv'
<1> USE HostAssumption DEF TypeOK, StageInv, Starting, InStop, Threads
<1>1. ASSUME NEW d \in Daemons, Look(d) PROVE StageInv'
  BY <1>1 DEF Look, Starts, daemonVars
<1>2. ASSUME NEW d \in Daemons, PingAnswered(d) PROVE StageInv'
  BY <1>2 DEF PingAnswered, daemonVars
<1>3. ASSUME NEW d \in Daemons, PingRefused(d) PROVE StageInv'
  BY <1>3 DEF PingRefused, Starts, daemonVars
<1>4. ASSUME NEW d \in Daemons, PingLate(d) PROVE StageInv'
  BY <1>4 DEF PingLate, Starts, daemonVars
<1>5. ASSUME NEW d \in Daemons, RemoveStale(d) PROVE StageInv'
  BY <1>5 DEF RemoveStale, Starts, Unlink, daemonVars
<1>6. ASSUME NEW d \in Daemons, Bind(d) PROVE StageInv'
  BY <1>6 DEF Bind, Starts, daemonVars
<1>7. ASSUME NEW d \in Daemons, OpenFile(d) PROVE StageInv'
  BY <1>7 DEF OpenFile, Starts, daemonVars
<1>8. ASSUME NEW d \in Daemons, WriteFile(d) PROVE StageInv'
  BY <1>8 DEF WriteFile, Starts, daemonVars
<1>9. ASSUME NEW d \in Daemons, NEW t \in Threads, CallStop(d, t) PROVE StageInv'
  BY <1>9 DEF CallStop, daemonVars
<1>10. ASSUME NEW d \in Daemons, NEW t \in Threads, SetFlag(d, t) PROVE StageInv'
  BY <1>10 DEF SetFlag, daemonVars
<1>11. ASSUME NEW d \in Daemons, NEW t \in Threads, CloseServer(d, t) PROVE StageInv'
  BY <1>11 DEF CloseServer, daemonVars
<1>12. ASSUME NEW d \in Daemons, NEW t \in Threads, RemoveFile(d, t) PROVE StageInv'
  BY <1>12 DEF RemoveFile, Unlink, daemonVars
<1>13. ASSUME NEW d \in Daemons, Exit(d) PROVE StageInv'
  BY <1>13 DEF Exit, Gone, daemonVars
<1>14. ASSUME NEW d \in Daemons, Crash(d) PROVE StageInv'
  BY <1>14 DEF Crash, Gone, daemonVars
<1>15. ASSUME NEW d \in Daemons, PortTaken(d) PROVE StageInv'
  BY <1>15 DEF PortTaken, daemonVars
<1>16. ASSUME NEW s \in Stops, ReadFile(s) PROVE StageInv'
  BY <1>16 DEF ReadFile, Goes, daemonVars
<1>17. ASSUME NEW s \in Stops, PostShutdown(s) PROVE StageInv'
  BY <1>17 DEF PostShutdown, Goes, daemonVars
<1>18. ASSUME NEW s \in Stops, PostLate(s) PROVE StageInv'
  BY <1>18 DEF PostLate, Goes, daemonVars
<1>19. ASSUME NEW s \in Stops, PostStray(s) PROVE StageInv'
  BY <1>19 DEF PostStray, Goes, daemonVars
<1>20. ASSUME NEW s \in Stops, PingStray(s) PROVE StageInv'
  BY <1>20 DEF PingStray, Goes, daemonVars
<1>21. ASSUME NEW s \in Stops, FoundDead(s) PROVE StageInv'
  BY <1>21 DEF FoundDead, Goes, daemonVars
<1>22. ASSUME NEW s \in Stops, RemoveLeftover(s) PROVE StageInv'
  BY <1>22 DEF RemoveLeftover, Goes, Unlink, daemonVars
<1>23. ASSUME NEW s \in Stops, FileGone(s) PROVE StageInv'
  BY <1>23 DEF FileGone, Goes, daemonVars
<1>24. ASSUME NEW s \in Stops, WaitedLong(s) PROVE StageInv'
  BY <1>24 DEF WaitedLong, Goes, daemonVars
<1>25. ASSUME NEW s \in Stops, StillAlive(s) PROVE StageInv'
  BY <1>25 DEF StillAlive, Goes, daemonVars
<1>27. ASSUME NEW s \in Stops, PostTimedOut(s) PROVE StageInv'
  BY <1>27 DEF PostTimedOut, Goes, daemonVars
<1>28. ASSUME NEW s \in Stops, PingTimedOut(s) PROVE StageInv'
  BY <1>28 DEF PingTimedOut, Goes, daemonVars
<1>26. CASE UNCHANGED vars
  BY <1>26 DEF vars, daemonVars
<1> HIDE DEF IInv, TypeOK, StageInv, NameInv, StopInv, AloneInv, ToldInv, Alone, Told, HasServed, Up, Active
<1> QED
  BY <1>1, <1>2, <1>3, <1>4, <1>5, <1>6, <1>7, <1>8, <1>9, <1>10, <1>11, <1>12, <1>13,
     <1>14, <1>15, <1>16, <1>17, <1>18, <1>19, <1>20, <1>21, <1>22, <1>23, <1>24, <1>25, <1>26,
     <1>27, <1>28
  DEF Next, Run, Stopping, Stop, EnterStop, Signal, Threads

LEMMA NameStep ==
  ASSUME TypeOK, StageInv, NameInv, [Next]_vars
  PROVE  NameInv'
<1> USE HostAssumption DEF TypeOK, StageInv, NameInv, HasServed, Active, Starting
<1>1. ASSUME NEW d \in Daemons, Look(d) PROVE NameInv'
  BY <1>1 DEF Look, Starts, daemonVars
<1>2. ASSUME NEW d \in Daemons, PingAnswered(d) PROVE NameInv'
  BY <1>2 DEF PingAnswered, daemonVars
<1>3. ASSUME NEW d \in Daemons, PingRefused(d) PROVE NameInv'
  BY <1>3 DEF PingRefused, Starts, daemonVars
<1>4. ASSUME NEW d \in Daemons, PingLate(d) PROVE NameInv'
  BY <1>4 DEF PingLate, Starts, daemonVars
<1>5. ASSUME NEW d \in Daemons, RemoveStale(d) PROVE NameInv'
  BY <1>5 DEF RemoveStale, Starts, Unlink, daemonVars
<1>6. ASSUME NEW d \in Daemons, Bind(d) PROVE NameInv'
  BY <1>6 DEF Bind, Starts, daemonVars
<1>7. ASSUME NEW d \in Daemons, OpenFile(d) PROVE NameInv'
  BY <1>7 DEF OpenFile, Starts, daemonVars
<1>8. ASSUME NEW d \in Daemons, WriteFile(d) PROVE NameInv'
  BY <1>8 DEF WriteFile, Starts, daemonVars
<1>9. ASSUME NEW d \in Daemons, NEW t \in Threads, CallStop(d, t) PROVE NameInv'
  BY <1>9 DEF CallStop, daemonVars
<1>10. ASSUME NEW d \in Daemons, NEW t \in Threads, SetFlag(d, t) PROVE NameInv'
  BY <1>10 DEF SetFlag, daemonVars
<1>11. ASSUME NEW d \in Daemons, NEW t \in Threads, CloseServer(d, t) PROVE NameInv'
  BY <1>11 DEF CloseServer, daemonVars
<1>12. ASSUME NEW d \in Daemons, NEW t \in Threads, RemoveFile(d, t) PROVE NameInv'
  BY <1>12 DEF RemoveFile, Unlink, daemonVars
<1>13. ASSUME NEW d \in Daemons, Exit(d) PROVE NameInv'
  BY <1>13 DEF Exit, Gone, daemonVars
<1>14. ASSUME NEW d \in Daemons, Crash(d) PROVE NameInv'
  BY <1>14 DEF Crash, Gone, daemonVars
<1>15. ASSUME NEW d \in Daemons, PortTaken(d) PROVE NameInv'
  BY <1>15 DEF PortTaken, daemonVars
<1>16. ASSUME NEW s \in Stops, ReadFile(s) PROVE NameInv'
  BY <1>16 DEF ReadFile, Goes, daemonVars
<1>17. ASSUME NEW s \in Stops, PostShutdown(s) PROVE NameInv'
  BY <1>17 DEF PostShutdown, Goes, daemonVars
<1>18. ASSUME NEW s \in Stops, PostLate(s) PROVE NameInv'
  BY <1>18 DEF PostLate, Goes, daemonVars
<1>19. ASSUME NEW s \in Stops, PostStray(s) PROVE NameInv'
  BY <1>19 DEF PostStray, Goes, daemonVars
<1>20. ASSUME NEW s \in Stops, PingStray(s) PROVE NameInv'
  BY <1>20 DEF PingStray, Goes, daemonVars
<1>21. ASSUME NEW s \in Stops, FoundDead(s) PROVE NameInv'
  BY <1>21 DEF FoundDead, Goes, daemonVars
<1>22. ASSUME NEW s \in Stops, RemoveLeftover(s) PROVE NameInv'
  BY <1>22 DEF RemoveLeftover, Goes, Unlink, daemonVars
<1>23. ASSUME NEW s \in Stops, FileGone(s) PROVE NameInv'
  BY <1>23 DEF FileGone, Goes, daemonVars
<1>24. ASSUME NEW s \in Stops, WaitedLong(s) PROVE NameInv'
  BY <1>24 DEF WaitedLong, Goes, daemonVars
<1>25. ASSUME NEW s \in Stops, StillAlive(s) PROVE NameInv'
  BY <1>25 DEF StillAlive, Goes, daemonVars
<1>27. ASSUME NEW s \in Stops, PostTimedOut(s) PROVE NameInv'
  BY <1>27 DEF PostTimedOut, Goes, daemonVars
<1>28. ASSUME NEW s \in Stops, PingTimedOut(s) PROVE NameInv'
  BY <1>28 DEF PingTimedOut, Goes, daemonVars
<1>26. CASE UNCHANGED vars
  BY <1>26 DEF vars, daemonVars
<1> HIDE DEF IInv, TypeOK, StageInv, NameInv, StopInv, AloneInv, ToldInv, Alone, Told, HasServed, Up, Active
<1> QED
  BY <1>1, <1>2, <1>3, <1>4, <1>5, <1>6, <1>7, <1>8, <1>9, <1>10, <1>11, <1>12, <1>13,
     <1>14, <1>15, <1>16, <1>17, <1>18, <1>19, <1>20, <1>21, <1>22, <1>23, <1>24, <1>25, <1>26,
     <1>27, <1>28
  DEF Next, Run, Stopping, Stop, EnterStop, Signal, Threads

LEMMA StopStep ==
  ASSUME TypeOK, StageInv, StopInv, [Next]_vars
  PROVE  StopInv'
<1> USE HostAssumption DEF TypeOK, StageInv, StopInv, Starting, InStop, Threads
<1>1. ASSUME NEW d \in Daemons, Look(d) PROVE StopInv'
  BY <1>1 DEF Look, Starts, daemonVars
<1>2. ASSUME NEW d \in Daemons, PingAnswered(d) PROVE StopInv'
  BY <1>2 DEF PingAnswered, daemonVars
<1>3. ASSUME NEW d \in Daemons, PingRefused(d) PROVE StopInv'
  BY <1>3 DEF PingRefused, Starts, daemonVars
<1>4. ASSUME NEW d \in Daemons, PingLate(d) PROVE StopInv'
  BY <1>4 DEF PingLate, Starts, daemonVars
<1>5. ASSUME NEW d \in Daemons, RemoveStale(d) PROVE StopInv'
  BY <1>5 DEF RemoveStale, Starts, Unlink, daemonVars
<1>6. ASSUME NEW d \in Daemons, Bind(d) PROVE StopInv'
  BY <1>6 DEF Bind, Starts, daemonVars
<1>7. ASSUME NEW d \in Daemons, OpenFile(d) PROVE StopInv'
  BY <1>7 DEF OpenFile, Starts, daemonVars
<1>8. ASSUME NEW d \in Daemons, WriteFile(d) PROVE StopInv'
  BY <1>8 DEF WriteFile, Starts, daemonVars
<1>9. ASSUME NEW d \in Daemons, NEW t \in Threads, CallStop(d, t) PROVE StopInv'
  BY <1>9 DEF CallStop, daemonVars
<1>10. ASSUME NEW d \in Daemons, NEW t \in Threads, SetFlag(d, t) PROVE StopInv'
  BY <1>10 DEF SetFlag, daemonVars
<1>11. ASSUME NEW d \in Daemons, NEW t \in Threads, CloseServer(d, t) PROVE StopInv'
  BY <1>11 DEF CloseServer, daemonVars
<1>12. ASSUME NEW d \in Daemons, NEW t \in Threads, RemoveFile(d, t) PROVE StopInv'
  BY <1>12 DEF RemoveFile, Unlink, daemonVars
<1>13. ASSUME NEW d \in Daemons, Exit(d) PROVE StopInv'
  BY <1>13 DEF Exit, Gone, daemonVars
<1>14. ASSUME NEW d \in Daemons, Crash(d) PROVE StopInv'
  BY <1>14 DEF Crash, Gone, daemonVars
<1>15. ASSUME NEW d \in Daemons, PortTaken(d) PROVE StopInv'
  BY <1>15 DEF PortTaken, daemonVars
<1>16. ASSUME NEW s \in Stops, ReadFile(s) PROVE StopInv'
  BY <1>16 DEF ReadFile, Goes, daemonVars
<1>17. ASSUME NEW s \in Stops, PostShutdown(s) PROVE StopInv'
  BY <1>17 DEF PostShutdown, Goes, daemonVars
<1>18. ASSUME NEW s \in Stops, PostLate(s) PROVE StopInv'
  BY <1>18 DEF PostLate, Goes, daemonVars
<1>19. ASSUME NEW s \in Stops, PostStray(s) PROVE StopInv'
  BY <1>19 DEF PostStray, Goes, daemonVars
<1>20. ASSUME NEW s \in Stops, PingStray(s) PROVE StopInv'
  BY <1>20 DEF PingStray, Goes, daemonVars
<1>21. ASSUME NEW s \in Stops, FoundDead(s) PROVE StopInv'
  BY <1>21 DEF FoundDead, Goes, daemonVars
<1>22. ASSUME NEW s \in Stops, RemoveLeftover(s) PROVE StopInv'
  BY <1>22 DEF RemoveLeftover, Goes, Unlink, daemonVars
<1>23. ASSUME NEW s \in Stops, FileGone(s) PROVE StopInv'
  BY <1>23 DEF FileGone, Goes, daemonVars
<1>24. ASSUME NEW s \in Stops, WaitedLong(s) PROVE StopInv'
  BY <1>24 DEF WaitedLong, Goes, daemonVars
<1>25. ASSUME NEW s \in Stops, StillAlive(s) PROVE StopInv'
  BY <1>25 DEF StillAlive, Goes, daemonVars
<1>27. ASSUME NEW s \in Stops, PostTimedOut(s) PROVE StopInv'
  BY <1>27 DEF PostTimedOut, Goes, daemonVars
<1>28. ASSUME NEW s \in Stops, PingTimedOut(s) PROVE StopInv'
  BY <1>28 DEF PingTimedOut, Goes, daemonVars
<1>26. CASE UNCHANGED vars
  BY <1>26 DEF vars, daemonVars
<1> HIDE DEF IInv, TypeOK, StageInv, NameInv, StopInv, AloneInv, ToldInv, Alone, Told, HasServed, Up, Active
<1> QED
  BY <1>1, <1>2, <1>3, <1>4, <1>5, <1>6, <1>7, <1>8, <1>9, <1>10, <1>11, <1>12, <1>13,
     <1>14, <1>15, <1>16, <1>17, <1>18, <1>19, <1>20, <1>21, <1>22, <1>23, <1>24, <1>25, <1>26,
     <1>27, <1>28
  DEF Next, Run, Stopping, Stop, EnterStop, Signal, Threads

\* Whoever starts without an overlap meets nobody who starts or stops, and no
\* `bridge stop` under way.
LEMMA StartsAlone ==
  ASSUME NEW d \in Daemons, NEW to, Starts(d, to), ~overlap'
  PROVE  /\ \A e \in Daemons \ {d} : stage[e] \notin Starting
         /\ \A e \in Daemons \ {d} : Up(e) => port[e] = "open" /\ \A t \in Threads : thread[e][t] \notin InStop
         /\ \A s \in Stops : ~Active(s)
         /\ ~overlap
  BY DEF Starts, Busy, Up, Active

LEMMA AloneStep ==
  ASSUME IInv, [Next]_vars
  PROVE  AloneInv'
<1> USE HostAssumption DEF IInv, TypeOK, StageInv, NameInv, StopInv, AloneInv, ToldInv, Alone, Told, HasServed, Up, Active, Starting, InStop, Threads, Busy
<1>1. ASSUME NEW d \in Daemons, Look(d) PROVE AloneInv'
  <2> SUFFICES ASSUME ~overlap', ~late' PROVE Alone'
    OBVIOUS
  <2>1. /\ \A e \in Daemons \ {d} : stage[e] \notin Starting
        /\ \A e \in Daemons \ {d} : Up(e) => port[e] = "open" /\ \A t \in Threads : thread[e][t] \notin InStop
        /\ ~overlap
    BY <1>1, StartsAlone DEF Look
  <2>2. Alone
    BY <1>1, <2>1 DEF Look
  <2>3. /\ stage'[d] \in {"pinging", "stale", "clear"} /\ \A e \in Daemons \ {d} : stage'[e] = stage[e]
        /\ UNCHANGED <<port, thread, file, writers>>
    BY <1>1 DEF Look, Starts
  <2>4. ~Up(d) /\ ~Up(d)' /\ \A e \in Daemons \ {d} : Up(e)' = Up(e)
    BY <1>1, <2>3 DEF Look
  <2>5. \A e \in Daemons : Up(e) => file = e
    BY <2>1, <2>2, <2>4
  <2>6. \A e \in Daemons : Up(e) => stage'[d] = "pinging" /\ saw'[d] = e
    BY <1>1, <2>5 DEF Look, Starts
  <2> HIDE DEF IInv, TypeOK, StageInv, NameInv, StopInv, AloneInv, ToldInv, Told, HasServed, Up, Active, InStop
  <2> QED
    BY <2>1, <2>2, <2>3, <2>4, <2>6
<1>2. ASSUME NEW d \in Daemons, PingAnswered(d) PROVE AloneInv'
  BY <1>2 DEF PingAnswered, daemonVars
<1>3. ASSUME NEW d \in Daemons, PingRefused(d) PROVE AloneInv'
  <2> SUFFICES ASSUME ~overlap', ~late' PROVE Alone'
    OBVIOUS
  <2>1. /\ \A e \in Daemons \ {d} : stage[e] \notin Starting
        /\ \A e \in Daemons \ {d} : Up(e) => port[e] = "open" /\ \A t \in Threads : thread[e][t] \notin InStop
        /\ ~overlap
    BY <1>3, StartsAlone DEF PingRefused
  <2>2. Alone
    BY <1>3, <2>1 DEF PingRefused
  <2>3. /\ stage'[d] = "stale" /\ \A e \in Daemons \ {d} : stage'[e] = stage[e]
        /\ UNCHANGED <<port, thread, file, writers>>
    BY <1>3 DEF PingRefused, Starts
  <2>4. ~Up(d) /\ ~Up(d)' /\ \A e \in Daemons \ {d} : Up(e)' = Up(e)
    BY <1>3, <2>3 DEF PingRefused
  <2>5. \A e \in Daemons : ~Up(e)
    BY <1>3, <2>1, <2>2, <2>4 DEF PingRefused
  <2> QED
    BY <2>1, <2>2, <2>3, <2>4, <2>5
<1>4. ASSUME NEW d \in Daemons, PingLate(d) PROVE AloneInv'
  BY <1>4 DEF PingLate, Starts, daemonVars
<1>5. ASSUME NEW d \in Daemons, RemoveStale(d) PROVE AloneInv'
  BY <1>5 DEF RemoveStale, Starts, Unlink, daemonVars
<1>6. ASSUME NEW d \in Daemons, Bind(d) PROVE AloneInv'
  BY SMTT(20), <1>6 DEF Bind, Starts, daemonVars
<1>7. ASSUME NEW d \in Daemons, OpenFile(d) PROVE AloneInv'
  BY <1>7 DEF OpenFile, Starts, daemonVars
<1>8. ASSUME NEW d \in Daemons, WriteFile(d) PROVE AloneInv'
  BY <1>8 DEF WriteFile, Starts, daemonVars
<1>9. ASSUME NEW d \in Daemons, NEW t \in Threads, CallStop(d, t) PROVE AloneInv'
  BY <1>9 DEF CallStop, daemonVars
<1>10. ASSUME NEW d \in Daemons, NEW t \in Threads, SetFlag(d, t) PROVE AloneInv'
  BY <1>10 DEF SetFlag, daemonVars
<1>11. ASSUME NEW d \in Daemons, NEW t \in Threads, CloseServer(d, t) PROVE AloneInv'
  BY <1>11 DEF CloseServer, daemonVars
<1>12. ASSUME NEW d \in Daemons, NEW t \in Threads, RemoveFile(d, t) PROVE AloneInv'
  BY SMTT(20), <1>12 DEF RemoveFile, Unlink, daemonVars
<1>13. ASSUME NEW d \in Daemons, Exit(d) PROVE AloneInv'
  BY <1>13 DEF Exit, Gone, daemonVars
<1>14. ASSUME NEW d \in Daemons, Crash(d) PROVE AloneInv'
  BY <1>14 DEF Crash, Gone, daemonVars
<1>15. ASSUME NEW d \in Daemons, PortTaken(d) PROVE AloneInv'
  BY <1>15 DEF PortTaken, daemonVars
<1>16. ASSUME NEW s \in Stops, ReadFile(s) PROVE AloneInv'
  BY <1>16 DEF ReadFile, Goes, daemonVars
<1>17. ASSUME NEW s \in Stops, PostShutdown(s) PROVE AloneInv'
  BY <1>17 DEF PostShutdown, Goes, daemonVars
<1>18. ASSUME NEW s \in Stops, PostLate(s) PROVE AloneInv'
  BY <1>18 DEF PostLate, Goes, daemonVars
<1>19. ASSUME NEW s \in Stops, PostStray(s) PROVE AloneInv'
  BY <1>19 DEF PostStray, Goes, daemonVars
<1>20. ASSUME NEW s \in Stops, PingStray(s) PROVE AloneInv'
  BY <1>20 DEF PingStray, Goes, daemonVars
<1>21. ASSUME NEW s \in Stops, FoundDead(s) PROVE AloneInv'
  BY <1>21 DEF FoundDead, Goes, daemonVars
<1>22. ASSUME NEW s \in Stops, RemoveLeftover(s) PROVE AloneInv'
  BY <1>22 DEF RemoveLeftover, Goes, Unlink, daemonVars
<1>23. ASSUME NEW s \in Stops, FileGone(s) PROVE AloneInv'
  BY <1>23 DEF FileGone, Goes, daemonVars
<1>24. ASSUME NEW s \in Stops, WaitedLong(s) PROVE AloneInv'
  BY <1>24 DEF WaitedLong, Goes, daemonVars
<1>25. ASSUME NEW s \in Stops, StillAlive(s) PROVE AloneInv'
  BY <1>25 DEF StillAlive, Goes, daemonVars
<1>27. ASSUME NEW s \in Stops, PostTimedOut(s) PROVE AloneInv'
  BY <1>27 DEF PostTimedOut, Goes, daemonVars
<1>28. ASSUME NEW s \in Stops, PingTimedOut(s) PROVE AloneInv'
  BY <1>28 DEF PingTimedOut, Goes, daemonVars
<1>26. CASE UNCHANGED vars
  BY <1>26 DEF vars, daemonVars
<1> HIDE DEF IInv, TypeOK, StageInv, NameInv, StopInv, AloneInv, ToldInv, Alone, Told, HasServed, Up, Active
<1> QED
  BY <1>1, <1>2, <1>3, <1>4, <1>5, <1>6, <1>7, <1>8, <1>9, <1>10, <1>11, <1>12, <1>13,
     <1>14, <1>15, <1>16, <1>17, <1>18, <1>19, <1>20, <1>21, <1>22, <1>23, <1>24, <1>25, <1>26,
     <1>27, <1>28
  DEF Next, Run, Stopping, Stop, EnterStop, Signal, Threads

LEMMA ToldStep ==
  ASSUME IInv, [Next]_vars
  PROVE  ToldInv'
<1> USE HostAssumption DEF IInv, TypeOK, StageInv, NameInv, StopInv, AloneInv, ToldInv, Alone, Told, HasServed, Up, Active, Starting, InStop, Threads
<1>1. ASSUME NEW d \in Daemons, Look(d) PROVE ToldInv'
  <2> SUFFICES ASSUME ~overlap', ~late', NEW s \in Stops PROVE Told(s)'
    OBVIOUS
  <2>1. ~Active(s) /\ ~overlap /\ ~late
    BY <1>1, StartsAlone DEF Look
  <2>2. Told(s) /\ UNCHANGED <<command, target, port>>
    BY <1>1, <2>1 DEF Look
  <2> QED
    BY <2>1, <2>2
<1>2. ASSUME NEW d \in Daemons, PingAnswered(d) PROVE ToldInv'
  BY <1>2 DEF PingAnswered, daemonVars
<1>3. ASSUME NEW d \in Daemons, PingRefused(d) PROVE ToldInv'
  BY <1>3 DEF PingRefused, Starts, daemonVars
<1>4. ASSUME NEW d \in Daemons, PingLate(d) PROVE ToldInv'
  BY <1>4 DEF PingLate, Starts, daemonVars
<1>5. ASSUME NEW d \in Daemons, RemoveStale(d) PROVE ToldInv'
  BY <1>5 DEF RemoveStale, Starts, Unlink, daemonVars
<1>6. ASSUME NEW d \in Daemons, Bind(d) PROVE ToldInv'
  BY <1>6 DEF Bind, Starts, daemonVars
<1>7. ASSUME NEW d \in Daemons, OpenFile(d) PROVE ToldInv'
  BY <1>7 DEF OpenFile, Starts, daemonVars
<1>8. ASSUME NEW d \in Daemons, WriteFile(d) PROVE ToldInv'
  BY <1>8 DEF WriteFile, Starts, daemonVars
<1>9. ASSUME NEW d \in Daemons, NEW t \in Threads, CallStop(d, t) PROVE ToldInv'
  BY <1>9 DEF CallStop, daemonVars
<1>10. ASSUME NEW d \in Daemons, NEW t \in Threads, SetFlag(d, t) PROVE ToldInv'
  BY <1>10 DEF SetFlag, daemonVars
<1>11. ASSUME NEW d \in Daemons, NEW t \in Threads, CloseServer(d, t) PROVE ToldInv'
  BY <1>11 DEF CloseServer, daemonVars
<1>12. ASSUME NEW d \in Daemons, NEW t \in Threads, RemoveFile(d, t) PROVE ToldInv'
  BY <1>12 DEF RemoveFile, Unlink, daemonVars
<1>13. ASSUME NEW d \in Daemons, Exit(d) PROVE ToldInv'
  BY <1>13 DEF Exit, Gone, daemonVars
<1>14. ASSUME NEW d \in Daemons, Crash(d) PROVE ToldInv'
  BY <1>14 DEF Crash, Gone, daemonVars
<1>15. ASSUME NEW d \in Daemons, PortTaken(d) PROVE ToldInv'
  BY <1>15 DEF PortTaken, daemonVars
<1>16. ASSUME NEW s \in Stops, ReadFile(s) PROVE ToldInv'
  <2> SUFFICES ASSUME ~overlap', ~late', NEW r \in Stops PROVE Told(r)'
    OBVIOUS
  <2>0. /\ ~overlap /\ \A d \in Daemons : stage[d] \notin Starting
        /\ UNCHANGED <<stage, port, thread, file, late>>
    BY <1>16 DEF ReadFile, daemonVars
  <2>1. /\ Alone /\ Told(r) /\ \A d \in Daemons : stage[d] \notin Starting
        /\ UNCHANGED <<stage, port, thread, file>>
    BY <2>0
  <2>2. \A e \in Daemons : Up(e)' = Up(e)
    BY <2>1
  <2>3. CASE r = s
    <3>1. command'[s] \in {"posting", "stopped", "unlinking"} /\ (command'[s] # "posting" => target'[s] = None)
      BY <1>16 DEF ReadFile, Goes
    <3>2. command'[s] = "posting" => target'[s] = file /\ file \in Daemons
      BY <1>16 DEF ReadFile, Goes
    <3>3. \A e \in Daemons : Up(e) => file \in {e, None}
      BY <2>1
    <3>4. command'[s] = "unlinking" => file = Odd
      BY <1>16 DEF ReadFile, Goes
    <3> QED
      BY <2>1, <2>2, <2>3, <3>1, <3>2, <3>3, <3>4
  <2>4. CASE r # s
    <3>1. command'[r] = command[r] /\ target'[r] = target[r]
      BY <1>16, <2>4 DEF ReadFile, Goes
    <3> QED
      BY <2>1, <2>2, <3>1
  <2> QED
    BY <2>3, <2>4
<1>17. ASSUME NEW s \in Stops, PostShutdown(s) PROVE ToldInv'
  BY <1>17 DEF PostShutdown, Goes, daemonVars
<1>18. ASSUME NEW s \in Stops, PostLate(s) PROVE ToldInv'
  BY <1>18 DEF PostLate, Goes, daemonVars
<1>19. ASSUME NEW s \in Stops, PostStray(s) PROVE ToldInv'
  BY <1>19 DEF PostStray, Goes, daemonVars
<1>20. ASSUME NEW s \in Stops, PingStray(s) PROVE ToldInv'
  BY <1>20 DEF PingStray, Goes, daemonVars
<1>21. ASSUME NEW s \in Stops, FoundDead(s) PROVE ToldInv'
  BY <1>21 DEF FoundDead, Goes, daemonVars
<1>22. ASSUME NEW s \in Stops, RemoveLeftover(s) PROVE ToldInv'
  BY <1>22 DEF RemoveLeftover, Goes, Unlink, daemonVars
<1>23. ASSUME NEW s \in Stops, FileGone(s) PROVE ToldInv'
  BY <1>23 DEF FileGone, Goes, daemonVars
<1>24. ASSUME NEW s \in Stops, WaitedLong(s) PROVE ToldInv'
  BY <1>24 DEF WaitedLong, Goes, daemonVars
<1>25. ASSUME NEW s \in Stops, StillAlive(s) PROVE ToldInv'
  BY <1>25 DEF StillAlive, Goes, daemonVars
<1>27. ASSUME NEW s \in Stops, PostTimedOut(s) PROVE ToldInv'
  BY <1>27 DEF PostTimedOut, Goes, daemonVars
<1>28. ASSUME NEW s \in Stops, PingTimedOut(s) PROVE ToldInv'
  BY <1>28 DEF PingTimedOut, Goes, daemonVars
<1>26. CASE UNCHANGED vars
  BY <1>26 DEF vars, daemonVars
<1> HIDE DEF IInv, TypeOK, StageInv, NameInv, StopInv, AloneInv, ToldInv, Alone, Told, HasServed, Up, Active
<1> QED
  BY <1>1, <1>2, <1>3, <1>4, <1>5, <1>6, <1>7, <1>8, <1>9, <1>10, <1>11, <1>12, <1>13,
     <1>14, <1>15, <1>16, <1>17, <1>18, <1>19, <1>20, <1>21, <1>22, <1>23, <1>24, <1>25, <1>26,
     <1>27, <1>28
  DEF Next, Run, Stopping, Stop, EnterStop, Signal, Threads

-----------------------------------------------------------------------------
(* The theorems. *)

LEMMA AtStart == Init => IInv
<1> SUFFICES ASSUME Init PROVE IInv
  OBVIOUS
<1> USE HostAssumption DEF Init
<1>1. TypeOK
  <2>1. thread \in [Daemons -> [Threads -> InStop \cup {"no", "done"}]]
    OBVIOUS
  <2>2. /\ stage \in [Daemons -> Starting \cup {"off", "serving", "refused", "exited"}]
        /\ port \in [Daemons -> {"closed", "open", "foreign"}]
        /\ saw \in [Daemons -> Daemons \cup {None}]
    BY DEF Starting
  <2>3. command \in [Stops -> {"off", "posting", "waiting", "checking", "unlinking", "stopped", "failed"}]
        /\ target \in [Stops -> Daemons \cup {None}]
    OBVIOUS
  <2>4. mishaps \in 0..MaxMishaps
    OBVIOUS
  <2>5. file \in Daemons \cup {None, Torn, Odd} /\ writers \subseteq Daemons
        /\ asked \subseteq Daemons /\ flag \subseteq Daemons
        /\ overlap \in BOOLEAN /\ late \in BOOLEAN
    OBVIOUS
  <2> QED
    BY <2>1, <2>2, <2>3, <2>4, <2>5 DEF TypeOK
<1>2. StageInv /\ NameInv /\ StopInv
  BY DEF StageInv, NameInv, StopInv, Active
<1>3. AloneInv /\ ToldInv
  BY DEF AloneInv, ToldInv, Alone, Told, Up, Active, Starting
<1> QED
  BY <1>1, <1>2, <1>3 DEF IInv

\* Every step of a start, of stop() in its two threads and of `bridge stop`, and
\* every crash, keeps the endpoint file in step with who is up
\* (BridgeDaemon.start, BridgeDaemon.stop, cmd_stop).
THEOREM HostInvariant == Spec => []IInv
<1>1. IInv /\ [Next]_vars => IInv'
  BY TypeStep, StageStep, NameStep, StopStep, AloneStep, ToldStep DEF IInv
<1> QED
  BY <1>1, AtStart, PTL DEF Spec

\* Two daemons serve at once only if one started while another process was
\* starting or stopping, or was taken for dead because it answered late
\* (BridgeDaemon.start: a live response means refuse).
THEOREM OneServes == Spec => []OneServing
<1>1. IInv => OneServing
  <2> SUFFICES ASSUME IInv, ~overlap, ~late PROVE ~(Cardinality(Serving) > 1)
    BY DEF OneServing
  <2>1. \A d, e \in Serving : d = e
    BY DEF IInv, AloneInv, Alone, Serving, Up
  <2>2. CASE Serving = {}
    BY <2>2, FS_EmptySet
  <2>3. ASSUME NEW d \in Serving PROVE ~(Cardinality(Serving) > 1)
    <3>1. Serving = {d}
      BY <2>1, <2>3
    <3> QED
      BY <3>1, FS_Singleton
  <2> QED
    BY <2>2, <2>3
<1> QED
  BY <1>1, HostInvariant, PTL

\* What `bridge stop` calls stopped serves no longer, whoever removed the file,
\* with the same reservation (cmd_stop: "the daemon's really gone").
THEOREM StoppedServesNoLonger == Spec => []ToldTrue
<1>1. IInv => ToldTrue
  BY DEF IInv, ToldInv, Told, ToldTrue, Serving
<1> QED
  BY <1>1, HostInvariant, PTL

\* The variables keep to their types (daemon.py, cli.py).
THEOREM HostTyped == Spec => []TypeOK
<1>1. IInv => TypeOK
  BY DEF IInv
<1> QED
  BY <1>1, HostInvariant, PTL

-----------------------------------------------------------------------------
(* A daemon that took a request to stop does not get stuck. *)

\* Only daemons that serve take requests, and they forget them when they end.
AskedInv == \A d \in asked : stage[d] = "serving"

LEMMA AskedStep ==
  ASSUME TypeOK, StageInv, NameInv, AskedInv, [Next]_vars
  PROVE  AskedInv'
<1> USE HostAssumption DEF TypeOK, StageInv, AskedInv, Starting
<1>1. ASSUME NEW d \in Daemons, Look(d) PROVE AskedInv'
  BY <1>1 DEF Look, Starts, daemonVars
<1>2. ASSUME NEW d \in Daemons, PingAnswered(d) PROVE AskedInv'
  BY <1>2 DEF PingAnswered, daemonVars
<1>3. ASSUME NEW d \in Daemons, PingRefused(d) PROVE AskedInv'
  BY <1>3 DEF PingRefused, Starts, daemonVars
<1>4. ASSUME NEW d \in Daemons, PingLate(d) PROVE AskedInv'
  BY <1>4 DEF PingLate, Starts, daemonVars
<1>5. ASSUME NEW d \in Daemons, RemoveStale(d) PROVE AskedInv'
  BY <1>5 DEF RemoveStale, Starts, Unlink, daemonVars
<1>6. ASSUME NEW d \in Daemons, Bind(d) PROVE AskedInv'
  BY <1>6 DEF Bind, Starts, daemonVars
<1>7. ASSUME NEW d \in Daemons, OpenFile(d) PROVE AskedInv'
  BY <1>7 DEF OpenFile, Starts, daemonVars
<1>8. ASSUME NEW d \in Daemons, WriteFile(d) PROVE AskedInv'
  BY <1>8 DEF WriteFile, Starts, daemonVars
<1>9. ASSUME NEW d \in Daemons, NEW t \in Threads, CallStop(d, t) PROVE AskedInv'
  BY <1>9 DEF CallStop, daemonVars
<1>10. ASSUME NEW d \in Daemons, NEW t \in Threads, SetFlag(d, t) PROVE AskedInv'
  BY <1>10 DEF SetFlag, daemonVars
<1>11. ASSUME NEW d \in Daemons, NEW t \in Threads, CloseServer(d, t) PROVE AskedInv'
  BY <1>11 DEF CloseServer, daemonVars
<1>12. ASSUME NEW d \in Daemons, NEW t \in Threads, RemoveFile(d, t) PROVE AskedInv'
  BY <1>12 DEF RemoveFile, Unlink, daemonVars
<1>13. ASSUME NEW d \in Daemons, Exit(d) PROVE AskedInv'
  BY <1>13 DEF Exit, Gone, daemonVars
<1>14. ASSUME NEW d \in Daemons, Crash(d) PROVE AskedInv'
  BY <1>14 DEF Crash, Gone, daemonVars
<1>15. ASSUME NEW d \in Daemons, PortTaken(d) PROVE AskedInv'
  BY <1>15 DEF PortTaken, daemonVars
<1>16. ASSUME NEW s \in Stops, ReadFile(s) PROVE AskedInv'
  BY <1>16 DEF ReadFile, Goes, daemonVars
<1>17. ASSUME NEW s \in Stops, PostShutdown(s) PROVE AskedInv'
  BY <1>17 DEF PostShutdown, Goes, NameInv, HasServed, Active, daemonVars
<1>18. ASSUME NEW s \in Stops, PostLate(s) PROVE AskedInv'
  BY <1>18 DEF PostLate, Goes, NameInv, HasServed, Active, daemonVars
<1>19. ASSUME NEW s \in Stops, PostStray(s) PROVE AskedInv'
  BY <1>19 DEF PostStray, Goes, daemonVars
<1>20. ASSUME NEW s \in Stops, PingStray(s) PROVE AskedInv'
  BY <1>20 DEF PingStray, Goes, daemonVars
<1>21. ASSUME NEW s \in Stops, FoundDead(s) PROVE AskedInv'
  BY <1>21 DEF FoundDead, Goes, daemonVars
<1>22. ASSUME NEW s \in Stops, RemoveLeftover(s) PROVE AskedInv'
  BY <1>22 DEF RemoveLeftover, Goes, Unlink, daemonVars
<1>23. ASSUME NEW s \in Stops, FileGone(s) PROVE AskedInv'
  BY <1>23 DEF FileGone, Goes, daemonVars
<1>24. ASSUME NEW s \in Stops, WaitedLong(s) PROVE AskedInv'
  BY <1>24 DEF WaitedLong, Goes, daemonVars
<1>25. ASSUME NEW s \in Stops, StillAlive(s) PROVE AskedInv'
  BY <1>25 DEF StillAlive, Goes, daemonVars
<1>27. ASSUME NEW s \in Stops, PostTimedOut(s) PROVE AskedInv'
  BY <1>27 DEF PostTimedOut, Goes, daemonVars
<1>28. ASSUME NEW s \in Stops, PingTimedOut(s) PROVE AskedInv'
  BY <1>28 DEF PingTimedOut, Goes, daemonVars
<1>26. CASE UNCHANGED vars
  BY <1>26 DEF vars, daemonVars
<1> HIDE DEF TypeOK, StageInv, AskedInv
<1> QED
  BY <1>1, <1>2, <1>3, <1>4, <1>5, <1>6, <1>7, <1>8, <1>9, <1>10, <1>11, <1>12, <1>13,
     <1>14, <1>15, <1>16, <1>17, <1>18, <1>19, <1>20, <1>21, <1>22, <1>23, <1>24, <1>25, <1>26,
     <1>27, <1>28
  DEF Next, Run, Stopping, Stop, EnterStop, Signal, Threads

\* A thread of it is in stop(), or is about to call it, or `bridge run` returns.
GoesOn(d) ==
  \/ thread[d]["main"] = "done"
  \/ \E t \in Threads : thread[d][t] \in InStop \/ (thread[d][t] = "no" /\ Woken(d, t))

\* Whatever the order of signals and requests, and whichever thread was first in
\* stop(), a daemon that took a POST /shutdown always has a thread that brings it
\* nearer to its end (handle_shutdown, cmd_run: the main loop looks at the flag).
THEOREM AskedGoOn == Spec => [](\A d \in asked : stage[d] = "serving" /\ GoesOn(d))
<1>1. Init => AskedInv
  BY DEF Init, AskedInv
<1>2. IInv /\ AskedInv /\ [Next]_vars => AskedInv'
  BY AskedStep DEF IInv
<1>3. IInv /\ AskedInv => \A d \in asked : stage[d] = "serving" /\ GoesOn(d)
  <2> SUFFICES ASSUME IInv, AskedInv, NEW d \in asked PROVE stage[d] = "serving" /\ GoesOn(d)
    OBVIOUS
  <2>1. d \in Daemons /\ stage[d] = "serving" /\ thread[d] \in [Threads -> InStop \cup {"no", "done"}]
    BY DEF IInv, TypeOK, AskedInv
  <2>2. thread[d]["bridge-stop"] = "no" => Woken(d, "bridge-stop")
    BY DEF Woken
  <2>3. thread[d]["bridge-stop"] = "done" => Woken(d, "main")
    BY <2>1 DEF IInv, StopInv, Threads, Woken
  <2> HIDE DEF Woken
  <2> QED
    BY <2>1, <2>2, <2>3 DEF GoesOn, Threads
<1> QED
  BY <1>1, <1>2, <1>3, HostInvariant, PTL DEF Spec

=============================================================================
