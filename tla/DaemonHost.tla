----------------------------- MODULE DaemonHost -----------------------------
(* The life of the daemons of one account on one host: BridgeDaemon.start and
   stop, the loop of `bridge run`, the command `bridge stop`, and the endpoint
   file through which they find each other.  Nothing locks that file: a process
   reads it, asks the port it names, and acts on the answer later.

   A daemon binds a port of its own (--port 0, the default), so ports bear the
   names of the daemons.  Once its daemon is gone a port may be given to another
   program, whose answers _endpoint_is_live cannot tell from a daemon's. *)
EXTENDS Naturals, FiniteSets

CONSTANTS
  Daemons,      \* processes running `bridge run`, each of them once
  Stops,        \* processes running `bridge stop`
  None,
  Torn,         \* an endpoint file opened for writing and not yet written
  Odd,          \* a file of other hands that parses and names no port
  MaxMishaps    \* bound on crashes, answers that come late, ports taken over

ASSUME HostAssumption ==
  /\ None \notin Daemons
  /\ Torn \notin Daemons \cup {None}
  /\ Odd \notin Daemons \cup {None, Torn}
  /\ MaxMishaps \in Nat

VARIABLES
  file,         \* the endpoint file: the daemon it names, Torn, Odd or None
  writers,      \* the daemons holding that very file (not a deleted one) open
  stage,        \* where `bridge run` is
  port,         \* "closed", "open", or "foreign" when another program has it
  saw,          \* the daemon named by the file a start has read
  asked,        \* daemons that took a POST /shutdown
  flag,         \* daemons with _shutdown_requested set
  thread,       \* how far the two threads that call stop() are in it
  command,      \* where a `bridge stop` is
  target,       \* the daemon it read of
  mishaps,
  overlap,      \* a daemon started while another process started or stopped
  late          \* a daemon answered too late and was taken for dead

daemonVars == <<stage, port, saw, asked, flag, thread>>
vars == <<file, writers, daemonVars, command, target, mishaps, overlap, late>>

\* The two threads that may run BridgeDaemon.stop: the one of `bridge run` and
\* the one handle_shutdown starts.  Later requests start threads that return at
\* once, like the first when the flag is already set.
Threads == {"main", "bridge-stop"}

Starting == {"pinging", "stale", "clear", "bound", "writing"}
InStop == {"entered", "flagged", "closed"}

TypeOK ==
  /\ file \in Daemons \cup {None, Torn, Odd} /\ writers \subseteq Daemons
  /\ stage \in [Daemons -> Starting \cup {"off", "serving", "refused", "exited"}]
  /\ port \in [Daemons -> {"closed", "open", "foreign"}]
  /\ saw \in [Daemons -> Daemons \cup {None}]
  /\ asked \subseteq Daemons /\ flag \subseteq Daemons
  /\ thread \in [Daemons -> [Threads -> InStop \cup {"no", "done"}]]
  /\ command \in [Stops -> {"off", "posting", "waiting", "checking", "unlinking", "stopped", "failed"}]
  /\ target \in [Stops -> Daemons \cup {None}]
  /\ mishaps \in 0..MaxMishaps /\ overlap \in BOOLEAN /\ late \in BOOLEAN

Init ==
  /\ file \in {None, Odd} /\ writers = {}
  /\ stage = [d \in Daemons |-> "off"] /\ port = [d \in Daemons |-> "closed"]
  /\ saw = [d \in Daemons |-> None]
  /\ asked = {} /\ flag = {}
  /\ thread = [d \in Daemons |-> [t \in Threads |-> "no"]]
  /\ command = [s \in Stops |-> "off"] /\ target = [s \in Stops |-> None]
  /\ mishaps = 0 /\ overlap = FALSE /\ late = FALSE

\* endpoint_file.unlink: a writer that had it open goes on writing to nothing.
Unlink == file' = None /\ writers' = {}

\* Another process than d is starting, stopping or running `bridge stop`.
Busy(d) ==
  \/ \E e \in Daemons \ {d} : stage[e] \in Starting
  \/ \E e \in Daemons \ {d}, t \in Threads : stage[e] = "serving" /\ thread[e][t] \in InStop
  \/ \E s \in Stops : command[s] \in {"posting", "waiting", "checking", "unlinking"}

\* Every step of a start takes note of the others.
Starts(d, to) ==
  /\ stage' = [stage EXCEPT ![d] = to]
  /\ overlap' = (overlap \/ Busy(d))

-----------------------------------------------------------------------------
(* `bridge run`: the start. *)

\* A file that is absent or does not parse is no sign of a daemon, one that names
\* no port is stale without a ping.
Look(d) ==
  /\ stage[d] = "off"
  /\ Starts(d, IF file \in Daemons THEN "pinging" ELSE IF file = Odd THEN "stale" ELSE "clear")
  /\ saw' = [saw EXCEPT ![d] = IF file \in Daemons THEN file ELSE None]
  /\ UNCHANGED <<file, writers, port, asked, flag, thread, command, target, mishaps, late>>

\* Whatever answers on the port is taken for a daemon (_endpoint_is_live).
PingAnswered(d) ==
  /\ stage[d] = "pinging" /\ port[saw[d]] # "closed"
  /\ stage' = [stage EXCEPT ![d] = "refused"]
  /\ saw' = [saw EXCEPT ![d] = None]
  /\ UNCHANGED <<file, writers, port, asked, flag, thread, command, target, mishaps, overlap, late>>

\* A start that logs what answered, and goes on as if nothing had.
PingUnheeded(d) ==
  /\ stage[d] = "pinging"
  /\ Starts(d, "stale")
  /\ saw' = [saw EXCEPT ![d] = None]
  /\ UNCHANGED <<file, writers, port, asked, flag, thread, command, target, mishaps, late>>

PingRefused(d) ==
  /\ stage[d] = "pinging" /\ port[saw[d]] = "closed"
  /\ Starts(d, "stale")
  /\ saw' = [saw EXCEPT ![d] = None]
  /\ UNCHANGED <<file, writers, port, asked, flag, thread, command, target, mishaps, late>>

\* No answer within the second counts as refused.
PingLate(d) ==
  /\ stage[d] = "pinging" /\ port[saw[d]] # "closed"
  /\ mishaps < MaxMishaps /\ mishaps' = mishaps + 1 /\ late' = TRUE
  /\ Starts(d, "stale")
  /\ saw' = [saw EXCEPT ![d] = None]
  /\ UNCHANGED <<file, writers, port, asked, flag, thread, command, target>>

\* What is removed is the file there is now, not the one that was read.
RemoveStale(d) ==
  /\ stage[d] = "stale"
  /\ Starts(d, "clear") /\ Unlink
  /\ UNCHANGED <<port, saw, asked, flag, thread, command, target, mishaps, late>>

Bind(d) ==
  /\ stage[d] = "clear"
  /\ Starts(d, "bound") /\ port' = [port EXCEPT ![d] = "open"]
  /\ UNCHANGED <<file, writers, saw, asked, flag, thread, command, target, mishaps, late>>

\* write_endpoint_file truncates the file, then writes it.
OpenFile(d) ==
  /\ stage[d] = "bound"
  /\ Starts(d, "writing") /\ file' = Torn /\ writers' = writers \cup {d}
  /\ UNCHANGED <<port, saw, asked, flag, thread, command, target, mishaps, late>>

WriteFile(d) ==
  /\ stage[d] = "writing"
  /\ Starts(d, "serving")
  /\ file' = IF d \in writers THEN d ELSE file
  /\ writers' = writers \ {d}
  /\ UNCHANGED <<port, saw, asked, flag, thread, command, target, mishaps, late>>

-----------------------------------------------------------------------------
(* BridgeDaemon.stop, run by the main thread and by the thread of a request. *)

\* A loop that waits for a signal only: the zombie of test_run_exits_on_shutdown_request.
WokenBySignal(d, t) == t # "main" /\ d \in asked

\* What brings a thread to stop(), short of a signal: the loop of `bridge run`
\* looks at the flag, the other thread was started for it.
Woken(d, t) == d \in IF t = "main" THEN flag ELSE asked

\* stop() returns at once to whoever finds the flag set; test and set are two steps.
CallStop(d, t) ==
  /\ stage[d] = "serving" /\ thread[d][t] = "no"
  /\ thread' = [thread EXCEPT ![d][t] = IF d \in flag THEN "done" ELSE "entered"]
  /\ UNCHANGED <<file, writers, stage, port, saw, asked, flag, command, target, mishaps, overlap, late>>

\* SIGINT or SIGTERM ends the wait of the main thread.
Signal(d) == CallStop(d, "main")

EnterStop(d, t) == Woken(d, t) /\ CallStop(d, t)

SetFlag(d, t) ==
  /\ stage[d] = "serving" /\ thread[d][t] = "entered"
  /\ flag' = flag \cup {d} /\ thread' = [thread EXCEPT ![d][t] = "flagged"]
  /\ UNCHANGED <<file, writers, stage, port, saw, asked, command, target, mishaps, overlap, late>>

\* The second of two threads finds _server None, or loses it under its hands
\* and leaves stop() with an AttributeError.
CloseServer(d, t) ==
  /\ stage[d] = "serving" /\ thread[d][t] = "flagged"
  /\ \E to \in {"closed"} \cup IF port[d] = "open" THEN {} ELSE {"done"} :
       thread' = [thread EXCEPT ![d][t] = to]
  /\ port' = [port EXCEPT ![d] = "closed"]
  /\ UNCHANGED <<file, writers, stage, saw, asked, flag, command, target, mishaps, overlap, late>>

\* The file is removed whomever it names by now.
RemoveFile(d, t) ==
  /\ stage[d] = "serving" /\ thread[d][t] = "closed"
  /\ Unlink /\ thread' = [thread EXCEPT ![d][t] = "done"]
  /\ UNCHANGED <<stage, port, saw, asked, flag, command, target, mishaps, overlap, late>>

\* A process ends, and with it what it kept in memory; its port is closed.
Gone(d) ==
  /\ stage' = [stage EXCEPT ![d] = "exited"] /\ port' = [port EXCEPT ![d] = "closed"]
  /\ asked' = asked \ {d} /\ flag' = flag \ {d}
  /\ thread' = [thread EXCEPT ![d] = [t \in Threads |-> "no"]]
  /\ saw' = [saw EXCEPT ![d] = None]

\* `bridge run` returns once its own call of stop() has, and takes the other
\* thread (a daemon thread) with it, wherever that one is.
Exit(d) ==
  /\ stage[d] = "serving" /\ thread[d]["main"] = "done"
  /\ Gone(d)
  /\ UNCHANGED <<file, writers, command, target, mishaps, overlap, late>>

\* The process is killed; what it wrote stays.
Crash(d) ==
  /\ stage[d] \in Starting \cup {"serving"} /\ mishaps < MaxMishaps /\ mishaps' = mishaps + 1
  /\ Gone(d)
  /\ UNCHANGED <<file, writers, command, target, overlap, late>>

\* The system gives the port of a daemon that is gone to another program.
PortTaken(d) ==
  /\ stage[d] = "exited" /\ port[d] = "closed" /\ mishaps < MaxMishaps /\ mishaps' = mishaps + 1
  /\ port' = [port EXCEPT ![d] = "foreign"]
  /\ UNCHANGED <<file, writers, stage, saw, asked, flag, thread, command, target, overlap, late>>

-----------------------------------------------------------------------------
(* `bridge stop`. *)

Goes(s, to) == command' = [command EXCEPT ![s] = to]

\* No file, or one that does not parse: "already stopped".  One without a port
\* is only removed.
ReadFile(s) ==
  /\ command[s] = "off"
  /\ Goes(s, IF file \in Daemons THEN "posting" ELSE IF file = Odd THEN "unlinking" ELSE "stopped")
  /\ target' = [target EXCEPT ![s] = IF file \in Daemons THEN file ELSE None]
  /\ overlap' = (overlap \/ \E d \in Daemons : stage[d] \in Starting)
  /\ UNCHANGED <<file, writers, daemonVars, mishaps, late>>

\* handle_shutdown answers and leaves the work to a thread.
PostShutdown(s) ==
  /\ command[s] = "posting" /\ port[target[s]] = "open"
  /\ asked' = asked \cup {target[s]} /\ Goes(s, "waiting")
  /\ UNCHANGED <<file, writers, stage, port, saw, flag, thread, target, mishaps, overlap, late>>

\* The request is taken but its answer comes too late: urlopen raises past
\* the handler of cmd_stop.
PostLate(s) ==
  /\ command[s] = "posting" /\ port[target[s]] = "open"
  /\ mishaps < MaxMishaps /\ mishaps' = mishaps + 1
  /\ asked' = asked \cup {target[s]} /\ Goes(s, "failed")
  /\ UNCHANGED <<file, writers, stage, port, saw, flag, thread, target, overlap, late>>

\* The daemon does not take the connection in five seconds: a timed-out connect
\* is a URLError, and the process "appears dead".
PostTimedOut(s) ==
  /\ command[s] = "posting" /\ port[target[s]] = "open"
  /\ mishaps < MaxMishaps /\ mishaps' = mishaps + 1 /\ late' = TRUE
  /\ Goes(s, "unlinking")
  /\ UNCHANGED <<file, writers, daemonVars, target, overlap>>

\* Another program answers the request, with an error or a 200, or lets it time out ...
PostStray(s) ==
  /\ command[s] = "posting" /\ port[target[s]] = "foreign"
  /\ \E to \in {"failed", "waiting", "unlinking"} : Goes(s, to)
  /\ UNCHANGED <<file, writers, daemonVars, target, mishaps, overlap, late>>

\* ... and the ping, where only an answer without error is one.
PingStray(s) ==
  /\ command[s] = "checking" /\ port[target[s]] = "foreign"
  /\ \E to \in {"failed", "unlinking"} : Goes(s, to)
  /\ UNCHANGED <<file, writers, daemonVars, target, mishaps, overlap, late>>

\* Connection refused: before the wait, or at the ping after it.
FoundDead(s) ==
  /\ command[s] \in {"posting", "checking"} /\ port[target[s]] = "closed"
  /\ Goes(s, "unlinking")
  /\ UNCHANGED <<file, writers, daemonVars, target, mishaps, overlap, late>>

\* unlink of a file that is no longer there raises, and the command fails.
RemoveLeftover(s) ==
  /\ command[s] = "unlinking"
  /\ Goes(s, IF file = None THEN "failed" ELSE "stopped") /\ Unlink
  /\ UNCHANGED <<daemonVars, target, mishaps, overlap, late>>

\* A command that took the answer to its request for the end of the daemon.
ToldAtOnce(s) ==
  /\ command[s] = "waiting"
  /\ Goes(s, "stopped")
  /\ UNCHANGED <<file, writers, daemonVars, target, mishaps, overlap, late>>

\* "the daemon's really gone": the file is no longer there, whoever removed it.
FileGone(s) ==
  /\ command[s] = "waiting" /\ file = None
  /\ Goes(s, "stopped")
  /\ UNCHANGED <<file, writers, daemonVars, target, mishaps, overlap, late>>

\* Fifty looks in five seconds were not enough.
WaitedLong(s) ==
  /\ command[s] = "waiting"
  /\ Goes(s, "checking")
  /\ UNCHANGED <<file, writers, daemonVars, target, mishaps, overlap, late>>

StillAlive(s) ==
  /\ command[s] = "checking" /\ port[target[s]] = "open"
  /\ Goes(s, "failed")
  /\ UNCHANGED <<file, writers, daemonVars, target, mishaps, overlap, late>>

\* No answer within the second: still_alive is False though the daemon serves.
PingTimedOut(s) ==
  /\ command[s] = "checking" /\ port[target[s]] = "open"
  /\ mishaps < MaxMishaps /\ mishaps' = mishaps + 1 /\ late' = TRUE
  /\ Goes(s, "unlinking")
  /\ UNCHANGED <<file, writers, daemonVars, target, overlap>>

-----------------------------------------------------------------------------

Stopping(d) ==
  \/ \E t \in Threads : EnterStop(d, t) \/ SetFlag(d, t) \/ CloseServer(d, t) \/ RemoveFile(d, t)
  \/ Exit(d)

Run(d) ==
  \/ Look(d) \/ PingAnswered(d) \/ PingRefused(d) \/ PingLate(d) \/ RemoveStale(d)
  \/ Bind(d) \/ OpenFile(d) \/ WriteFile(d)
  \/ Signal(d) \/ Stopping(d) \/ Crash(d) \/ PortTaken(d)

Stop(s) ==
  \/ ReadFile(s) \/ PostShutdown(s) \/ PostLate(s) \/ PostTimedOut(s) \/ PostStray(s)
  \/ PingStray(s) \/ FoundDead(s) \/ RemoveLeftover(s) \/ FileGone(s) \/ WaitedLong(s)
  \/ StillAlive(s) \/ PingTimedOut(s)

Next == (\E d \in Daemons : Run(d)) \/ (\E s \in Stops : Stop(s))

\* A thread that is in stop(), or has been woken to call it, goes on, and the
\* main loop looks every half second; nobody has to start, signal or stop anything.
Fairness == \A d \in Daemons : WF_vars(Stopping(d))

Spec == Init /\ [][Next]_vars /\ Fairness

-----------------------------------------------------------------------------
(* Properties. *)

Serving == {d \in Daemons : stage[d] = "serving" /\ port[d] = "open"}

\* Two daemons of an account serve at once only if one of them started while
\* another process was starting or stopping, or was taken for dead because it
\* answered late, to a start's ping or to `bridge stop` (BridgeDaemon.start: "a
\* live response = another daemon really is running -> refuse").  Crashes at any
\* point, the race of the two threads in stop() and ports that went to other
\* programs do not bring it about.
OneServing == Cardinality(Serving) > 1 => overlap \/ late

\* `bridge stop` says that a daemon is stopped only when that daemon serves no
\* longer (cmd_stop), with the same reservation: a /status answer that takes more
\* than a second, or a connection that takes more than five, makes it remove the
\* file and say so of a daemon that serves.
ToldTrue ==
  \A s \in Stops : command[s] = "stopped" /\ target[s] # None =>
    target[s] \notin Serving \/ overlap \/ late

\* What `bridge stop` says is true; and a daemon that took the request ends,
\* process and all, whatever else happens (cmd_run, cmd_stop).
StoppedIsTrue ==
  /\ []ToldTrue
  /\ \A d \in Daemons : d \in asked ~> stage[d] = "exited"

=============================================================================
