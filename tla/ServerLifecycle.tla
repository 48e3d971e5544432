-------------------------- MODULE ServerLifecycle --------------------------
(***************************************************************************)
(* One process of the service from main() to its exit, and the next one:   *)
(* the order in which connections, scheduler and HTTP server come up, a    *)
(* signal, the drain of the HTTP server, main's deferred calls in reverse  *)
(* order, and zapLogger.Fatal, which exits without them.  Requests and     *)
(* runs are reduced to one event each, and to the time they take; Redis    *)
(* and Postgres answer as long as their pool is open.  Time is discrete.   *)
(***************************************************************************)
EXTENDS Integers

CONSTANTS
  Events,           \* a request carries one event, a batch is one event
  Runs,             \* slots for runs of the job going on in this process
  Nothing,          \* a run holds no batch
  ShutdownTimeout,  \* executeGracefulRunShutdown's context
  InnerTimeout,     \* Server.Shutdown's context, inside the former
  StopTimeout,      \* gocron's WithStopTimeout, its default: no option sets it
  MaxRequest,       \* how long a client can keep a handler busy
  MaxRun            \* how long a run can go on

ASSUME NothingAssumption == Nothing \notin Events
ASSUME DisjointAssumption == Events \cap Runs = {}
ASSUME TimesAssumption ==
  {ShutdownTimeout, InnerTimeout, StopTimeout, MaxRequest, MaxRun} \subseteq Nat \ {0}

VARIABLES
  at,      \* where main() is
  sig,     \* the quit channel holds a signal
  listen,  \* the listener: "no", "opening", "open", "failed", "closed"
  timer,   \* what is left of the timeout main() waits under
  waited,  \* time since the drain began
  pools,   \* the open connection pools of main's Connections
  ticking, \* gocron starts runs
  req,     \* req[e]: "new", "bound", "pushed", or the answer
  left,    \* what is left of the time a request or a run takes
  going,   \* the runs that go on
  held,    \* held[r]: the batch run r has popped
  queue, rows, dead,  \* the events in the Redis lists and in the table
  rough    \* a run was cut short by an exit or outlived Stop

mainVars  == <<at, sig, listen, timer, waited, pools, ticking>>
httpVars  == <<req>>
runVars   == <<going, held, rows, dead>>
vars      == <<mainVars, httpVars, left, runVars, queue, rough>>

Up == at # "exited"
Busy == {e \in Events : req[e] \in {"bound", "pushed"}}

Init ==
  /\ at = "init" /\ sig = FALSE /\ listen = "no"
  /\ timer = 0 /\ waited = 0
  /\ pools = {} /\ ticking = FALSE
  /\ req = [e \in Events |-> "new"]
  /\ left = [x \in Events \cup Runs |-> 0]
  /\ going = {} /\ held = [r \in Runs |-> Nothing]
  /\ queue = {} /\ rows = {} /\ dead = {}
  /\ rough = FALSE

-----------------------------------------------------------------------------
(* Exits.                                                                   *)

\* The process is gone: os.Exit in Fatal, SIGKILL, or the end of main().
Exit ==
  /\ at' = "exited"
  /\ sig' = FALSE /\ listen' = "no" /\ timer' = 0 /\ waited' = 0
  /\ pools' = {} /\ ticking' = FALSE
  /\ req' = [e \in Events |-> IF e \in Busy THEN "reset" ELSE req[e]]
  /\ left' = [x \in Events \cup Runs |-> 0]
  /\ going' = {} /\ held' = [r \in Runs |-> Nothing]
  /\ rough' = (rough \/ going # {})
  /\ UNCHANGED <<queue, rows, dead>>

\* SIGKILL, or SIGTERM before signal.Notify.
Kill == Up /\ Exit

\* The orchestrator starts the next process.
Restart ==
  /\ at = "exited"
  /\ at' = "init"
  /\ UNCHANGED <<sig, listen, timer, waited, pools, ticking, httpVars, left,
                 runVars, queue, rough>>

-----------------------------------------------------------------------------
(* main() on its way up: each step may fail, and then Fatal exits.          *)

\* observe.Init, NewConnections, the services, NewScheduler, RegisterJobs.
Connect ==
  /\ at = "init"
  /\ \/ /\ at' = "connected" /\ pools' = {"pg", "redis"}
        /\ UNCHANGED <<sig, listen, timer, waited, ticking, httpVars, left,
                       runVars, queue, rough>>
     \/ Exit

\* sched.Start: from here on runs go on beside main().
StartScheduler ==
  /\ at = "connected"
  /\ at' = "scheduled" /\ ticking' = TRUE
  /\ UNCHANGED <<sig, listen, timer, waited, pools, httpVars, left, runVars,
                 queue, rough>>

\* StartHTTPServer: connections of its own, routes, the listener's goroutine,
\* signal.Notify.
StartHTTPServer ==
  /\ at = "scheduled"
  /\ \/ /\ at' = "serving" /\ listen' = "opening"
        /\ UNCHANGED <<sig, timer, waited, pools, ticking, httpVars, left,
                       runVars, queue, rough>>
     \/ Exit

\* ListenAndServe opens the port, or sends its error to serverErrors.
Listen ==
  /\ listen = "opening"
  /\ listen' \in {"open", "failed"}
  /\ UNCHANGED <<at, sig, timer, waited, pools, ticking, httpVars, left,
                 runVars, queue, rough>>

\* The quit channel has room for one signal; a second one is dropped.
Signal ==
  /\ at \in {"serving", "draining", "stopping", "closing", "flushing"}
  /\ sig' = TRUE
  /\ UNCHANGED <<at, listen, timer, waited, pools, ticking, httpVars, left,
                 runVars, queue, rough>>

\* runServerLifecycle's select takes the error: StartHTTPServer returns it.
ServerFailed == at = "serving" /\ listen = "failed" /\ Exit

-----------------------------------------------------------------------------
(* main() on its way down.                                                  *)

\* The two contexts one after the other.
DrainTimeoutsAddUp == ShutdownTimeout + InnerTimeout

DrainTimeout ==
  IF InnerTimeout < ShutdownTimeout THEN InnerTimeout ELSE ShutdownTimeout

\* The select takes the signal: the listener closes, handlers go on.
BeginDrain ==
  /\ at = "serving" /\ sig
  /\ at' = "draining" /\ sig' = FALSE /\ listen' = "closed"
  /\ timer' = DrainTimeout
  /\ UNCHANGED <<waited, pools, ticking, httpVars, left, runVars, queue, rough>>

\* A Shutdown that does not wait for handlers.
DrainedAnyway == TRUE

Drained == Busy = {}

\* Jobs that are still started while the scheduler stops.
TicksGoOn == ticking

TicksEnd == FALSE

\* Every handler has answered: StartHTTPServer and main() return, and the first
\* deferred call, sched.Stop, starts no new run and waits for those going on.
EndDrain ==
  /\ at = "draining" /\ Drained
  /\ at' = "stopping" /\ timer' = StopTimeout /\ ticking' = TicksEnd
  /\ UNCHANGED <<sig, listen, waited, pools, httpVars, left, runVars, queue, rough>>

\* Shutdown's context ends first: StartHTTPServer's error makes main() call
\* Fatal, which skips every deferred call.
DrainFails == at = "draining" /\ timer = 0 /\ Exit

\* A Stop that does not wait for runs.
StoppedAnyway == TRUE

Stopped == going = {}

\* sched.Stop returns: no run is left, or its timeout is over.
EndStop ==
  /\ at = "stopping"
  /\ \/ Stopped /\ rough' = rough
     \/ timer = 0 /\ rough' = (rough \/ going # {})
  /\ at' = "closing"
  /\ UNCHANGED <<sig, listen, timer, waited, pools, ticking, httpVars, left,
                 runVars, queue>>

\* dbConns.Close: Postgres first, then Redis; a run that is left goes on.
Close ==
  /\ at = "closing"
  /\ IF "pg" \in pools
     THEN pools' = pools \ {"pg"} /\ at' = at
     ELSE pools' = {} /\ at' = "flushing"
  /\ UNCHANGED <<sig, listen, timer, waited, ticking, httpVars, left, runVars,
                 queue, rough>>

\* obs.Shutdown, and main() is over.
Return == at = "flushing" /\ Exit

-----------------------------------------------------------------------------
(* Handlers and runs.                                                       *)

Arrive(e) ==
  /\ listen = "open" /\ req[e] = "new"
  /\ req' = [req EXCEPT ![e] = "bound"]
  /\ \E d \in 1 .. MaxRequest : left' = [left EXCEPT ![e] = d]
  /\ UNCHANGED <<mainVars, runVars, queue, rough>>

\* EventBuffer.Push on main's Redis pool; it fails when the pool is closed.
Push(e) ==
  /\ req[e] = "bound"
  /\ IF "redis" \in pools
     THEN req' = [req EXCEPT ![e] = "pushed"] /\ queue' = queue \cup {e}
     ELSE req' = [req EXCEPT ![e] = "500"] /\ queue' = queue
  /\ UNCHANGED <<mainVars, left, runVars, rough>>

Answer(e) ==
  /\ req[e] = "pushed"
  /\ req' = [req EXCEPT ![e] = "200"]
  /\ UNCHANGED <<mainVars, left, runVars, queue, rough>>

\* A tick that gets the lock.
Tick(r) ==
  /\ ticking /\ r \notin going
  /\ going' = going \cup {r}
  /\ \E d \in 1 .. MaxRun : left' = [left EXCEPT ![r] = d]
  /\ UNCHANGED <<mainVars, httpVars, held, rows, dead, queue, rough>>

Pop(r) ==
  /\ r \in going /\ held[r] = Nothing /\ "redis" \in pools
  /\ \E e \in queue : held' = [held EXCEPT ![r] = e] /\ queue' = queue \ {e}
  /\ UNCHANGED <<mainVars, httpVars, left, going, rows, dead, rough>>

Insert(r) ==
  /\ r \in going /\ held[r] # Nothing /\ "pg" \in pools
  /\ rows' = rows \cup {held[r]}
  /\ held' = [held EXCEPT ![r] = Nothing]
  /\ UNCHANGED <<mainVars, httpVars, left, going, dead, queue, rough>>

\* The attempts ran out; without Redis the event is logged and dropped.
Bury(r) ==
  /\ r \in going /\ held[r] # Nothing
  /\ dead' = IF "redis" \in pools THEN dead \cup {held[r]} ELSE dead
  /\ held' = [held EXCEPT ![r] = Nothing]
  /\ UNCHANGED <<mainVars, httpVars, left, going, rows, queue, rough>>

\* An empty queue, a failed pop, or the run's own timeout.
Done(r) ==
  /\ r \in going /\ held[r] = Nothing
  /\ going' = going \ {r}
  /\ left' = [left EXCEPT ![r] = 0]
  /\ UNCHANGED <<mainVars, httpVars, held, rows, dead, queue, rough>>

\* One unit of time.  A timeout that is over, a drain or stop with nothing left
\* to wait for, and a handler or run at the end of its time go first.
Pass ==
  /\ at \in {"serving", "draining", "stopping"}
  /\ at = "draining" => timer > 0 /\ ~Drained
  /\ at = "stopping" => timer > 0 /\ ~Stopped
  /\ \A x \in Busy \cup going : left[x] > 0
  /\ timer' = IF timer > 0 THEN timer - 1 ELSE 0
  /\ waited' = IF at = "serving" THEN 0 ELSE waited + 1
  /\ left' = [x \in Events \cup Runs |->
                IF x \in Busy \cup going THEN left[x] - 1 ELSE left[x]]
  /\ UNCHANGED <<at, sig, listen, pools, ticking, httpVars, runVars, queue, rough>>

Main ==
  \/ Connect \/ StartScheduler \/ StartHTTPServer
  \/ ServerFailed \/ BeginDrain
  \/ EndDrain \/ DrainFails \/ EndStop \/ Close \/ Return

Work ==
  \/ \E e \in Events : Push(e) \/ Answer(e)
  \/ \E r \in Runs : Pop(r) \/ Insert(r) \/ Bury(r) \/ Done(r)

Next ==
  \/ Main \/ Listen \/ Signal \/ Kill \/ Restart \/ Pass \/ Work
  \/ \E e \in Events : Arrive(e)
  \/ \E r \in Runs : Tick(r)

Spec == Init /\ [][Next]_vars

-----------------------------------------------------------------------------
Places ==
  {"init", "connected", "scheduled", "serving", "draining", "stopping",
   "closing", "flushing", "exited"}

\* Every variable keeps its type; main() waits under one of its three timeouts.
TypeOK ==
  /\ at \in Places /\ sig \in BOOLEAN
  /\ listen \in {"no", "opening", "open", "failed", "closed"}
  /\ \E t \in {ShutdownTimeout, InnerTimeout, StopTimeout} : timer \in 0 .. t
  /\ waited \in Nat
  /\ pools \in {{}, {"redis"}, {"pg", "redis"}} /\ ticking \in BOOLEAN
  /\ req \in [Events -> {"new", "bound", "pushed", "200", "500", "reset"}]
  /\ left \in [Events \cup Runs -> Nat]
  /\ going \subseteq Runs
  /\ held \in [Runs -> Events \cup {Nothing}]
  /\ queue \subseteq Events /\ rows \subseteq Events /\ dead \subseteq Events
  /\ rough \in BOOLEAN

\* No handler ever finds the Redis pool closed, on any path down: the drain
\* comes before the deferred calls, and a drain that fails skips them
\* (http_start.go:61-85, main.go:35,62-72).
HandlersHaveRedis == \A e \in Busy : "redis" \in pools

\* Once the drain has begun the process is gone within the inner timeout and
\* gocron's, however long handlers and runs take: the grace period a deployment
\* has to leave before SIGKILL, obs.Shutdown's flushes apart (http_start.go:73-85,
\* httpserver.go:64-69).
ExitIsPrompt ==
  /\ waited <= InnerTimeout + StopTimeout
  /\ waited <= ShutdownTimeout + StopTimeout

Kept == queue \cup rows \cup dead \cup {held[r] : r \in going}

\* Stops, restarts and failed starts lose no accepted event unless an exit or
\* the end of Stop's timeout cuts a run short: no run starts once Stop has
\* begun, and the pools close after the runs (main.go:28-72).
CleanStopLosesNothing ==
  ~rough => \A e \in Events : req[e] \in {"pushed", "200"} => e \in Kept
=============================================================================
