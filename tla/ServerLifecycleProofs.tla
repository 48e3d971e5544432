----------------------- MODULE ServerLifecycleProofs -----------------------
(* Theorems about ServerLifecycle, for all events, run slots and timeouts.  *)
EXTENDS ServerLifecycle, TLAPS

-----------------------------------------------------------------------------
(* Where main() is says what else there is: connections, listener, ticks,   *)
(* handlers, runs, and how long the drain and the stop have waited.         *)

Structure ==
  /\ listen \in {"opening", "open", "failed"} => at = "serving"
  /\ at \in {"connected", "scheduled", "serving", "draining", "stopping"}
       => pools = {"pg", "redis"}
  /\ Busy # {} => at \in {"serving", "draining"}
  /\ ticking => at \in {"scheduled", "serving", "draining"}
  /\ at = "draining" => waited + timer = DrainTimeout
  /\ at = "stopping" => waited + timer <= DrainTimeout + StopTimeout
  /\ at \notin {"draining", "stopping", "closing", "flushing"} => waited = 0
  /\ at \in {"closing", "flushing"} => waited <= DrainTimeout + StopTimeout
  /\ \A r \in Runs : held[r] # Nothing => r \in going
  /\ at \in {"init", "connected", "exited"} => going = {}

LifeInv == TypeOK /\ Structure

LEMMA DrainTimeoutType ==
  /\ DrainTimeout \in Nat \ {0}
  /\ DrainTimeout <= InnerTimeout /\ DrainTimeout <= ShutdownTimeout
  /\ DrainTimeout \in {InnerTimeout, ShutdownTimeout}
  BY TimesAssumption DEF DrainTimeout

LEMMA TimerType ==
  /\ \E t \in {ShutdownTimeout, InnerTimeout, StopTimeout} : 0 \in 0 .. t
  /\ \E t \in {ShutdownTimeout, InnerTimeout, StopTimeout} : DrainTimeout \in 0 .. t
  /\ \E t \in {ShutdownTimeout, InnerTimeout, StopTimeout} : StopTimeout \in 0 .. t
  BY TimesAssumption, DrainTimeoutType

LEMMA InitLifeInv == Init => LifeInv
  <1>. SUFFICES ASSUME Init PROVE LifeInv
    OBVIOUS
  <1>1. TypeOK
    BY TimerType DEF Init, TypeOK, Places
  <1>2. Busy = {}
    BY DEF Init, Busy
  <1>3. Structure
    BY <1>2 DEF Init, Structure
  <1>. QED BY <1>1, <1>3 DEF LifeInv

LEMMA ExitKeepsLifeInv ==
  ASSUME LifeInv, Exit
  PROVE  LifeInv'
  <1>. USE DEF LifeInv, Exit
  <1>1. TypeOK'
    BY TimerType DEF TypeOK, Places
  <1>2. Busy' = {}
    BY DEF TypeOK, Busy
  <1>3. Structure'
    BY <1>2 DEF Structure
  <1>. QED BY <1>1, <1>3

LEMMA MainKeepsLifeInv ==
  ASSUME LifeInv, Main
  PROVE  LifeInv'
  <1>. USE DrainTimeoutType, TimesAssumption
       DEF LifeInv, TypeOK, Places, Structure, Busy, httpVars, runVars
  <1>1. CASE Exit
    BY <1>1, ExitKeepsLifeInv
  <1>2. CASE Connect /\ ~Exit
    BY <1>2 DEF Connect
  <1>3. CASE StartScheduler
    BY <1>3 DEF StartScheduler
  <1>4. CASE StartHTTPServer /\ ~Exit
    BY <1>4 DEF StartHTTPServer
  <1>5. CASE BeginDrain
    <2>1. TypeOK'
      BY <1>5, TimerType DEF BeginDrain
    <2>. QED BY <1>5, <2>1 DEF BeginDrain
  <1>6. CASE EndDrain
    <2>1. TypeOK'
      BY <1>6, TimerType DEF EndDrain, TicksEnd
    <2>2. Busy' = {} /\ waited' + timer' <= DrainTimeout + StopTimeout
      BY <1>6 DEF EndDrain, Drained
    <2>. QED BY <1>6, <2>1, <2>2 DEF EndDrain, TicksEnd
  <1>7. CASE EndStop
    <2>1. TypeOK'
      BY <1>7 DEF EndStop
    <2>2. Busy' = {} /\ waited' <= DrainTimeout + StopTimeout
      BY <1>7 DEF EndStop
    <2>. QED BY <1>7, <2>1, <2>2 DEF EndStop
  <1>8. CASE Close
    <2>1. TypeOK'
      BY <1>8 DEF Close
    <2>2. Busy' = {} /\ waited' <= DrainTimeout + StopTimeout
      BY <1>8 DEF Close
    <2>. QED BY <1>8, <2>1, <2>2 DEF Close
  <1>. QED
    BY <1>1, <1>2, <1>3, <1>4, <1>5, <1>6, <1>7, <1>8, Zenon
       DEF Main, ServerFailed, DrainFails, Return

LEMMA WorkKeepsLifeInv ==
  ASSUME LifeInv,
         \/ Work
         \/ \E e \in Events : Arrive(e)
         \/ \E r \in Runs : Tick(r)
  PROVE  LifeInv'
  <1>. USE DEF LifeInv, TypeOK, Structure, Busy, mainVars, httpVars, runVars
  <1>1. ASSUME NEW e \in Events, Arrive(e)
        PROVE  LifeInv'
    <2>1. left' \in [Events \cup Runs -> Nat]
      BY <1>1, TimesAssumption DEF Arrive
    <2>. QED BY <1>1, <2>1 DEF Arrive
  <1>2. ASSUME NEW e \in Events, Push(e)
        PROVE  LifeInv'
    BY <1>2 DEF Push
  <1>3. ASSUME NEW e \in Events, Answer(e)
        PROVE  LifeInv'
    BY <1>3 DEF Answer
  <1>4. ASSUME NEW r \in Runs, Tick(r)
        PROVE  LifeInv'
    <2>1. left' \in [Events \cup Runs -> Nat]
      BY <1>4, TimesAssumption DEF Tick
    <2>. QED BY <1>4, <2>1 DEF Tick
  <1>5. ASSUME NEW r \in Runs, Pop(r)
        PROVE  LifeInv'
    BY <1>5 DEF Pop
  <1>6. ASSUME NEW r \in Runs, Insert(r)
        PROVE  LifeInv'
    BY <1>6 DEF Insert
  <1>7. ASSUME NEW r \in Runs, Bury(r)
        PROVE  LifeInv'
    BY <1>7 DEF Bury
  <1>8. ASSUME NEW r \in Runs, Done(r)
        PROVE  LifeInv'
    BY <1>8 DEF Done
  <1>. HIDE DEF LifeInv
  <1>. QED
    BY <1>1, <1>2, <1>3, <1>4, <1>5, <1>6, <1>7, <1>8 DEF Work

LEMMA PassKeepsLifeInv ==
  ASSUME LifeInv, Pass
  PROVE  LifeInv'
  <1>. USE DEF LifeInv, TypeOK, Pass, httpVars, runVars
  <1>1. left' \in [Events \cup Runs -> Nat]
    BY DEF Busy
  <1>2. \E t \in {ShutdownTimeout, InnerTimeout, StopTimeout} : timer' \in 0 .. t
    BY TimesAssumption
  <1>3. Structure'
    BY DrainTimeoutType, TimesAssumption DEF Structure, Busy, Drained, Stopped
  <1>. QED BY <1>1, <1>2, <1>3

LEMMA StepKeepsLifeInv == LifeInv /\ [Next]_vars => LifeInv'
  <1>. SUFFICES ASSUME LifeInv, [Next]_vars PROVE LifeInv'
    OBVIOUS
  <1>1. CASE Kill
    BY <1>1, ExitKeepsLifeInv DEF Kill
  <1>2. CASE Listen \/ Signal \/ Restart
    <2>1. TypeOK'
      <3>. USE DEF LifeInv, TypeOK, Places, httpVars, runVars
      <3>1. CASE Listen
        BY <3>1 DEF Listen
      <3>2. CASE Signal
        BY <3>2 DEF Signal
      <3>3. CASE Restart
        BY <3>3 DEF Restart
      <3>. QED BY <1>2, <3>1, <3>2, <3>3
    <2>2. Structure'
      BY <1>2 DEF Listen, Signal, Restart, LifeInv, Structure, Busy, httpVars, runVars
    <2>. QED BY <2>1, <2>2 DEF LifeInv
  <1>3. CASE UNCHANGED vars
    <2>1. TypeOK'
      BY <1>3 DEF vars, mainVars, httpVars, runVars, LifeInv, TypeOK
    <2>2. Structure'
      BY <1>3 DEF vars, mainVars, httpVars, runVars, LifeInv, Structure, Busy
    <2>. QED BY <2>1, <2>2 DEF LifeInv
  <1>. QED
    BY <1>1, <1>2, <1>3, MainKeepsLifeInv, WorkKeepsLifeInv, PassKeepsLifeInv
       DEF Next

LEMMA LifeInvIsInvariant == Spec => []LifeInv
  BY InitLifeInv, StepKeepsLifeInv, PTL DEF Spec

\* Every variable keeps its type: each timer stays within its timeout, and the
\* pools are opened in main's order (main.go:30-75).
THEOREM LifecycleTypes == Spec => []TypeOK
  <1>1. LifeInv => TypeOK
    BY DEF LifeInv
  <1>. QED BY <1>1, LifeInvIsInvariant, PTL

\* No handler finds the Redis pool closed, for any timeouts and however long
\* clients keep their handlers busy (http_start.go:61-85, main.go:35,62-72).
THEOREM HandlersAreServed == Spec => []HandlersHaveRedis
  <1>1. LifeInv => HandlersHaveRedis
    BY DEF LifeInv, Structure, HandlersHaveRedis, Busy
  <1>. QED BY <1>1, LifeInvIsInvariant, PTL

\* The way down is bounded by the inner timeout and gocron's, for any handlers
\* and runs (http_start.go:73-85, httpserver.go:64-69).
THEOREM ShutdownIsBounded == Spec => []ExitIsPrompt
  <1>1. LifeInv => ExitIsPrompt
    BY DrainTimeoutType, TimesAssumption
       DEF LifeInv, TypeOK, Places, Structure, ExitIsPrompt
  <1>. QED BY <1>1, LifeInvIsInvariant, PTL

-----------------------------------------------------------------------------
(* Accepted events across stops and restarts.                               *)

\* Once Stop has waited for the runs none goes on or can start.
NoStragglers ==
  ~rough => /\ at \in {"closing", "flushing"} => going = {}
            /\ \A e \in Events : req[e] \in {"pushed", "200"} => e \in Kept

LEMMA StepKeepsNoStragglers ==
  ASSUME LifeInv, NoStragglers, [Next]_vars
  PROVE  NoStragglers'
  <1>. USE DEF LifeInv, NoStragglers
  <1>1. CASE Exit
    <2>1. CASE going = {}
      BY <1>1, <2>1 DEF Exit, Kept, Busy, TypeOK
    <2>2. CASE going # {}
      BY <1>1, <2>2 DEF Exit
    <2>. QED BY <2>1, <2>2
  <1>2. CASE Main /\ ~Exit
    <2>1. UNCHANGED <<req, queue, rows, dead, going, held>>
      BY <1>2 DEF Main, Connect, StartScheduler, StartHTTPServer, ServerFailed,
           BeginDrain, EndDrain, DrainFails, EndStop, Close, Return, httpVars,
           runVars
    <2>2. Kept' = Kept
      BY <2>1 DEF Kept
    <2>3. ~rough' => ~rough /\ (at' \in {"closing", "flushing"} => going = {})
      <3>1. CASE EndStop
        <4>1. CASE going = {}
          BY <3>1, <4>1 DEF EndStop, TypeOK
        <4>2. CASE going # {}
          BY <3>1, <4>2 DEF EndStop, Stopped
        <4>. QED BY <4>1, <4>2
      <3>2. CASE ~EndStop
        BY <1>2, <3>2 DEF Main, Connect, StartScheduler, StartHTTPServer,
             ServerFailed, BeginDrain, EndDrain, DrainFails, Close, Return
      <3>. QED BY <3>1, <3>2
    <2>. QED BY <2>1, <2>2, <2>3
  <1>3. CASE Listen \/ Signal \/ Pass \/ Restart \/ UNCHANGED vars
    <2>1. UNCHANGED <<req, queue, rows, dead, going, held, rough>>
      BY <1>3 DEF Listen, Signal, Pass, Restart, vars, httpVars, runVars
    <2>2. Kept' = Kept
      BY <2>1 DEF Kept
    <2>3. at' \in {"closing", "flushing"} => at' = at
      BY <1>3 DEF Listen, Signal, Pass, Restart, vars, mainVars
    <2>. QED BY <2>1, <2>2, <2>3
  <1>4. ASSUME NEW e \in Events, Arrive(e) \/ Push(e) \/ Answer(e)
        PROVE  NoStragglers'
    <2>1. UNCHANGED <<at, pools, rows, dead, going, held, rough>>
      BY <1>4 DEF Arrive, Push, Answer, mainVars, runVars
    <2>2. Kept \subseteq Kept'
      BY <1>4, <2>1 DEF Arrive, Push, Answer, Kept
    <2>3. ASSUME NEW d \in Events, req'[d] \in {"pushed", "200"}
          PROVE  req[d] \in {"pushed", "200"} \/ d \in queue'
      BY <1>4, <2>3 DEF Arrive, Push, Answer, TypeOK
    <2>. QED BY <2>1, <2>2, <2>3 DEF Kept
  <1>5. ASSUME NEW r \in Runs, Tick(r) \/ Pop(r) \/ Insert(r) \/ Bury(r) \/ Done(r)
        PROVE  NoStragglers'
    <2>1. UNCHANGED <<at, ticking, pools, req, rough>>
      BY <1>5 DEF Tick, Pop, Insert, Bury, Done, mainVars, httpVars
    <2>2. at \in {"closing", "flushing"} => ~ticking
      BY DEF Structure
    <2>3. ~rough /\ at \in {"closing", "flushing"} => going' = {}
      BY <1>5, <2>2 DEF Tick, Pop, Insert, Bury, Done
    <2>4. CASE rough
      BY <2>1, <2>4
    <2>5. CASE ~rough
      <3>1. "redis" \in pools \/ going = {}
        BY <2>5, <1>5 DEF Structure, TypeOK, Places
      <3>2. Kept \cap Events \subseteq Kept'
        BY <1>5, <3>1, NothingAssumption
           DEF Tick, Pop, Insert, Bury, Done, Kept, TypeOK
      <3>. QED BY <2>1, <2>3, <2>5, <3>2
    <2>. QED BY <2>4, <2>5
  <1>. QED
    BY <1>1, <1>2, <1>3, <1>4, <1>5 DEF Next, Work, Kill

\* Whatever the timeouts, clean stops, restarts and failed starts lose nothing
\* that was accepted (main.go:28-72, http_start.go:61-85).
THEOREM CleanStopsAreSafe == Spec => []CleanStopLosesNothing
  <1>1. Init => NoStragglers
    BY DEF Init, NoStragglers
  <1>2. LifeInv /\ NoStragglers /\ [Next]_vars => NoStragglers'
    BY StepKeepsNoStragglers
  <1>3. NoStragglers => CleanStopLosesNothing
    BY DEF NoStragglers, CleanStopLosesNothing
  <1>. QED BY <1>1, <1>2, <1>3, LifeInvIsInvariant, PTL DEF Spec

-----------------------------------------------------------------------------
(* When Stop's timeout is long enough.                                      *)

RunsFit ==
  /\ \A r \in going : left[r] <= MaxRun
  /\ at = "stopping" => \A r \in going : left[r] < timer
  /\ at \in {"closing", "flushing"} => going = {}

\* A stop timeout longer than any run lets every run end before the pools close:
\* the setting main() would need instead of gocron's default (main.go:62-66).
THEOREM LongStopSparesRuns ==
  ASSUME MaxRun < StopTimeout
  PROVE  Spec => [](at \in {"closing", "flushing"} => going = {})
  <1>1. Init => RunsFit
    BY DEF Init, RunsFit
  <1>2. ASSUME LifeInv, RunsFit, [Next]_vars
        PROVE  RunsFit'
    <2>. USE <1>2, TimesAssumption DEF LifeInv, RunsFit
    <2>1. CASE Exit
      BY <2>1 DEF Exit
    <2>2. CASE EndDrain
      BY <2>2 DEF EndDrain, TypeOK, runVars
    <2>3. CASE EndStop
      BY <2>3 DEF EndStop, Stopped, TypeOK, runVars
    <2>4. CASE Main /\ ~Exit /\ ~EndDrain /\ ~EndStop
      <3>1. UNCHANGED <<going, left>>
        BY <2>4 DEF Main, Connect, StartScheduler, StartHTTPServer,
             ServerFailed, BeginDrain, DrainFails, Close, Return, runVars
      <3>2. /\ at' # "stopping"
            /\ at' \in {"closing", "flushing"} => at \in {"closing", "flushing"}
        BY <2>4 DEF Main, Connect, StartScheduler, StartHTTPServer,
             ServerFailed, BeginDrain, DrainFails, Close, Return
      <3>. QED BY <3>1, <3>2
    <2>5. CASE Pass
      <3>1. UNCHANGED <<at, going>> /\ timer' = IF timer > 0 THEN timer - 1 ELSE 0
        BY <2>5 DEF Pass, runVars
      <3>2. \A r \in going : left'[r] = left[r] - 1 /\ left[r] \in Nat
        BY <2>5 DEF Pass, TypeOK
      <3>. QED BY <3>1, <3>2 DEF TypeOK
    <2>6. ASSUME NEW r \in Runs, Tick(r)
          PROVE  RunsFit'
      BY <2>6 DEF Tick, mainVars, TypeOK, Structure
    <2>7. ASSUME NEW e \in Events, Arrive(e)
          PROVE  RunsFit'
      <3>1. \A r \in going : left'[r] = left[r]
        BY <2>7, DisjointAssumption DEF Arrive, TypeOK
      <3>. QED BY <2>7, <3>1 DEF Arrive, mainVars, runVars
    <2>8. ASSUME NEW r \in Runs, Done(r)
          PROVE  RunsFit'
      BY <2>8 DEF Done, mainVars, TypeOK
    <2>9. CASE \/ Listen \/ Signal \/ Restart \/ UNCHANGED vars
               \/ \E e \in Events : Push(e) \/ Answer(e)
               \/ \E r \in Runs : Pop(r) \/ Insert(r) \/ Bury(r)
      <3>1. UNCHANGED <<left, going>>
        BY <2>9 DEF Listen, Signal, Restart, vars, Push, Answer, Pop, Insert,
             Bury, runVars
      <3>2. (at' = at /\ timer' = timer) \/ at' = "init"
        BY <2>9 DEF Listen, Signal, Restart, vars, Push, Answer, Pop, Insert,
             Bury, mainVars
      <3>. QED BY <3>1, <3>2
    <2>. QED
      BY <2>1, <2>2, <2>3, <2>4, <2>5, <2>6, <2>7, <2>8, <2>9
         DEF Next, Work, Kill
  <1>3. RunsFit => (at \in {"closing", "flushing"} => going = {})
    BY DEF RunsFit
  <1>. QED BY <1>1, <1>2, <1>3, LifeInvIsInvariant, PTL DEF Spec
=============================================================================
