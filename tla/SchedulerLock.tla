--------------------------- MODULE SchedulerLock ---------------------------
(***************************************************************************)
(* When process_event_queue runs: every service instance has a gocron      *)
(* timer of its own, a tick takes the Redis lock or is skipped, and the    *)
(* lock's key has a time to live that nothing extends while the run goes   *)
(* on.  Time is discrete; a run is reduced to how long its batches take.   *)
(***************************************************************************)
EXTENDS Integers

CONSTANTS
  Instances,       \* service instances that share the Redis lock
  SlotIds,         \* an instance can have this many runs going at once
  Nobody,          \* the lock key does not exist
  Interval,        \* SCHEDULER_PROCESS_INTERVAL_SECONDS
  ProcessTimeout,  \* SCHEDULER_PROCESS_TIMEOUT_SECONDS
  LockTTL,         \* redislock's time to live, its default: no option sets it
  MaxBatchTime     \* pop, insert attempts with their sleeps, dead letters

Slots == Instances \X SlotIds

ASSUME TimesAssumption ==
  {Interval, ProcessTimeout, LockTTL, MaxBatchTime} \subseteq Nat \ {0}
ASSUME NobodyAssumption == Nobody \notin Slots

VARIABLES
  up,     \* the instances that are running
  until,  \* until[i]: time to instance i's next tick
  owner,  \* the run whose value the lock key holds, or Nobody
  ttl,    \* what is left of the key's time to live
  going,  \* the runs that have started and not ended
  age,    \* age[s]: time since run s started
  busy    \* busy[s]: what is left of the batch run s has in hand

vars == <<up, until, owner, ttl, going, age, busy>>

Init ==
  /\ up = Instances
  /\ until \in [Instances -> 1 .. Interval]
  /\ owner = Nobody /\ ttl = 0
  /\ going = {}
  /\ age = [s \in Slots |-> 0]
  /\ busy = [s \in Slots |-> 0]

-----------------------------------------------------------------------------
\* A scheduler without gocron.WithDistributedLocker.
NoLock == TRUE

\* WithTries(1): one SET NX.
LockFree == owner = Nobody

\* gocron plans the next tick before it runs this one, so runs of one instance
\* may overlap.  The tick is skipped when the key is there or Redis fails; a SET
\* whose reply is lost leaves a key that belongs to no run.
Fire(i) ==
  /\ i \in up /\ until[i] = 0
  /\ until' = [until EXCEPT ![i] = Interval]
  /\ \/ UNCHANGED <<owner, ttl, going, age, busy>>
     \/ /\ LockFree
        /\ \E k \in SlotIds : LET s == <<i, k>> IN
             /\ s \notin going
             /\ owner' = s /\ ttl' = LockTTL
             /\ going' \in {going \cup {s}, going}
             /\ age' = [age EXCEPT ![s] = 0]
             /\ busy' = [busy EXCEPT ![s] = 0]
  /\ UNCHANGED up

\* A loop head that forgets ctx.Err().
NeverExpires(s) == TRUE

BeforeTimeout(s) == age[s] < ProcessTimeout

\* The loop head finds the context alive and the queue not empty.  A batch once
\* taken is seen through: the retries sleep whatever the context says.
NextBatch(s) ==
  /\ s \in going /\ busy[s] = 0
  /\ BeforeTimeout(s)
  /\ \E d \in 1 .. MaxBatchTime : busy' = [busy EXCEPT ![s] = d]
  /\ UNCHANGED <<up, until, owner, ttl, going, age>>

OwnKey(s) == owner = s

\* The queue is empty or the context has expired: the run returns and gocron
\* unlocks, in vain when Redis fails.
Done(s) ==
  /\ s \in going /\ busy[s] = 0
  /\ going' = going \ {s}
  /\ \/ OwnKey(s) /\ owner' = Nobody /\ ttl' = 0
     \/ UNCHANGED <<owner, ttl>>
  /\ age' = [age EXCEPT ![s] = 0]
  /\ UNCHANGED <<up, until, busy>>

\* A key without an expiry.
KeyForever == ttl

KeyLeft == IF ttl = 0 THEN 0 ELSE ttl - 1

\* One unit of time; ticks that are due and runs between batches go first.
Pass ==
  /\ \A i \in up : until[i] > 0
  /\ \A s \in going : busy[s] > 0
  /\ until' = [i \in Instances |-> IF i \in up THEN until[i] - 1 ELSE until[i]]
  /\ ttl' = KeyLeft
  /\ owner' = IF KeyLeft = 0 THEN Nobody ELSE owner
  /\ age' = [s \in Slots |-> IF s \in going THEN age[s] + 1 ELSE age[s]]
  /\ busy' = [s \in Slots |-> IF s \in going THEN busy[s] - 1 ELSE busy[s]]
  /\ UNCHANGED <<up, going>>

\* The process dies with its runs; the key stays.
Crash(i) ==
  /\ i \in up
  /\ up' = up \ {i}
  /\ going' = {s \in going : s[1] # i}
  /\ age' = [s \in Slots |-> IF s[1] = i THEN 0 ELSE age[s]]
  /\ busy' = [s \in Slots |-> IF s[1] = i THEN 0 ELSE busy[s]]
  /\ UNCHANGED <<until, owner, ttl>>

\* A new process: RegisterJobs and Start, the first tick an interval later.
Restart(i) ==
  /\ i \notin up
  /\ up' = up \cup {i}
  /\ until' = [until EXCEPT ![i] = Interval]
  /\ UNCHANGED <<owner, ttl, going, age, busy>>

Next ==
  \/ \E i \in Instances : Fire(i) \/ Crash(i) \/ Restart(i)
  \/ \E s \in Slots : NextBatch(s) \/ Done(s)
  \/ Pass

Spec == Init /\ [][Next]_vars

\* Time passes, timers fire, batches end.  Strong fairness: Redis does not fail
\* every SET that finds the key free.
Fairness ==
  /\ WF_vars(Pass)
  /\ \A i \in Instances : WF_vars(Fire(i))
  /\ SF_vars(\E i \in Instances : Fire(i) /\ going' # going)
  /\ \A s \in Slots : WF_vars(NextBatch(s) \/ Done(s))

FairSpec == Spec /\ Fairness

-----------------------------------------------------------------------------
\* Every variable keeps its type; the key exists while it has time to live.
TypeOK ==
  /\ up \subseteq Instances
  /\ until \in [Instances -> 0 .. Interval]
  /\ owner \in Slots \cup {Nobody}
  /\ ttl \in 0 .. LockTTL
  /\ ttl = 0 <=> owner = Nobody
  /\ going \subseteq Slots
  /\ age \in [Slots -> 0 .. ProcessTimeout + MaxBatchTime - 1]
  /\ busy \in [Slots -> 0 .. MaxBatchTime]

\* A run ends less than a batch after its timeout: the bound an operator needs
\* to choose a lock time (event_processor.go:53-81, scheduler.go:62-69).
RunsAreBounded ==
  \A s \in going : age[s] + busy[s] < ProcessTimeout + MaxBatchTime

\* Runs that go on together started at least the lock's time to live apart,
\* through ticks, early ends, crashes, lost SETs and unlocks: an end never frees
\* another run's lock (scheduler.go:28-34).
RunsSpaced ==
  \A s, t \in going : s # t => \/ age[s] >= age[t] + LockTTL
                                \/ age[t] >= age[s] + LockTTL

\* One run at a time over all instances.
OneRunAtATime == \A s, t \in going : s = t

\* The job never stops for good while one instance stays up: orphaned locks,
\* lost SETs and unlocks and the crashes of the others only delay it
\* (scheduler.go:28-34,49-60).
JobKeepsRunning ==
  (\E i \in Instances : <>[](i \in up)) => []<>(going # {})
=============================================================================
