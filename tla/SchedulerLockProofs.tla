------------------------ MODULE SchedulerLockProofs ------------------------
(* Theorems about SchedulerLock, for all instances, times and run slots. *)
EXTENDS SchedulerLock, TLAPS

\* How old the runs are that go on beside the lock's key: a key that is free was
\* last taken a whole time to live ago as far as any unfinished run knows.
KeyInv ==
  /\ owner = Nobody => \A s \in going : age[s] >= LockTTL
  /\ owner # Nobody =>
       /\ \A s \in going \ {owner} : age[s] + ttl >= LockTTL + LockTTL
       /\ owner \in going => age[owner] + ttl = LockTTL

LockInv == TypeOK /\ KeyInv /\ RunsAreBounded /\ RunsSpaced

LEMMA InitLockInv == Init => LockInv
  BY TimesAssumption
     DEF Init, LockInv, TypeOK, KeyInv, RunsAreBounded, RunsSpaced

LEMMA FireKeepsLockInv ==
  ASSUME LockInv, NEW i \in Instances, Fire(i)
  PROVE  LockInv'
  <1>. USE TimesAssumption DEF LockInv
  <1>1. until' \in [Instances -> 0 .. Interval]
    BY DEF Fire, TypeOK
  <1>2. CASE UNCHANGED <<owner, ttl, going, age, busy>>
    BY <1>1, <1>2 DEF Fire, TypeOK, KeyInv, RunsAreBounded, RunsSpaced
  <1>3. CASE ~UNCHANGED <<owner, ttl, going, age, busy>>
    <2>1. PICK k \in SlotIds :
            /\ owner = Nobody /\ <<i, k>> \notin going
            /\ owner' = <<i, k>> /\ ttl' = LockTTL
            /\ going' \in {going \cup {<<i, k>>}, going}
            /\ age' = [age EXCEPT ![<<i, k>>] = 0]
            /\ busy' = [busy EXCEPT ![<<i, k>>] = 0]
      BY <1>3, Zenon DEF Fire, LockFree
    <2>. DEFINE s == <<i, k>>
    <2>2. s \in Slots
      BY DEF Slots
    <2>. HIDE DEF s
    <2>3. /\ owner = Nobody /\ s \notin going
          /\ owner' = s /\ ttl' = LockTTL /\ going' \in {going \cup {s}, going}
          /\ age' = [age EXCEPT ![s] = 0] /\ busy' = [busy EXCEPT ![s] = 0]
      BY <2>1 DEF s
    <2>4. up' = up
      BY DEF Fire
    <2>5. TypeOK'
      BY <1>1, <2>2, <2>3, <2>4, NobodyAssumption DEF TypeOK
    <2>6. KeyInv'
      BY <2>2, <2>3, NobodyAssumption DEF KeyInv, TypeOK
    <2>7. RunsAreBounded'
      BY <2>2, <2>3 DEF RunsAreBounded, TypeOK
    <2>8. RunsSpaced'
      BY <2>2, <2>3 DEF RunsSpaced, KeyInv, TypeOK
    <2>. QED BY <2>5, <2>6, <2>7, <2>8
  <1>. QED BY <1>2, <1>3

LEMMA NextBatchKeepsLockInv ==
  ASSUME LockInv, NEW s \in Slots, NextBatch(s)
  PROVE  LockInv'
  BY TimesAssumption
     DEF LockInv, NextBatch, BeforeTimeout, TypeOK, KeyInv, RunsAreBounded, RunsSpaced

LEMMA DoneKeepsLockInv ==
  ASSUME LockInv, NEW s \in Slots, Done(s)
  PROVE  LockInv'
  <1>. USE TimesAssumption DEF LockInv, Done, OwnKey
  <1>1. TypeOK'
    BY NobodyAssumption DEF TypeOK
  <1>2. KeyInv'
    BY NobodyAssumption DEF TypeOK, KeyInv
  <1>3. RunsAreBounded' /\ RunsSpaced'
    BY DEF TypeOK, RunsAreBounded, RunsSpaced
  <1>. QED BY <1>1, <1>2, <1>3

LEMMA PassKeepsLockInv ==
  ASSUME LockInv, Pass
  PROVE  LockInv'
  <1>. USE TimesAssumption DEF LockInv, Pass, KeyLeft
  <1>1. RunsAreBounded'
    BY DEF TypeOK, RunsAreBounded
  <1>2. RunsSpaced'
    BY DEF TypeOK, RunsSpaced
  <1>3. TypeOK'
    BY NobodyAssumption DEF TypeOK, RunsAreBounded
  <1>4. KeyInv'
    BY NobodyAssumption DEF TypeOK, KeyInv
  <1>. QED BY <1>1, <1>2, <1>3, <1>4

LEMMA CrashKeepsLockInv ==
  ASSUME LockInv, NEW i \in Instances, Crash(i) \/ Restart(i)
  PROVE  LockInv'
  <1>. USE TimesAssumption DEF LockInv
  <1>1. CASE Crash(i)
    BY <1>1 DEF Crash, TypeOK, KeyInv, RunsAreBounded, RunsSpaced
  <1>2. CASE Restart(i)
    BY <1>2 DEF Restart, TypeOK, KeyInv, RunsAreBounded, RunsSpaced
  <1>. QED BY <1>1, <1>2

LEMMA LockInvIsInvariant == Spec => []LockInv
  <1>1. LockInv /\ [Next]_vars => LockInv'
    <2>1. CASE UNCHANGED vars
      BY <2>1 DEF vars, LockInv, TypeOK, KeyInv, RunsAreBounded, RunsSpaced
    <2>. QED
      BY <2>1, FireKeepsLockInv, NextBatchKeepsLockInv, DoneKeepsLockInv,
         PassKeepsLockInv, CrashKeepsLockInv DEF Next
  <1>. QED BY <1>1, InitLockInv, PTL DEF Spec

\* Every variable keeps its type, and the key exists exactly while it has time to
\* live: nothing extends it, nobody else's unlock shortens it (scheduler.go:28-34).
THEOREM KeyLivesItsTime == Spec => []TypeOK
  <1>1. LockInv => TypeOK
    BY DEF LockInv
  <1>. QED BY <1>1, LockInvIsInvariant, PTL

\* No run goes on longer than its timeout and one batch, for every configuration
\* (event_processor.go:53-81, scheduler.go:62-69).
THEOREM RunsEnd == Spec => []RunsAreBounded
  <1>1. LockInv => RunsAreBounded
    BY DEF LockInv
  <1>. QED BY <1>1, LockInvIsInvariant, PTL

\* Runs that overlap started a whole lock time apart, and none goes on longer
\* than the timeout and one batch: the two together bound how many can overlap,
\* for every configuration (scheduler.go:28-34, event_processor.go:53-81).
THEOREM OverlapIsBounded == Spec => [](RunsSpaced /\ RunsAreBounded)
  <1>1. LockInv => RunsSpaced /\ RunsAreBounded
    BY DEF LockInv
  <1>. QED BY <1>1, LockInvIsInvariant, PTL

\* The lock does exclude when its time to live covers the timeout and a batch:
\* the condition the deployment's settings would have to meet.
THEOREM LongLockExcludes ==
  ASSUME LockTTL >= ProcessTimeout + MaxBatchTime
  PROVE  Spec => []OneRunAtATime
  <1>1. LockInv => OneRunAtATime
    BY TimesAssumption
       DEF LockInv, TypeOK, RunsSpaced, RunsAreBounded, OneRunAtATime
  <1>. QED BY <1>1, LockInvIsInvariant, PTL
=============================================================================
