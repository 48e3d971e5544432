-------------------------- MODULE MonitoringProofs --------------------------
(* What a queue-stats answer leaves out, for all constants. *)
EXTENDS Monitoring, OnceProofs

\* What has entered the pipeline will not be pushed again.
Fresh == \A e : Unpushed(e) => Within(Entries \ {e})

\* The handler's own variables, between two requests and within one.
Asked ==
  /\ sizes \in Seq(Int) /\ Len(sizes) <= 2
  /\ stats # "reading" => sizes = <<>>

\* An entry the handler's answer is to account for does not come back once it has
\* left the queue,
Settled == \A e \in waiting : ~Unpushed(e)

\* so no more of them are in the queue than LLEN counted.
Counted ==
  Len(sizes) = 1 /\ sizes[1] # -1 =>
    /\ IsFiniteSet(waiting \cap ToSet(queue))
    /\ Cardinality(waiting \cap ToSet(queue)) <= sizes[1]

StatsInv == TypeOK /\ Fresh /\ Asked /\ Settled /\ Counted

-----------------------------------------------------------------------------
(* The pipeline's steps.                                                    *)

LEMMA UnpushedShrinks ==
  ASSUME "resend" \notin Faults, TypeOK, [Next]_vars
  PROVE  \A e : Unpushed(e)' => Unpushed(e)
  <1>. USE DEF redisVars, httpVars, runVars
  <1>1. CASE UNCHANGED <<foreign, sent>>
    BY <1>1 DEF Unpushed
  <1>2. ASSUME NEW q \in Requests, Handler(q)
        PROVE  UNCHANGED <<foreign, sent>> \/ PushCommand(q)
    BY <1>2 DEF Handler, Bind, PushCommand, PushReply, PushError, PushAgain, KillHandler
  <1>3. ASSUME NEW r \in Runs, RunStep(r)
        PROVE  UNCHANGED <<foreign, sent>>
    BY <1>3 DEF RunStep, QueueSize, LoopExpired, ExecLRange, ExecLTrim, PopReply,
                PopError, PopAgain, DecodeEntry, DecodeDone, InsertOk, InsertFail,
                InsertLost, GiveUp, Bury
  <1>4. \A q \in Requests : PushCommand(q) => \A e : Unpushed(e)' => Unpushed(e)
    BY PushCommandTakes
  <1>5. \A x \in Undecodable : ForeignPush(x) => \A e : Unpushed(e)' => Unpushed(e)
    BY ForeignPushTakes
  <1>. QED
    BY <1>1, <1>2, <1>3, <1>4, <1>5 DEF Next, vars, Tick, Timeout, Kill, LockExpire

LEMMA QueueGainsUnpushed ==
  ASSUME TypeOK, [Next]_vars, NEW e \in ToSet(queue'), ~Unpushed(e)
  PROVE  e \in ToSet(queue)
  <1>. USE DEF redisVars, httpVars, runVars
  <1>1. CASE queue' = queue
    BY <1>1
  <1>2. CASE queue' = PopRest
    BY <1>2, RestOfQueue
  <1>3. ASSUME NEW x \in Entries, Unpushed(x), queue' = Append(queue, x)
        PROVE  e \in ToSet(queue)
    BY <1>3, ToSetAppend DEF TypeOK
  <1>4. ASSUME NEW q \in Requests, Handler(q)
        PROVE  e \in ToSet(queue)
    <2>1. CASE PushCommand(q)
      BY <1>3, <2>1, PushCommandTakes DEF PushCommand, Pushed
    <2>. QED
      BY <1>1, <1>4, <2>1 DEF Handler, Bind, PushReply, PushError, PushAgain, KillHandler
  <1>5. ASSUME NEW x \in Undecodable, ForeignPush(x)
        PROVE  e \in ToSet(queue)
    BY <1>3, <1>5, ForeignPushTakes DEF ForeignPush
  <1>6. ASSUME NEW r \in Runs, RunStep(r)
        PROVE  queue' = queue \/ queue' = PopRest
    BY <1>6 DEF RunStep, QueueSize, LoopExpired, ExecLRange, ExecLTrim, PopReply,
                PopError, PopAgain, DecodeEntry, DecodeDone, InsertOk, InsertFail,
                InsertLost, GiveUp, Bury
  <1>. QED
    BY <1>1, <1>2, <1>4, <1>5, <1>6 DEF Next, vars, Tick, Timeout, Kill, LockExpire

LEMMA StepKeepsFresh ==
  ASSUME "resend" \notin Faults, TypeOK, Fresh, [Next]_vars
  PROVE  Fresh'
  <1>1. ASSUME NEW e, Unpushed(e)'
        PROVE  Within(Entries \ {e})'
    <2>1. Within(Entries \ {e})
      BY <1>1, UnpushedShrinks DEF Fresh
    <2>2. \A q \in Requests : PushCommand(q) => q[sent[q] + 1] \in Entries \ {e}
      BY <1>1, PushCommandTakes
    <2>3. \A x \in Undecodable : ForeignPush(x) => x \in Entries \ {e}
      BY <1>1, ForeignPushTakes
    <2>. QED BY <2>1, <2>2, <2>3, StepKeepsWithin
  <1>. QED BY <1>1 DEF Fresh

LEMMA InitFresh == Init => Fresh
  BY DEF Init, Fresh, Within

LEMMA FirstSizeType ==
  ASSUME Asked, Len(sizes) = 1
  PROVE  sizes[1] \in Int
  BY DEF Asked

LEMMA StepKeepsStats ==
  ASSUME "resend" \notin Faults, StatsInv, [Next]_vars, UNCHANGED statsVars
  PROVE  Asked' /\ Settled' /\ Counted'
  <1>1. UNCHANGED <<stats, sizes, waiting>>
    BY DEF statsVars
  <1>2. Asked' /\ Settled'
    BY <1>1, UnpushedShrinks DEF StatsInv, Asked, Settled
  <1>3. waiting \cap ToSet(queue') \subseteq waiting \cap ToSet(queue)
    BY QueueGainsUnpushed DEF StatsInv, Settled
  <1>4. ASSUME Len(sizes) = 1, sizes[1] # -1
        PROVE  /\ IsFiniteSet(waiting \cap ToSet(queue'))
               /\ Cardinality(waiting \cap ToSet(queue')) <= sizes[1]
    <2>1. /\ IsFiniteSet(waiting \cap ToSet(queue))
          /\ Cardinality(waiting \cap ToSet(queue)) <= sizes[1]
      BY <1>4 DEF StatsInv, Counted
    <2>2. /\ IsFiniteSet(waiting \cap ToSet(queue'))
          /\ Cardinality(waiting \cap ToSet(queue')) <= Cardinality(waiting \cap ToSet(queue))
      BY <1>3, <2>1, FS_Subset
    <2>3. /\ Cardinality(waiting \cap ToSet(queue)) \in Nat
          /\ Cardinality(waiting \cap ToSet(queue')) \in Nat
      BY <2>1, <2>2, FS_CardinalityType
    <2>4. sizes[1] \in Int
      BY <1>4, FirstSizeType DEF StatsInv
    <2>. QED BY <2>1, <2>2, <2>3, <2>4
  <1>5. Counted'
    BY <1>1, <1>4 DEF Counted
  <1>. QED BY <1>2, <1>5

-----------------------------------------------------------------------------
(* The handler's steps.                                                     *)

LEMMA PartIsSmall ==
  ASSUME NEW S, NEW s \in Seq(S), NEW part
  PROVE  /\ IsFiniteSet(part \cap ToSet(s))
         /\ Cardinality(part \cap ToSet(s)) \in Nat
         /\ Cardinality(part \cap ToSet(s)) <= Len(s)
  <1>1. IsFiniteSet(ToSet(s)) /\ Cardinality(ToSet(s)) <= Len(s)
    BY SequenceIsSmall
  <1>2. /\ IsFiniteSet(part \cap ToSet(s))
        /\ Cardinality(part \cap ToSet(s)) <= Cardinality(ToSet(s))
    BY <1>1, FS_Intersection
  <1>3. Cardinality(part \cap ToSet(s)) \in Nat /\ Cardinality(ToSet(s)) \in Nat
    BY <1>1, <1>2, FS_CardinalityType
  <1>4. Len(s) \in Nat
    OBVIOUS
  <1>. QED BY <1>1, <1>2, <1>3, <1>4

LEMMA FirstSizeCounts ==
  ASSUME StatsInv, ReadSize, sizes = <<>>
  PROVE  Counted'
  <1>1. UNCHANGED <<queue, waiting>> /\ queue \in Seq(Entries)
    BY DEF ReadSize, vars, redisVars, StatsInv, TypeOK
  <1>2. ReadOrder[Len(sizes) + 1] = queue
    BY DEF ReadOrder
  <1>3. PICK n \in {Len(queue), -1} : sizes' = Append(sizes, n)
    BY <1>2 DEF ReadSize
  <1>4. sizes'[1] = n
    BY <1>3
  <1>5. /\ IsFiniteSet(waiting \cap ToSet(queue))
        /\ Cardinality(waiting \cap ToSet(queue)) <= Len(queue)
    BY <1>1, PartIsSmall
  <1>. QED BY <1>1, <1>3, <1>4, <1>5 DEF Counted

LEMMA QueueStatsKeepsStats ==
  ASSUME StatsInv, QueueStats
  PROVE  UNCHANGED vars /\ Asked' /\ Settled' /\ Counted'
  <1>1. UNCHANGED vars /\ \A e : Unpushed(e)' <=> Unpushed(e)
    BY DEF QueueStats, Ask, ReadSize, ReplyStats, vars, redisVars, httpVars, Unpushed
  <1>2. CASE Ask
    <2>1. sizes' = sizes /\ sizes = <<>>
      BY <1>2 DEF Ask, StatsInv, Asked
    <2>2. waiting' \in {Listed, {}}
      BY <1>2 DEF Ask
    <2>3. ASSUME NEW e \in Listed
          PROVE  ~Unpushed(e)
      <3>1. \A s \in Seq(Entries \ {e}) : e \notin ToSet(s)
        BY DEF ToSet
      <3>. QED BY <2>3, <3>1 DEF StatsInv, Fresh, Within, Listed
    <2>. QED BY <1>1, <2>1, <2>2, <2>3 DEF Asked, Settled, Counted
  <1>3. CASE ReadSize
    <2>1. stats = "reading" /\ stats' = stats /\ waiting' = waiting /\ Len(sizes) < 2
      BY <1>3 DEF ReadSize
    <2>2. queue \in Seq(Entries) /\ dead \in Seq(Events) /\ sizes \in Seq(Int)
      BY DEF StatsInv, TypeOK, Asked
    <2>3. Len(sizes) = 0 \/ Len(sizes) = 1
      BY <2>1, <2>2
    <2>4. PICK n \in Int : sizes' = Append(sizes, n)
      <3>1. ReadOrder[Len(sizes) + 1] \in {queue, dead}
        <4>1. ReadOrder[0 + 1] = queue /\ ReadOrder[1 + 1] = dead
          BY DEF ReadOrder
        <4>. QED BY <2>3, <4>1
      <3>2. Len(ReadOrder[Len(sizes) + 1]) \in Int
        BY <2>2, <3>1
      <3>. QED BY <1>3, <3>2 DEF ReadSize
    <2>5. Asked'
      BY <2>1, <2>2, <2>3, <2>4 DEF Asked
    <2>6. Settled'
      BY <1>1, <2>1 DEF StatsInv, Settled
    <2>7. Counted'
      <3>1. CASE sizes = <<>>
        BY <1>3, <3>1, FirstSizeCounts
      <3>2. CASE Len(sizes) = 1
        <4>1. Len(Append(sizes, n)) = Len(sizes) + 1
          BY <2>2, <2>4
        <4>. QED BY <2>4, <3>2, <4>1 DEF Counted
      <3>. QED BY <2>2, <2>3, <3>1, <3>2
    <2>. QED BY <1>1, <2>5, <2>6, <2>7
  <1>4. CASE ReplyStats
    BY <1>1, <1>4 DEF ReplyStats, Asked, Settled, Counted
  <1>. QED BY <1>2, <1>3, <1>4 DEF QueueStats

\* The second length is read.
LEMMA AnswerIsComplete ==
  ASSUME StatsInv, [MonitorNext]_monitorVars,
         Len(sizes') = 2, Len(sizes) = 1, -1 \notin ToSet(sizes')
  PROVE  Cardinality(waiting \cap Listed) <= sizes'[1] + sizes'[2]
  <1>1. sizes \in Seq(Int) /\ sizes[1] \in Int
    BY DEF StatsInv, Asked
  <1>2. ReadSize
    <2>1. sizes' # sizes
      OBVIOUS
    <2>2. ~ReplyStats
      BY DEF ReplyStats
    <2>. QED
      BY <2>1, <2>2 DEF MonitorNext, monitorVars, statsVars, QueueStats, Ask
  <1>3. ReadOrder[Len(sizes) + 1] = dead
    BY DEF ReadOrder
  <1>4. PICK n \in {Len(dead), -1} : sizes' = Append(sizes, n)
    BY <1>2, <1>3 DEF ReadSize
  <1>5. queue \in Seq(Entries) /\ dead \in Seq(Events) /\ Len(dead) \in Nat
    BY DEF StatsInv, TypeOK
  <1>6. sizes'[1] = sizes[1] /\ sizes'[2] = n
    BY <1>1, <1>4, <1>5
  <1>7. n = Len(dead) /\ sizes[1] # -1
    BY <1>4, <1>6 DEF ToSet
  <1>8. DEFINE Q == waiting \cap ToSet(queue)
               D == waiting \cap ToSet(dead)
  <1>9. IsFiniteSet(Q) /\ Cardinality(Q) <= sizes[1]
    BY <1>7 DEF StatsInv, Counted
  <1>10. /\ IsFiniteSet(D) /\ Cardinality(D) \in Nat /\ Cardinality(D) <= Len(dead)
    BY <1>5, PartIsSmall
  <1>11. Cardinality(Q) \in Nat
    BY <1>9, FS_CardinalityType
  <1>12. waiting \cap Listed = Q \cup D
    BY DEF Listed
  <1>. HIDE DEF Q, D
  <1>13. Cardinality(Q \cup D) = Cardinality(Q) + Cardinality(D) - Cardinality(Q \cap D)
    BY <1>9, <1>10, FS_Union
  <1>14. Cardinality(Q \cap D) \in Nat
    BY <1>9, FS_Intersection, FS_CardinalityType
  <1>15. Cardinality(Q \cup D) <= sizes[1] + Len(dead)
    BY <1>1, <1>5, <1>9, <1>10, <1>11, <1>13, <1>14
  <1>. QED BY <1>6, <1>7, <1>12, <1>15

-----------------------------------------------------------------------------
\* The two lengths of a queue-stats answer, read at different times while pushes,
\* pops and dead letters go on, add up to no less than what was waiting when the
\* handler began and still is, for any number of runs, requests and keys, whatever
\* fails, as long as no push is sent twice (monitoring_handler.go:28-44).
THEOREM StatsAreComplete ==
  ASSUME "resend" \notin Faults
  PROVE  MonitorSpec => StatsMissNothing
  <1>1. MonitorInit => StatsInv
    <2>1. MonitorInit => Asked /\ Settled /\ Counted
      BY DEF MonitorInit, Asked, Settled, Counted
    <2>. QED BY <2>1, InitTypeOK, InitFresh DEF MonitorInit, StatsInv
  <1>2. [MonitorNext]_monitorVars => [Next]_vars
    BY DEF MonitorNext, monitorVars, QueueStats, Ask, ReadSize, ReplyStats
  <1>3. MonitorSpec => []TypeOK
    BY <1>2, TypeCorrect, PTL DEF MonitorSpec, MonitorInit, Spec
  <1>4. StatsInv /\ TypeOK' /\ [MonitorNext]_monitorVars => StatsInv'
    <2>. SUFFICES ASSUME StatsInv, TypeOK', [MonitorNext]_monitorVars
                  PROVE  StatsInv'
      OBVIOUS
    <2>1. Fresh'
      BY <1>2, StepKeepsFresh DEF StatsInv
    <2>2. Asked' /\ Settled' /\ Counted'
      <3>1. CASE QueueStats
        BY <3>1, QueueStatsKeepsStats
      <3>2. CASE [Next]_vars /\ UNCHANGED statsVars
        BY <3>2, StepKeepsStats
      <3>. QED BY <3>1, <3>2 DEF MonitorNext, monitorVars
    <2>. QED BY <2>1, <2>2 DEF StatsInv
  <1>5. StatsInv /\ [MonitorNext]_monitorVars
          => (Len(sizes') = 2 /\ Len(sizes) = 1 /\ -1 \notin ToSet(sizes')
                => Cardinality(waiting \cap Listed) <= sizes'[1] + sizes'[2])
    BY AnswerIsComplete
  <1>. QED
    BY <1>1, <1>3, <1>4, <1>5, PTL DEF MonitorSpec, StatsMissNothing
=============================================================================
