--------------------------- MODULE EventPipeline ---------------------------
(***************************************************************************)
(* The path of an event through the service: the HTTP handlers append it   *)
(* to a Redis list (EventBuffer.Push, PushBatch), a scheduled run takes    *)
(* batches from the list (PopBatch), stores each in one Postgres           *)
(* transaction with retries (insertWithRetry) and appends what it cannot   *)
(* store to a dead-letter list (sendToDeadLetter).                         *)
(*                                                                         *)
(* Every service instance shares the lists, the table and the job lock, so *)
(* a handler or a run of any instance is a process of its own here.        *)
(***************************************************************************)
EXTENDS RedisList, SequencesExt

CONSTANTS
  Requests,       \* requests; a request is the sequence of events it carries
  InvalidEvents,  \* events that lack a field tagged binding:"required"
  MaxEvents,      \* the batch DTO's max=100
  Undecodable,    \* list entries json.Unmarshal rejects (another writer's)
  Runs,           \* slots for runs of process_event_queue
  NoRun,          \* the lock key does not exist
  Orphan,         \* the lock key holds the value of a run that is gone
  BatchSize,      \* EVENT_BUFFER_BATCH_SIZE, any integer: config checks nothing
  MaxRetries,     \* EVENT_BUFFER_MAX_RETRIES, any integer
  MaxResends,     \* go-redis's MaxRetries, its default: no option sets it
  Faults          \* what the environment may do, a subset of FaultKinds

(***************************************************************************)
(* "split"    another client's command runs between two of a pipeline      *)
(* "redis"    a Redis call fails, before or after the server executed it,  *)
(*            and go-redis may send a pop again whose replies got lost     *)
(* "resend"   go-redis sends RPUSHes again whose replies got lost          *)
(* "db"       an insert fails and rolls back                               *)
(* "commit"   an insert commits but its reply is lost                      *)
(* "deadline" the run's context expires (ProcessTimeout)                   *)
(* "ttl"      the lock's time to live ends while its run is still going    *)
(* "kill"     the process dies (os.Exit in zapLogger.Fatal, SIGKILL)       *)
(***************************************************************************)
FaultKinds ==
  {"split", "redis", "resend", "db", "commit", "deadline", "ttl", "kill"}

Events  == UNION {ToSet(q) : q \in Requests}
Entries == Events \cup Undecodable

ASSUME RequestsAssumption ==
  /\ Requests \subseteq Seq(Events)
  /\ \A p, q \in Requests : \A i \in DOMAIN p, j \in DOMAIN q :
       p[i] = q[j] => p = q /\ i = j
ASSUME EntriesAssumption == Events \cap Undecodable = {}
ASSUME LockAssumption    == NoRun \notin Runs /\ Orphan \notin Runs /\ NoRun # Orphan
ASSUME ConfigAssumption  == BatchSize \in Int /\ MaxRetries \in Int
                            /\ MaxEvents \in Nat /\ MaxResends \in Nat
ASSUME FaultsAssumption  == Faults \subseteq FaultKinds

VARIABLES
  queue,    \* the list at queueKey
  dead,     \* the list at deadKey
  rows,     \* the events of the table's rows, in commit order
  lock,     \* whose value the job's lock key holds
  foreign,  \* undecodable entries not pushed yet
  resp,     \* resp[q]: "new", "push", or the answer to request q
  sent,     \* sent[q]: how many RPUSHes of q Redis has executed
  resent,   \* resent[q]: how often q's pipeline was sent again
  pc,       \* pc[r]: where run r is
  raw,      \* raw[r]: LRANGE's reply not decoded yet
  batch,    \* batch[r]: the decoded events run r holds
  attempt,  \* attempt[r]: insertWithRetry's counter
  landed,   \* landed[r]: rows with the ids of r's batch are in the table
  trim,     \* trim[r]: Redis has received but not executed r's LTRIM
  expired   \* expired[r]: ctx.Err() # nil

redisVars == <<queue, dead, lock, foreign>>
httpVars  == <<resp, sent, resent>>
runVars   == <<pc, raw, batch, attempt, landed, trim, expired>>
vars      == <<redisVars, rows, httpVars, runVars>>

Init ==
  /\ queue = <<>> /\ dead = <<>> /\ rows = <<>>
  /\ lock = NoRun
  /\ foreign = Undecodable
  /\ resp = [q \in Requests |-> "new"]
  /\ sent = [q \in Requests |-> 0]
  /\ resent = [q \in Requests |-> 0]
  /\ pc = [r \in Runs |-> "idle"]
  /\ raw = [r \in Runs |-> <<>>]
  /\ batch = [r \in Runs |-> <<>>]
  /\ attempt = [r \in Runs |-> 1]
  /\ landed = [r \in Runs |-> FALSE]
  /\ trim = [r \in Runs |-> FALSE]
  /\ expired = [r \in Runs |-> FALSE]

-----------------------------------------------------------------------------
(* The handlers: Create is the case of a request with one event.           *)

\* A validator that forgets the "dive" tag looks at no event of a batch.
BindingFailsNoDive(q) == Len(q) \notin 1 .. MaxEvents

BindingFails(q) ==
  \/ Len(q) \notin 1 .. MaxEvents
  \/ \E i \in DOMAIN q : q[i] \in InvalidEvents

\* ShouldBindJSON, then 422 or on to the push.
Bind(q) ==
  /\ resp[q] = "new"
  /\ resp' = [resp EXCEPT ![q] = IF BindingFails(q) THEN "422" ELSE "push"]
  /\ UNCHANGED <<redisVars, rows, sent, resent, runVars>>

\* The pushes of a queue filled from the left.
PushedLeft(q) == <<q[sent[q] + 1]>> \o queue

Pushed(q) == Append(queue, q[sent[q] + 1])

\* Redis executes the next RPUSH of q's pipeline, whether or not the handler
\* still waits for the replies.
PushCommand(q) ==
  /\ resp[q] \in {"push", "500", "reset"}
  /\ sent[q] < Len(q)
  /\ queue' = Pushed(q)
  /\ sent' = [sent EXCEPT ![q] = @ + 1]
  /\ UNCHANGED <<dead, lock, foreign, rows, resp, resent, runVars>>

\* A handler that answers as soon as the pipeline is written.
MayAnswerEarly(q) == TRUE

MayAnswer(q) == sent[q] = Len(q)

PushReply(q) ==
  /\ resp[q] = "push"
  /\ MayAnswer(q)
  /\ resp' = [resp EXCEPT ![q] = "200"]
  /\ UNCHANGED <<redisVars, rows, sent, resent, runVars>>

\* The pipeline's error, however much of it Redis has executed.
PushError(q) ==
  /\ "redis" \in Faults
  /\ resp[q] = "push"
  /\ resp' = [resp EXCEPT ![q] = "500"]
  /\ UNCHANGED <<redisVars, rows, sent, resent, runVars>>

\* go-redis takes another connection and sends the pipeline from its start; the
\* broken connection carries nothing more.
PushAgain(q) ==
  /\ "resend" \in Faults
  /\ resp[q] = "push" /\ sent[q] > 0 /\ resent[q] < MaxResends
  /\ sent' = [sent EXCEPT ![q] = 0]
  /\ resent' = [resent EXCEPT ![q] = @ + 1]
  /\ UNCHANGED <<redisVars, rows, resp, runVars>>

KillHandler(q) ==
  /\ "kill" \in Faults
  /\ resp[q] = "push"
  /\ resp' = [resp EXCEPT ![q] = "reset"]
  /\ UNCHANGED <<redisVars, rows, sent, resent, runVars>>

\* Another writer of the list pushes an entry json.Unmarshal will reject.
ForeignPush(x) ==
  /\ x \in foreign
  /\ queue' = Append(queue, x)
  /\ foreign' = foreign \ {x}
  /\ UNCHANGED <<dead, lock, rows, httpVars, runVars>>

-----------------------------------------------------------------------------
(* The scheduled job: lock, ProcessQueue, unlock.                           *)

\* A scheduler without gocron.WithDistributedLocker starts the job anyway.
MayStartUnlocked == TRUE

\* redislock.WithTries(1): one SET NX, and the tick is skipped when it fails.
MayStart == lock = NoRun

\* A slot whose last LTRIM is still on its way is not reused.
Tick(r) ==
  /\ pc[r] = "idle" /\ ~trim[r]
  /\ MayStart
  /\ \/ lock' = r /\ pc' = [pc EXCEPT ![r] = "size"]
     \/ "redis" \in Faults /\ lock' = Orphan /\ pc' = pc
  /\ UNCHANGED <<queue, dead, foreign, rows, httpVars, raw, batch, attempt,
                 landed, trim, expired>>

\* The run's variables go out of scope.
Drop(r) ==
  /\ pc' = [pc EXCEPT ![r] = "idle"]
  /\ raw' = [raw EXCEPT ![r] = <<>>]
  /\ batch' = [batch EXCEPT ![r] = <<>>]
  /\ attempt' = [attempt EXCEPT ![r] = 1]
  /\ landed' = [landed EXCEPT ![r] = FALSE]
  /\ expired' = [expired EXCEPT ![r] = FALSE]

\* Unlock deletes the key only while it holds this run's value.
Unlock(r) ==
  IF lock = r
  THEN lock' = NoRun \/ ("redis" \in Faults /\ lock' = Orphan)
  ELSE lock' = lock

\* ProcessQueue returns, ctx is cancelled and gocron unlocks.
Finish(r) == Drop(r) /\ Unlock(r)

\* LLEN, and the early returns on an error and on an empty list.
QueueSize(r) ==
  /\ pc[r] = "size"
  /\ \/ /\ expired[r] \/ "redis" \in Faults \/ queue = <<>>
        /\ Finish(r)
     \/ /\ ~expired[r] /\ queue # <<>>
        /\ pc' = [pc EXCEPT ![r] = "loop"]
        /\ UNCHANGED <<lock, raw, batch, attempt, landed, expired>>
  /\ UNCHANGED <<queue, dead, foreign, rows, httpVars, trim>>

\* A dead context ends the loop, at its head or when go-redis looks at it
\* before it sends the pipeline.
LoopExpired(r) ==
  /\ pc[r] = "loop" /\ expired[r]
  /\ Finish(r)
  /\ UNCHANGED <<queue, dead, foreign, rows, httpVars, trim>>

PopHead == LRange(queue, 0, BatchSize - 1)

\* LTRIM that leaves nothing, one that starts one element too far, and one that
\* starts too early.
PopRestNone     == <<>>
PopRestTooShort == LTrim(queue, BatchSize + 1, -1)
PopRestTooLong  == LTrim(queue, BatchSize - 1, -1)

PopRest == LTrim(queue, BatchSize, -1)

\* Redis executes the LRANGE of PopBatch's pipeline and, unless a command of
\* another client may come between, the LTRIM.
ExecLRange(r) ==
  /\ pc[r] = "loop" /\ ~expired[r]
  /\ raw' = [raw EXCEPT ![r] = PopHead]
  /\ pc' = [pc EXCEPT ![r] = "reply"]
  /\ IF "split" \in Faults
     THEN trim' = [trim EXCEPT ![r] = TRUE] /\ queue' = queue
     ELSE trim' = trim /\ queue' = PopRest
  /\ UNCHANGED <<dead, lock, foreign, rows, httpVars, batch, attempt, landed,
                 expired>>

\* Redis executes an LTRIM it has received, the sender's fate notwithstanding.
ExecLTrim(r) ==
  /\ trim[r]
  /\ queue' = PopRest
  /\ trim' = [trim EXCEPT ![r] = FALSE]
  /\ UNCHANGED <<dead, lock, foreign, rows, httpVars, pc, raw, batch, attempt,
                 landed, expired>>

PopReply(r) ==
  /\ pc[r] = "reply" /\ ~trim[r]
  /\ pc' = [pc EXCEPT ![r] = "decode"]
  /\ UNCHANGED <<redisVars, rows, httpVars, raw, batch, attempt, landed, trim,
                 expired>>

\* PopBatch's error: the pipeline never arrived, arrived in part, or was
\* executed and its reply lost.  The LTRIM may be lost or still to come.
PopError(r) ==
  /\ "redis" \in Faults
  /\ pc[r] \in {"loop", "reply"}
  /\ trim' \in {trim, [trim EXCEPT ![r] = FALSE]}
  /\ Finish(r)
  /\ UNCHANGED <<queue, dead, foreign, rows, httpVars>>

\* The pop's replies are lost and go-redis sends LRANGE and LTRIM again; the
\* first LTRIM may still be on its way.
PopAgain(r) ==
  /\ "redis" \in Faults
  /\ pc[r] = "reply"
  /\ pc' = [pc EXCEPT ![r] = "loop"]
  /\ raw' = [raw EXCEPT ![r] = <<>>]
  /\ trim' \in {trim, [trim EXCEPT ![r] = FALSE]}
  /\ UNCHANGED <<redisVars, rows, httpVars, batch, attempt, landed, expired>>

\* One iteration of the decoding loop.
DecodeEntry(r) ==
  /\ pc[r] = "decode" /\ raw[r] # <<>>
  /\ raw' = [raw EXCEPT ![r] = Tail(@)]
  /\ batch' = IF Head(raw[r]) \in Undecodable
              THEN batch
              ELSE [batch EXCEPT ![r] = Append(@, Head(raw[r]))]
  /\ UNCHANGED <<redisVars, rows, httpVars, pc, attempt, landed, trim, expired>>

\* PopBatch without "if len(events) == 0".
NeverEmpty(r) == FALSE

NothingDecoded(r) == batch[r] = <<>>

\* An empty batch ends the loop; another goes to the first insert with fresh
\* models, whose ids are uuid.Nil.
DecodeDone(r) ==
  /\ pc[r] = "decode" /\ raw[r] = <<>>
  /\ \/ NothingDecoded(r) /\ Finish(r)
     \/ /\ ~NothingDecoded(r)
        /\ pc' = [pc EXCEPT ![r] = "insert"]
        /\ attempt' = [attempt EXCEPT ![r] = 1]
        /\ landed' = [landed EXCEPT ![r] = FALSE]
        /\ UNCHANGED <<lock, raw, batch, expired>>
  /\ UNCHANGED <<queue, dead, foreign, rows, httpVars, trim>>

\* BeforeCreate without "if b.ID == uuid.Nil": every attempt has new ids.
NeverClashes(r) == FALSE

\* The batch keeps the ids of its first attempt, so an attempt that committed
\* makes the next ones violate the primary key.  Ids never clash otherwise.
KeysClash(r) == landed[r]

\* The loop's condition in insertWithRetry, after its BulkInsert is answered.
NextAttempt(r) == attempt' = [attempt EXCEPT ![r] = @ + 1]

MayInsert(r) == pc[r] = "insert" /\ attempt[r] <= MaxRetries

\* A transaction that stores all of the batch but its last event.
StoredShort(r) == rows \o SubSeq(batch[r], 1, Len(batch[r]) - 1)

Stored(r) == rows \o batch[r]

\* BulkInsert commits and insertWithRetry returns nil.
InsertOk(r) ==
  /\ MayInsert(r) /\ ~expired[r] /\ ~KeysClash(r)
  /\ rows' = Stored(r)
  /\ batch' = [batch EXCEPT ![r] = <<>>]
  /\ pc' = [pc EXCEPT ![r] = "loop"]
  /\ UNCHANGED <<redisVars, httpVars, raw, attempt, landed, trim, expired>>

\* An insert outside a transaction keeps what came before the failing row.
KeptPartly(r) == Append(rows, Head(batch[r]))

RolledBack(r) == rows

\* BulkInsert fails and the transaction rolls back.
InsertFail(r) ==
  /\ MayInsert(r)
  /\ "db" \in Faults \/ expired[r] \/ KeysClash(r)
  /\ rows' = RolledBack(r)
  /\ NextAttempt(r)
  /\ UNCHANGED <<redisVars, httpVars, pc, raw, batch, landed, trim, expired>>

\* BulkInsert commits, but insertWithRetry sees an error.
InsertLost(r) ==
  /\ "commit" \in Faults
  /\ MayInsert(r) /\ ~expired[r] /\ ~KeysClash(r)
  /\ rows' = Stored(r)
  /\ landed' = [landed EXCEPT ![r] = TRUE]
  /\ NextAttempt(r)
  /\ UNCHANGED <<redisVars, httpVars, pc, raw, batch, trim, expired>>

\* A processor that never sends a failed batch to the dead-letter list.
NeverFailed(r) == FALSE

\* insertWithRetry's lastErr is nil when its loop body never ran.
Failed(r) == attempt[r] > 1

\* The loop ran out: dead letters, or on as if the batch had been stored.
GiveUp(r) ==
  /\ pc[r] = "insert" /\ attempt[r] > MaxRetries
  /\ \/ /\ Failed(r)
        /\ pc' = [pc EXCEPT ![r] = "bury"]
        /\ UNCHANGED batch
     \/ /\ ~Failed(r)
        /\ pc' = [pc EXCEPT ![r] = "loop"]
        /\ batch' = [batch EXCEPT ![r] = <<>>]
  /\ UNCHANGED <<redisVars, rows, httpVars, raw, attempt, landed, trim, expired>>

\* What go-redis adds to a list when it sends one RPUSH n times again.
Copies(e, n) == [i \in 1 .. n |-> e]

\* One iteration of sendToDeadLetter: an error is logged and the event skipped.
\* Its context is context.Background(), so expired[r] does not matter.
Bury(r) ==
  /\ pc[r] = "bury"
  /\ \/ dead' = Append(dead, Head(batch[r]))
     \/ "redis" \in Faults /\ dead' = dead
     \/ "resend" \in Faults /\ \E n \in 1 .. MaxResends :
          dead' = Append(dead, Head(batch[r])) \o Copies(Head(batch[r]), n)
  /\ batch' = [batch EXCEPT ![r] = Tail(@)]
  /\ pc' = [pc EXCEPT ![r] = IF Tail(batch[r]) = <<>> THEN "loop" ELSE "bury"]
  /\ UNCHANGED <<queue, lock, foreign, rows, httpVars, raw, attempt, landed,
                 trim, expired>>

-----------------------------------------------------------------------------
(* What happens to a run from outside.                                      *)

\* ProcessTimeout ends.
Timeout(r) ==
  /\ "deadline" \in Faults
  /\ pc[r] # "idle" /\ ~expired[r]
  /\ expired' = [expired EXCEPT ![r] = TRUE]
  /\ UNCHANGED <<redisVars, rows, httpVars, pc, raw, batch, attempt, landed, trim>>

Kill(r) ==
  /\ "kill" \in Faults
  /\ pc[r] # "idle"
  /\ Drop(r)
  /\ lock' = IF lock = r THEN Orphan ELSE lock
  /\ UNCHANGED <<queue, dead, foreign, rows, httpVars, trim>>

\* The lock key's time to live ends.
LockExpire ==
  /\ lock = Orphan \/ (lock # NoRun /\ "ttl" \in Faults)
  /\ lock' = NoRun
  /\ UNCHANGED <<queue, dead, foreign, rows, httpVars, runVars>>

Handler(q) ==
  \/ Bind(q) \/ PushCommand(q) \/ PushReply(q)
  \/ PushError(q) \/ PushAgain(q) \/ KillHandler(q)

RunStep(r) ==
  \/ QueueSize(r) \/ LoopExpired(r)
  \/ ExecLRange(r) \/ ExecLTrim(r) \/ PopReply(r) \/ PopError(r) \/ PopAgain(r)
  \/ DecodeEntry(r) \/ DecodeDone(r)
  \/ InsertOk(r) \/ InsertFail(r) \/ InsertLost(r) \/ GiveUp(r) \/ Bury(r)

Next ==
  \/ \E q \in Requests : Handler(q)
  \/ \E x \in Undecodable : ForeignPush(x)
  \/ \E r \in Runs : Tick(r) \/ RunStep(r) \/ Timeout(r) \/ Kill(r)
  \/ LockExpire

Spec == Init /\ [][Next]_vars

\* go-redis and Postgres answer, every tick comes, an orphaned lock expires.
\* Strong fairness: LLEN and the first LRANGE are sent within milliseconds of
\* the tick, so ProcessTimeout does not end before them every time.
Fairness ==
  /\ WF_vars(\E r \in Runs : Tick(r))
  /\ WF_vars(lock = Orphan /\ LockExpire)
  /\ \A r \in Runs :
       /\ WF_vars(RunStep(r))
       /\ WF_vars(ExecLTrim(r))
       /\ SF_vars(QueueSize(r) /\ pc'[r] = "loop")
       /\ SF_vars(ExecLRange(r))

FairSpec == Spec /\ Fairness

-----------------------------------------------------------------------------
(* Properties.                                                              *)

\* Every variable keeps its type.
TypeOK ==
  /\ queue \in Seq(Entries) /\ dead \in Seq(Events) /\ rows \in Seq(Events)
  /\ lock \in Runs \cup {NoRun, Orphan}
  /\ foreign \subseteq Undecodable
  /\ resp \in [Requests -> {"new", "push", "200", "422", "500", "reset"}]
  /\ sent \in [Requests -> Nat]
  /\ \A q \in Requests : sent[q] <= Len(q)
  /\ resent \in [Requests -> 0 .. MaxResends]
  /\ pc \in [Runs -> {"idle", "size", "loop", "reply", "decode", "insert", "bury"}]
  /\ raw \in [Runs -> Seq(Entries)]
  /\ batch \in [Runs -> Seq(Events)]
  /\ \A r \in Runs : pc[r] \in {"insert", "bury"} => batch[r] # <<>>
  /\ attempt \in [Runs -> Nat \ {0}]
  /\ landed \in [Runs -> BOOLEAN]
  /\ trim \in [Runs -> BOOLEAN]
  /\ expired \in [Runs -> BOOLEAN]

\* The events of the RPUSHes Redis has executed, and of the requests that were
\* answered 200 (tracking_event_handler.go:54,75).
Pushes == UNION {{q[i] : i \in 1 .. sent[q]} : q \in Requests}
Acked  == UNION {ToSet(q) : q \in {p \in Requests : resp[p] = "200"}}

Held(r)   == ToSet(raw[r]) \cup ToSet(batch[r])
Accounted == ToSet(queue) \cup (UNION {Held(r) : r \in Runs})
               \cup ToSet(rows) \cup ToSet(dead)

\* The environment and the configuration under which the code can lose nothing:
\* pops are not split, Redis answers, no process is killed, one attempt at least.
Lossless == Faults \cap {"split", "redis", "kill"} = {} /\ MaxRetries >= 1

\* No acknowledged event is lost: whatever interleaving of handlers and runs,
\* retries and timeouts, it is in the queue, in the hands of a run, in the
\* table or in the dead-letter list (event_buffer.go:63-89,
\* event_processor.go:53-81).
NoLoss == Acked \subseteq Accounted

\* No event gets two rows, although runs retry inserts whose outcome they do
\* not know.  It is claimed without "resend", whose copies are events of their
\* own to the code, and for runs that exclude each other or pops that are not
\* split: overlapping runs with split pops do read the same head.  With a batch
\* size of 0 pops remove nothing, and rows repeat, which breaks InOrder as well
\* (event_processor.go:123-139, base_model.go:12-17).
AtMostOnce == IsInjective(rows)

\* A dead letter was not stored: "dead letter" means the insert failed
\* (event_processor.go:71-77).
DeadMeansNotStored == ToSet(dead) \cap ToSet(rows) = {}

\* Only the run that holds the lock touches the queue: the one active run is
\* the key's owner (scheduler.go:28-34).
OneActiveRun == \A r \in Runs : pc[r] # "idle" => lock = r

\* The events of one request are stored in the order the request gave them,
\* and none is stored while an earlier one is still queued
\* (event_buffer.go:45-89).
InOrder ==
  \A q \in Requests : \A j \in DOMAIN q : \A i \in 1 .. j - 1 :
    \A n \in DOMAIN rows : rows[n] = q[j] =>
      /\ q[i] \notin ToSet(queue)
      /\ \A m \in DOMAIN rows : rows[m] = q[i] => m < n

\* A batch with one bad event is refused as a whole: no event of it enters
\* the pipeline (tracking_event_handler.go:57-62).
RefusedWhole ==
  \A q \in Requests :
    Len(q) > MaxEvents \/ ToSet(q) \cap InvalidEvents # {}
      => ToSet(q) \cap (Accounted \cup Acked) = {}

\* While runs exclude each other, the pop's two commands lose an event only when
\* LRANGE came back short: after a full batch LTRIM removes nothing the run did
\* not read, whatever was pushed in between (event_buffer.go:64-68).
FullBatchLosesNothing ==
  [][\A r \in Runs :
       trim[r] /\ ~trim'[r] /\ pc[r] = "reply" /\ Len(raw[r]) = BatchSize
         => ToSet(queue) \ ToSet(queue') \subseteq ToSet(raw[r])]_vars

\* Where something is lost, one step loses no more than one batch: a pop whose
\* reply goes missing, an LTRIM after a short LRANGE, a run that is killed with a
\* batch in hand.  A dead letter that Redis does not take costs that event only,
\* not the rest of its batch.  For a positive batch size (event_buffer.go:63-89,
\* event_processor.go:140-151).
LossIsOneBatch ==
  [][/\ Cardinality(Accounted \ Accounted') <= BatchSize
     /\ \A r \in Runs :
          pc[r] = "bury" /\ pc'[r] # "idle" /\ batch'[r] # batch[r]
            => Accounted \ Accounted' \subseteq {Head(batch[r])}]_vars

\* A stored event becomes a dead letter in one case only: its own run has stored
\* it in an attempt that went unanswered, and the next ones clashed.  Without
\* "resend" (event_processor.go:71-77,126-135).
DeadOnlyIfUnanswered ==
  [][\A e \in ToSet(dead') \ ToSet(dead) : e \in ToSet(rows) =>
       \E r \in Runs : landed[r] /\ batch[r] # <<>> /\ Head(batch[r]) = e]_vars

\* Every acknowledged event is stored or dead-lettered in the end
\* (event_processor.go:36-84, scheduler.go:49-69).
AckedIsSettled ==
  \A e \in Events : e \in Acked ~> e \in ToSet(rows) \cup ToSet(dead)
=============================================================================
