----------------------------- MODULE Monitoring -----------------------------
(***************************************************************************)
(* GET /api/v1/monitoring/queue-stats beside the pipeline: a request reads *)
(* the lengths of the two lists with two commands, and handlers and runs   *)
(* of any instance move entries in between.  Requests come one after       *)
(* another: two at a time would share nothing of their own.                *)
(***************************************************************************)
EXTENDS EventPipeline

CONSTANTS
  ApiKeys,  \* values of API_KEY_INTERNAL and of the header x-api-key
  NoKey     \* the empty string: not set, or not sent

ASSUME KeysAssumption == NoKey \in ApiKeys

VARIABLES
  stats,   \* "none", "reading", or the last answer: "200", "401"
  sizes,   \* the lengths read so far; -1 stands for a failed LLEN
  waiting  \* history: the entries in the lists when the handler began

statsVars    == <<stats, sizes, waiting>>
monitorVars  == <<vars, statsVars>>

MonitorInit ==
  /\ Init
  /\ stats = "none" /\ sizes = <<>> /\ waiting = {}

Listed == ToSet(queue) \cup ToSet(dead)

\* The middleware's two early returns: an empty key, and keys that differ.
Authorized(key, header) == key # NoKey /\ header # NoKey /\ key = header

\* RequiredApiKeyInternal, then on to the handler.
Ask ==
  /\ stats # "reading"
  /\ \E key, header \in ApiKeys :
       \/ Authorized(key, header) /\ stats' = "reading" /\ waiting' = Listed
       \/ ~Authorized(key, header) /\ stats' = "401" /\ waiting' = {}
  /\ UNCHANGED <<vars, sizes>>

\* A handler that looks at the dead letters before it looks at the queue.
DeadLettersFirst == <<dead, queue>>

\* QueueStats asks for the queue's length and then for the dead letters'.
ReadOrder == <<queue, dead>>

\* QueueSize or DeadLetterSize; a failed LLEN (Redis, or a client that hung up)
\* is logged and reported as -1.
ReadSize ==
  /\ stats = "reading" /\ Len(sizes) < 2
  /\ \E n \in {Len(ReadOrder[Len(sizes) + 1]), -1} : sizes' = Append(sizes, n)
  /\ UNCHANGED <<vars, stats, waiting>>

\* An LLEN that failed does not fail the request.
ReplyStats ==
  /\ stats = "reading" /\ Len(sizes) = 2
  /\ stats' = "200" /\ sizes' = <<>> /\ waiting' = {}
  /\ UNCHANGED vars

QueueStats == Ask \/ ReadSize \/ ReplyStats

MonitorNext == (Next /\ UNCHANGED statsVars) \/ QueueStats

MonitorSpec == MonitorInit /\ [][MonitorNext]_monitorVars

-----------------------------------------------------------------------------
(* Properties.                                                              *)

\* The two lengths, though read at different times, leave out nothing that was
\* in a list before the request and still is when the second one is read: an
\* entry on its way from the queue to the dead letters is met at one end or the
\* other, or at both.  Like AtMostOnce it is claimed without "resend", which
\* brings an event back to the queue (monitoring_handler.go:28-44).
StatsMissNothing ==
  [][Len(sizes') = 2 /\ Len(sizes) = 1 /\ -1 \notin ToSet(sizes')
       => Cardinality(waiting \cap Listed) <= sizes'[1] + sizes'[2]]_monitorVars
=============================================================================
