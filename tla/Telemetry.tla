----------------------------- MODULE Telemetry -----------------------------
(***************************************************************************)
(* Where log records, spans and Sentry events of one process go: what      *)
(* observe.Init starts under each configuration and each failure, the      *)
(* background exports, and Observability.Shutdown as the last of main's    *)
(* deferred calls.  The locks of SigNoz are left out: in this program only *)
(* main's goroutine calls its methods, and nothing calls its Close.        *)
(***************************************************************************)
EXTENDS FiniteSets, SequencesExt

CONSTANTS
  Records,   \* what the process's goroutines write, each to one sink
  QueueSize  \* room in a batch processor's queue (SigNoz.GetQueueSize)

ASSUME QueueSizeAssumption == QueueSize \in Nat \ {0}

Sinks == {"log", "trace", "sentry"}

VARIABLES
  cfg,       \* the ObservabilityConfig
  main,      \* where main() is
  exporter,  \* SigNoz.exporter
  channel,   \* where Observability.Logger writes
  open,      \* the sinks that were started and not shut down
  closers,   \* Observability.shutdowns
  fresh,     \* records not written yet
  queue,     \* queue[s]: records sink s has taken and not sent
  sent,      \* records on the console or at a collector
  dropped,   \* records given up: full queue, failed export, sink shut down
  early      \* records written before Observability.Shutdown

setup   == <<cfg, exporter, channel>>
traffic == <<fresh, queue, sent, dropped, early>>
vars    == <<main, setup, open, closers, traffic>>

Configs == [signoz : BOOLEAN, grpc : BOOLEAN, async : BOOLEAN,
            tracing : BOOLEAN, sentry : BOOLEAN]

Init ==
  /\ cfg \in Configs
  /\ main = "logger"
  /\ exporter = "none" /\ channel = "none"
  /\ open = {} /\ closers = <<>>
  /\ fresh = Records
  /\ queue = [s \in Sinks |-> {}]
  /\ sent = {} /\ dropped = {} /\ early = {}

Running == main \notin {"returned", "crashed"}

\* os.Exit in Fatal, or a panic nobody recovers: no deferred call runs.
Crash == main' = "crashed" /\ UNCHANGED <<setup, open, closers, traffic>>

-----------------------------------------------------------------------------
(* observe.Init.                                                            *)

\* GRPCExporter hands on grpc.NewClient's error with a nil of its own.
GRPCExporter == {"live", "nil"}

\* HttpExporter returns what otlploghttp.New returns: on an error its nil
\* *Exporter becomes a log.Exporter that is not nil.
HttpExporter == {"live", "typed nil"}

\* Exporter() prints the error and keeps the value.
Exporter == IF cfg.grpc THEN GRPCExporter ELSE HttpExporter

\* The outcomes of CreateSigNozLogger: an empty endpoint, "exporter == nil", or
\* a logger over a provider, a processor and the exporter.
NoSigNozLogger ==
  cfg.signoz /\ exporter' \in {"none"} \cup Exporter /\ exporter' \notin {"live", "typed nil"}

SigNozLogger ==
  cfg.signoz /\ exporter' \in Exporter /\ exporter' # "nil"

\* The console logger, by configuration or as the fallback; it may fail, too.
ConsoleLogger ==
  /\ NoSigNozLogger \/ (~cfg.signoz /\ exporter' = exporter)
  /\ \/ main' = "crashed" /\ channel' = "none"
     \/ main' = "tracing" /\ channel' = "console"
  /\ open' = open

InitLogger ==
  /\ main = "logger"
  /\ \/ ConsoleLogger
     \/ /\ SigNozLogger
        /\ main' = "tracing" /\ channel' = "signoz"
        /\ open' = open \cup {"log"}
  /\ closers' = <<"sync">>
  /\ UNCHANGED <<cfg, traffic>>

\* A sink that was started goes on the list of closers.
Started(s) == open' = open \cup {s} /\ closers' = Append(closers, s)

\* Disabled, or InitTracer fails, which is a warning only.
InitTracing ==
  /\ main = "tracing" /\ main' = "sentry"
  /\ \/ cfg.tracing /\ Started("trace")
     \/ UNCHANGED <<open, closers>>
  /\ UNCHANGED <<setup, traffic>>

\* Disabled, no DSN, or sentry.Init fails.
InitSentry ==
  /\ main = "sentry" /\ main' = "up"
  /\ \/ cfg.sentry /\ Started("sentry")
     \/ UNCHANGED <<open, closers>>
  /\ UNCHANGED <<setup, traffic>>

-----------------------------------------------------------------------------
(* Traffic.                                                                 *)

\* A processor whose queue has no limit.
EnqueueAlways(s, r) ==
  queue' = [queue EXCEPT ![s] = @ \cup {r}] /\ dropped' = dropped

\* A record enters a queue; of a full queue one record is given up.
Enqueue(s, r) ==
  IF Cardinality(queue[s]) < QueueSize
  THEN queue' = [queue EXCEPT ![s] = @ \cup {r}] /\ dropped' = dropped
  ELSE \E d \in queue[s] \cup {r} :
         /\ queue' = [queue EXCEPT ![s] = (@ \cup {r}) \ {d}]
         /\ dropped' = dropped \cup {d}

\* NewSimpleProcessor exports in the call, NewBatchProcessor later.
Processor(r) ==
  IF cfg.async
  THEN Enqueue("log", r) /\ sent' = sent
  ELSE /\ \/ sent' = sent \cup {r} /\ dropped' = dropped
          \/ dropped' = dropped \cup {r} /\ sent' = sent
       /\ queue' = queue

\* The exporter under the logger is a nil pointer, and a call of it panics.
NilExporter == channel = "signoz" /\ exporter = "typed nil"

\* What Logger.Info and its like do with r.
LogRecord(r) ==
  \/ /\ channel = "console"
     /\ sent' = sent \cup {r}
     /\ UNCHANGED <<queue, dropped>>
  \/ channel = "signoz" /\ "log" \in open /\ (NilExporter => cfg.async) /\ Processor(r)
  \/ /\ channel = "signoz" /\ "log" \notin open
     /\ dropped' = dropped \cup {r}
     /\ UNCHANGED <<queue, sent>>

\* The end of a span of the Gin and GORM hooks; without a tracer, or with one
\* that was shut down, there are no spans.
Span(r) == "trace" \in open /\ Enqueue("trace", r) /\ sent' = sent

\* A panic in a handler reaches sentrygin.
Event(r) == "sentry" \in open /\ Enqueue("sentry", r) /\ sent' = sent

\* Any goroutine, main's included, and also runs that outlive sched.Stop.
Write(r) ==
  /\ Running /\ main # "logger" /\ r \in fresh
  /\ fresh' = fresh \ {r}
  /\ LogRecord(r) \/ Span(r) \/ Event(r)
  /\ UNCHANGED <<main, setup, open, closers, early>>

\* A processor's goroutine: the collector takes a batch or does not.
Export(s) ==
  /\ Running /\ queue[s] # {} /\ ~(s = "log" /\ NilExporter)
  /\ \E batch \in SUBSET queue[s] :
       /\ batch # {}
       /\ queue' = [queue EXCEPT ![s] = @ \ batch]
       /\ \/ sent' = sent \cup batch /\ dropped' = dropped
          \/ dropped' = dropped \cup batch /\ sent' = sent
  /\ UNCHANGED <<main, setup, open, closers, fresh, early>>

\* The first record makes the processor call a method of the nil exporter.
NilPanics == Running /\ main # "logger" /\ NilExporter /\ Crash

\* zapLogger.Fatal in main().
Fatal == main = "up" /\ Crash

-----------------------------------------------------------------------------
(* Observability.Shutdown.                                                  *)

\* The signal, the drain and the other deferred calls are over.
Shutdown ==
  /\ main = "up" /\ main' = "provider"
  /\ early' = Records \ fresh
  /\ UNCHANGED <<setup, open, closers, fresh, queue, sent, dropped>>

\* A shutdown that does not export what is left.
ForgetQueue(s) == UNCHANGED <<queue, sent, dropped>>

\* The last export of a sink, within its timeout or in vain.
Flush(s) ==
  /\ queue' = [queue EXCEPT ![s] = {}]
  /\ \E batch \in SUBSET queue[s] :
       sent' = sent \cup batch /\ dropped' = dropped \cup (queue[s] \ batch)

\* The log provider first, before any closer.
ShutdownProvider ==
  /\ main = "provider" /\ main' = "closers"
  /\ IF "log" \in open
     THEN ~NilExporter /\ Flush("log")
     ELSE UNCHANGED <<queue, sent, dropped>>
  /\ open' = open \ {"log"}
  /\ UNCHANGED <<setup, closers, fresh, early>>

\* Last in, first out.  Logger.Sync has nothing to flush; sentry.Flush ends
\* after two seconds at the latest and leaves Sentry open.
RunCloser ==
  /\ main = "closers" /\ closers # <<>>
  /\ closers' = Front(closers)
  /\ IF Last(closers) = "sync"
     THEN UNCHANGED <<queue, sent, dropped>>
     ELSE Flush(Last(closers))
  /\ open' = open \ ({Last(closers)} \cap {"trace"})
  /\ UNCHANGED <<main, setup, fresh, early>>

Return ==
  /\ main = "closers" /\ closers = <<>> /\ main' = "returned"
  /\ UNCHANGED <<setup, open, closers, traffic>>
Next ==
  \/ InitLogger \/ InitTracing \/ InitSentry
  \/ \E r \in Records : Write(r)
  \/ \E s \in Sinks : Export(s)
  \/ NilPanics \/ Fatal
  \/ Shutdown \/ ShutdownProvider \/ RunCloser \/ Return

Spec == Init /\ [][Next]_vars

-----------------------------------------------------------------------------
\* Every variable keeps its type, and no queue outgrows its size.
TypeOK ==
  /\ cfg \in Configs
  /\ main \in {"logger", "tracing", "sentry", "up", "provider", "closers",
               "returned", "crashed"}
  /\ exporter \in {"none", "live", "nil", "typed nil"}
  /\ channel \in {"none", "console", "signoz"}
  /\ open \subseteq Sinks
  /\ closers \in Seq({"sync", "trace", "sentry"})
  /\ fresh \subseteq Records /\ sent \subseteq Records
  /\ dropped \subseteq Records /\ early \subseteq Records
  /\ queue \in [Sinks -> SUBSET Records]
  /\ \A s \in Sinks : Cardinality(queue[s]) <= QueueSize

\* A process that returns from main() takes nothing with it: whatever was
\* written before obs.Shutdown was sent or given up by its sink, for every
\* configuration and every start that failed in part, while runs that outlived
\* sched.Stop go on writing (observability.go:141-156, main.go:22-26).
ReturnLeavesNothing == main = "returned" => early \subseteq sent \cup dropped

\* A SigNoz logger that cannot be built is replaced by the console logger
\* (observability.go:58-66, logger.go:96-98).
FallsBackToConsole == exporter \in {"nil", "typed nil"} => channel # "signoz"
=============================================================================
