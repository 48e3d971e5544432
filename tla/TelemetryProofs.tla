-------------------------- MODULE TelemetryProofs --------------------------
(* What a return from main() leaves behind, for all records and sizes. *)
EXTENDS Telemetry, TLAPS, SequenceTheorems, FiniteSetTheorems

Closing(s) == \E i \in 1 .. Len(closers) : closers[i] = s

Types ==
  /\ cfg \in Configs
  /\ main \in {"logger", "tracing", "sentry", "up", "provider", "closers",
               "returned", "crashed"}
  /\ exporter \in {"none", "live", "nil", "typed nil"}
  /\ channel \in {"none", "console", "signoz"}
  /\ open \subseteq Sinks
  /\ closers \in Seq({"sync", "trace", "sentry"})
  /\ fresh \subseteq Records /\ sent \subseteq Records
  /\ dropped \subseteq Records /\ early \subseteq Records
  /\ queue \in [Sinks -> SUBSET Records]

\* A record that was written was sent, given up, or waits in a queue.
Traced ==
  \A r \in Records \ fresh : r \in sent \cup dropped \/ \E s \in Sinks : r \in queue[s]

\* Which closer each queue waits for.  Sentry's does not close it, so that later
\* events may wait for ever, but those of before Shutdown do not.
Awaited ==
  /\ main = "logger" => open = {} /\ \A s \in Sinks : queue[s] = {}
  /\ "log" \notin open => queue["log"] = {}
  /\ main \in {"closers", "returned"} => "log" \notin open
  /\ ("trace" \in open \/ queue["trace"] # {}) => Closing("trace")
  /\ main \in {"logger", "tracing", "sentry", "up", "provider"} =>
       ("sentry" \in open \/ queue["sentry"] # {} => Closing("sentry"))
  /\ early \cap queue["sentry"] # {} => Closing("sentry")
  /\ early \cap fresh = {}
  /\ main = "returned" => closers = <<>>

FlushInv == Types /\ Traced /\ Awaited

-----------------------------------------------------------------------------
(* Sequences.                                                               *)

LEMMA PrefixElements ==
  ASSUME NEW S, NEW s, NEW n \in Nat, \A i \in 1 .. n : s[i] \in S
  PROVE  /\ SubSeq(s, 1, n) \in Seq(S) /\ Len(SubSeq(s, 1, n)) = n
         /\ \A i \in 1 .. n : SubSeq(s, 1, n)[i] = s[i]
  <1>1. /\ SubSeq(s, 1, n) \in Seq(S)
        /\ Len(SubSeq(s, 1, n)) = IF 1 <= n THEN n - 1 + 1 ELSE 0
        /\ \A i \in 1 .. n - 1 + 1 : SubSeq(s, 1, n)[i] = s[1 + i - 1]
    BY SubSeqProperties
  <1>2. ASSUME NEW i \in 1 .. n PROVE SubSeq(s, 1, n)[i] = s[i]
    <2>1. i \in 1 .. n - 1 + 1 /\ 1 + i - 1 = i
      OBVIOUS
    <2>2. SubSeq(s, 1, n)[i] = s[1 + i - 1]
      BY <1>1, <2>1
    <2>. QED BY <2>1, <2>2, Zenon
  <1>3. Len(SubSeq(s, 1, n)) = n
    BY <1>1
  <1>. QED BY <1>1, <1>2, <1>3, Zenon

LEMMA FrontElements ==
  ASSUME NEW S, NEW s \in Seq(S), s # <<>>
  PROVE  /\ Len(s) \in Nat \ {0} /\ Last(s) = s[Len(s)] /\ Last(s) \in S
         /\ Front(s) \in Seq(S) /\ Len(Front(s)) = Len(s) - 1
         /\ \A i \in 1 .. Len(s) - 1 : Front(s)[i] = s[i]
  <1>1. Len(s) \in Nat \ {0}
    OBVIOUS
  <1>2. Last(s) = s[Len(s)] /\ s[Len(s)] \in S
    BY <1>1 DEF Last
  <1>3. Front(s) = SubSeq(s, 1, Len(s) - 1)
    BY DEF Front
  <1>4. /\ SubSeq(s, 1, Len(s) - 1) \in Seq(S)
        /\ Len(SubSeq(s, 1, Len(s) - 1)) = Len(s) - 1
        /\ \A i \in 1 .. Len(s) - 1 : SubSeq(s, 1, Len(s) - 1)[i] = s[i]
    <2>1. Len(s) - 1 \in Nat /\ \A i \in 1 .. Len(s) - 1 : s[i] \in S
      BY <1>1
    <2>. QED BY <2>1, PrefixElements, Zenon
  <1>. QED BY <1>1, <1>2, <1>3, <1>4

-----------------------------------------------------------------------------
LEMMA InitFlushInv == Init => FlushInv
  <1>. SUFFICES ASSUME Init PROVE FlushInv
    OBVIOUS
  <1>1. Types
    BY DEF Init, Types
  <1>2. Traced /\ Awaited
    BY DEF Init, Traced, Awaited, Sinks
  <1>. QED BY <1>1, <1>2 DEF FlushInv

LEMMA FlushInvSuffices == FlushInv => ReturnLeavesNothing
  <1>. SUFFICES ASSUME FlushInv, main = "returned", NEW r \in early
                PROVE  r \in sent \cup dropped
    BY DEF ReturnLeavesNothing
  <1>1. ~Closing("trace") /\ ~Closing("sentry")
    BY DEF FlushInv, Awaited, Closing
  <1>2. r \notin queue["log"] /\ r \notin queue["trace"] /\ r \notin queue["sentry"]
    BY <1>1 DEF FlushInv, Awaited
  <1>3. r \in Records \ fresh
    BY DEF FlushInv, Types, Awaited
  <1>. QED BY <1>2, <1>3 DEF FlushInv, Traced, Sinks

-----------------------------------------------------------------------------
(* The start.                                                               *)

LEMMA InitLoggerKeeps ==
  ASSUME FlushInv, InitLogger
  PROVE  FlushInv'
  <1>1. /\ main = "logger" /\ main' \in {"tracing", "crashed"}
        /\ exporter' \in {"none", "live", "nil", "typed nil"}
        /\ channel' \in {"none", "console", "signoz"}
        /\ open' \in {open, open \cup {"log"}}
    BY DEF FlushInv, Types, InitLogger, ConsoleLogger, SigNozLogger, NoSigNozLogger,
           Exporter, GRPCExporter, HttpExporter
  <1>2. closers' = <<"sync">> /\ UNCHANGED <<cfg, fresh, queue, sent, dropped, early>>
    BY DEF InitLogger, traffic
  <1>3. closers' \in Seq({"sync", "trace", "sentry"})
    BY <1>2
  <1>4. Types'
    BY <1>1, <1>2, <1>3 DEF FlushInv, Types, Sinks
  <1>5. Traced'
    BY <1>2 DEF FlushInv, Traced
  <1>6. Awaited'
    BY <1>1, <1>2 DEF FlushInv, Awaited, Sinks
  <1>. QED BY <1>4, <1>5, <1>6 DEF FlushInv

LEMMA StartedCloses ==
  ASSUME Types, NEW s \in {"trace", "sentry"}, Started(s)
  PROVE  /\ open' = open \cup {s} /\ open' \subseteq Sinks
         /\ closers' \in Seq({"sync", "trace", "sentry"})
         /\ Closing(s)'
         /\ \A t : Closing(t) => Closing(t)'
  <1>1. closers \in Seq({"sync", "trace", "sentry"}) /\ closers' = Append(closers, s)
    BY DEF Types, Started
  <1>2. /\ closers' \in Seq({"sync", "trace", "sentry"})
        /\ Len(closers) \in Nat /\ Len(closers') = Len(closers) + 1
        /\ closers'[Len(closers) + 1] = s
        /\ \A i \in 1 .. Len(closers) : closers'[i] = closers[i]
    BY <1>1, AppendProperties
  <1>3. Len(closers) + 1 \in 1 .. Len(closers')
    BY <1>2
  <1>4. Closing(s)'
    BY <1>2, <1>3 DEF Closing
  <1>5. \A t : Closing(t) => Closing(t)'
    BY <1>2 DEF Closing
  <1>6. open' = open \cup {s} /\ open' \subseteq Sinks
    BY DEF Started, Types, Sinks
  <1>. QED BY <1>2, <1>4, <1>5, <1>6

LEMMA InitSinksKeep ==
  ASSUME FlushInv, InitTracing \/ InitSentry
  PROVE  FlushInv'
  <1>1. /\ UNCHANGED <<cfg, exporter, channel, fresh, queue, sent, dropped, early>>
        /\ \/ main = "tracing" /\ main' = "sentry"
           \/ main = "sentry" /\ main' = "up"
    BY DEF InitTracing, InitSentry, setup, traffic
  <1>2. Traced'
    BY <1>1 DEF FlushInv, Traced
  <1>3. CASE UNCHANGED <<open, closers>>
    <2>1. Types'
      BY <1>1, <1>3 DEF FlushInv, Types
    <2>2. \A t : Closing(t)' <=> Closing(t)
      BY <1>3 DEF Closing
    <2>3. Awaited'
      BY <1>1, <1>3, <2>2 DEF FlushInv, Awaited
    <2>. QED BY <1>2, <2>1, <2>3 DEF FlushInv
  <1>4. ASSUME NEW s \in {"trace", "sentry"}, Started(s)
        PROVE  FlushInv'
    <2>1. /\ open' = open \cup {s} /\ open' \subseteq Sinks
          /\ closers' \in Seq({"sync", "trace", "sentry"})
          /\ Closing(s)' /\ \A t : Closing(t) => Closing(t)'
      BY <1>4, StartedCloses DEF FlushInv
    <2>2. Types'
      BY <1>1, <2>1 DEF FlushInv, Types
    <2>3. Awaited'
      BY <1>1, <2>1 DEF FlushInv, Awaited
    <2>. QED BY <1>2, <2>2, <2>3 DEF FlushInv
  <1>. QED BY <1>3, <1>4 DEF InitTracing, InitSentry

-----------------------------------------------------------------------------
(* Traffic.                                                                 *)

\* One step of a record into a queue, to a sink or away.
LEMMA EnqueueKeeps ==
  ASSUME Types, NEW s \in Sinks, NEW r \in Records, Enqueue(s, r)
  PROVE  /\ queue' \in [Sinks -> SUBSET Records] /\ dropped' \subseteq Records
         /\ dropped \subseteq dropped'
         /\ \A t \in Sinks \ {s} : queue'[t] = queue[t]
         /\ queue'[s] \subseteq queue[s] \cup {r}
         /\ queue[s] \cup {r} \subseteq queue'[s] \cup dropped'
  <1>1. CASE Cardinality(queue[s]) < QueueSize
    BY <1>1 DEF Enqueue, Types
  <1>2. CASE ~(Cardinality(queue[s]) < QueueSize)
    <2>1. PICK d \in queue[s] \cup {r} :
             /\ queue' = [queue EXCEPT ![s] = (@ \cup {r}) \ {d}]
             /\ dropped' = dropped \cup {d}
      BY <1>2 DEF Enqueue
    <2>. QED BY <2>1 DEF Types
  <1>. QED BY <1>1, <1>2

\* What a write does, whichever sink it goes to.
Absorbed(r) ==
  /\ queue' \in [Sinks -> SUBSET Records]
  /\ sent' \subseteq Records /\ dropped' \subseteq Records
  /\ sent \subseteq sent' /\ dropped \subseteq dropped'
  /\ \A s \in Sinks : /\ queue'[s] \subseteq queue[s] \cup {r}
                      /\ queue[s] \subseteq queue'[s] \cup dropped'
                      /\ s \notin open => queue'[s] = queue[s]
  /\ r \in sent' \cup dropped' \/ \E s \in Sinks : r \in queue'[s]

LEMMA WriteAbsorbs ==
  ASSUME Types, NEW r \in Records, Write(r)
  PROVE  Absorbed(r)
  <1>1. ASSUME NEW s \in Sinks, s \in open, Enqueue(s, r), sent' = sent
        PROVE  Absorbed(r)
    <2>1. \A t \in Sinks : t \notin open => queue'[t] = queue[t]
      BY <1>1, EnqueueKeeps
    <2>2. \A t \in Sinks : /\ queue'[t] \subseteq queue[t] \cup {r}
                           /\ queue[t] \subseteq queue'[t] \cup dropped'
      BY <1>1, EnqueueKeeps
    <2>. QED BY <1>1, <2>1, <2>2, EnqueueKeeps DEF Absorbed, Types
  <1>2. ASSUME queue' = queue,
               \/ sent' = sent \cup {r} /\ dropped' = dropped
               \/ dropped' = dropped \cup {r} /\ sent' = sent
        PROVE  Absorbed(r)
    BY <1>2 DEF Absorbed, Types
  <1>3. CASE LogRecord(r)
    <2>1. CASE channel = "signoz" /\ "log" \in open /\ Processor(r) /\ cfg.async
      BY <1>1, <2>1 DEF Processor, Sinks
    <2>2. CASE channel = "signoz" /\ "log" \in open /\ Processor(r) /\ ~cfg.async
      BY <1>2, <2>2 DEF Processor
    <2>. QED BY <1>2, <1>3, <2>1, <2>2 DEF LogRecord
  <1>4. CASE Span(r) \/ Event(r)
    BY <1>1, <1>4 DEF Span, Event, Sinks
  <1>. QED BY <1>3, <1>4 DEF Write

LEMMA WriteKeeps ==
  ASSUME FlushInv, NEW r \in Records, Write(r)
  PROVE  FlushInv'
  <1>1. /\ Absorbed(r) /\ fresh' = fresh \ {r} /\ r \in fresh /\ main # "logger"
        /\ UNCHANGED <<main, setup, open, closers, early>>
        /\ main \notin {"returned", "crashed"}
    BY WriteAbsorbs DEF FlushInv, Write, Running
  <1>2. Types'
    BY <1>1 DEF FlushInv, Types, Absorbed, setup
  <1>3. Traced'
    BY <1>1 DEF FlushInv, Traced, Absorbed
  <1>4. Awaited'
    <2>1. r \notin early
      BY <1>1 DEF FlushInv, Awaited
    <2>2. \A s \in Sinks : /\ s \notin open => queue'[s] = queue[s]
                           /\ early \cap queue'[s] \subseteq early \cap queue[s]
      BY <1>1, <2>1 DEF Absorbed
    <2>. QED BY <1>1, <2>2 DEF FlushInv, Awaited, Closing, Sinks, setup
  <1>. QED BY <1>2, <1>3, <1>4 DEF FlushInv

LEMMA ExportKeeps ==
  ASSUME FlushInv, NEW s \in Sinks, Export(s)
  PROVE  FlushInv'
  <1>1. PICK batch \in SUBSET queue[s] :
          /\ queue' = [queue EXCEPT ![s] = @ \ batch]
          /\ \/ sent' = sent \cup batch /\ dropped' = dropped
             \/ dropped' = dropped \cup batch /\ sent' = sent
    BY DEF Export
  <1>2. UNCHANGED <<main, setup, open, closers, fresh, early>>
    BY DEF Export
  <1>3. Types'
    BY <1>1, <1>2 DEF FlushInv, Types, setup
  <1>4. Traced'
    BY <1>1, <1>2 DEF FlushInv, Types, Traced
  <1>5. Awaited'
    <2>1. \A t \in Sinks : queue'[t] \subseteq queue[t]
      BY <1>1 DEF FlushInv, Types
    <2>. QED BY <1>2, <2>1 DEF FlushInv, Awaited, Closing, Sinks
  <1>. QED BY <1>3, <1>4, <1>5 DEF FlushInv

-----------------------------------------------------------------------------
(* The end.                                                                 *)

\* A crash takes everything with it and asks nothing of anybody.
LEMMA CrashKeeps ==
  ASSUME FlushInv, Crash, main # "logger"
  PROVE  FlushInv'
  <1>. USE DEF FlushInv, Crash, setup, traffic
  <1>1. Types' /\ Traced'
    BY DEF Types, Traced
  <1>2. Awaited'
    BY DEF Awaited, Closing
  <1>. QED BY <1>1, <1>2

LEMMA ShutdownKeeps ==
  ASSUME FlushInv, Shutdown
  PROVE  FlushInv'
  <1>. USE DEF FlushInv, Shutdown, setup
  <1>1. Types' /\ Traced'
    BY DEF Types, Traced
  <1>2. Awaited'
    BY DEF Awaited, Closing
  <1>. QED BY <1>1, <1>2

\* A flush empties one queue into what was sent and what was given up.
LEMMA FlushEmpties ==
  ASSUME Types, Traced, NEW s \in Sinks, Flush(s), fresh' = fresh
  PROVE  /\ queue' = [queue EXCEPT ![s] = {}]
         /\ sent' \subseteq Records /\ dropped' \subseteq Records
         /\ Traced'
  <1>1. PICK batch \in SUBSET queue[s] :
          sent' = sent \cup batch /\ dropped' = dropped \cup (queue[s] \ batch)
    BY DEF Flush
  <1>2. queue' = [queue EXCEPT ![s] = {}]
    BY DEF Flush
  <1>3. Traced'
    BY <1>1, <1>2 DEF Traced, Types
  <1>. QED BY <1>1, <1>2, <1>3 DEF Types

LEMMA ProviderKeeps ==
  ASSUME FlushInv, ShutdownProvider
  PROVE  FlushInv'
  <1>1. /\ main = "provider" /\ main' = "closers" /\ open' = open \ {"log"}
        /\ UNCHANGED <<setup, closers, fresh, early>>
    BY DEF ShutdownProvider
  <1>2. CASE "log" \in open
    <2>1. Flush("log")
      BY <1>2 DEF ShutdownProvider
    <2>2. /\ queue' = [queue EXCEPT !["log"] = {}]
          /\ sent' \subseteq Records /\ dropped' \subseteq Records /\ Traced'
      BY <1>1, <2>1, FlushEmpties DEF FlushInv, Sinks
    <2>3. Types'
      BY <1>1, <2>2 DEF FlushInv, Types, setup
    <2>4. Awaited'
      BY <1>1, <2>2 DEF FlushInv, Types, Awaited, Closing, Sinks
    <2>. QED BY <2>2, <2>3, <2>4 DEF FlushInv
  <1>3. CASE "log" \notin open
    <2>1. UNCHANGED <<queue, sent, dropped>>
      BY <1>3 DEF ShutdownProvider
    <2>2. Types' /\ Traced'
      BY <1>1, <2>1 DEF FlushInv, Types, Traced, setup
    <2>3. Awaited'
      BY <1>1, <1>3, <2>1 DEF FlushInv, Awaited, Closing
    <2>. QED BY <2>2, <2>3 DEF FlushInv
  <1>. QED BY <1>2, <1>3

\* What is on the list and not its last is on the rest of it.
LEMMA FrontCloses ==
  ASSUME Types, closers # <<>>, closers' = Front(closers),
         NEW s, Closing(s), s # Last(closers)
  PROVE  Closing(s)'
  <1>1. PICK i \in 1 .. Len(closers) : closers[i] = s
    BY DEF Closing
  <1>2. /\ Len(closers) \in Nat \ {0} /\ Last(closers) = closers[Len(closers)]
        /\ Len(closers') = Len(closers) - 1
        /\ \A j \in 1 .. Len(closers) - 1 : closers'[j] = closers[j]
    BY FrontElements DEF Types
  <1>3. i \in 1 .. Len(closers) - 1
    BY <1>1, <1>2
  <1>. QED BY <1>1, <1>2, <1>3 DEF Closing

LEMMA CloserKeeps ==
  ASSUME FlushInv, RunCloser
  PROVE  FlushInv'
  <1>1. /\ main = "closers" /\ main' = main /\ closers # <<>>
        /\ closers' = Front(closers)
        /\ open' = open \ ({Last(closers)} \cap {"trace"})
        /\ UNCHANGED <<setup, fresh, early>>
    BY DEF RunCloser
  <1>2. /\ Last(closers) \in {"sync", "trace", "sentry"}
        /\ closers' \in Seq({"sync", "trace", "sentry"})
    BY <1>1, FrontElements DEF FlushInv, Types
  <1>3. \A s : Closing(s) /\ s # Last(closers) => Closing(s)'
    BY <1>1, FrontCloses DEF FlushInv
  <1>4. CASE Last(closers) = "sync"
    <2>1. UNCHANGED <<queue, sent, dropped, open>>
      BY <1>1, <1>4 DEF RunCloser
    <2>2. Types' /\ Traced'
      BY <1>1, <1>2, <2>1 DEF FlushInv, Types, Traced, setup
    <2>3. Awaited'
      BY <1>1, <1>3, <1>4, <2>1 DEF FlushInv, Awaited
    <2>. QED BY <2>2, <2>3 DEF FlushInv
  <1>5. ASSUME NEW s \in {"trace", "sentry"}, Last(closers) = s
        PROVE  FlushInv'
    <2>1. Flush(s)
      BY <1>5 DEF RunCloser
    <2>2. /\ queue' = [queue EXCEPT ![s] = {}]
          /\ sent' \subseteq Records /\ dropped' \subseteq Records /\ Traced'
      BY <1>1, <1>5, <2>1, FlushEmpties DEF FlushInv, Sinks
    <2>3. Types'
      BY <1>1, <1>2, <2>2 DEF FlushInv, Types, setup
    <2>4. Awaited'
      BY <1>1, <1>3, <1>5, <2>2 DEF FlushInv, Types, Awaited, Sinks
    <2>. QED BY <2>2, <2>3, <2>4 DEF FlushInv
  <1>. QED BY <1>2, <1>4, <1>5

LEMMA ReturnKeeps ==
  ASSUME FlushInv, Return
  PROVE  FlushInv'
  <1>. USE DEF FlushInv, Return, setup, traffic
  <1>1. Types' /\ Traced'
    BY DEF Types, Traced
  <1>2. Awaited'
    BY DEF Awaited, Closing
  <1>. QED BY <1>1, <1>2

LEMMA StepKeepsFlushInv == FlushInv /\ [Next]_vars => FlushInv'
  <1>. SUFFICES ASSUME FlushInv, [Next]_vars PROVE FlushInv'
    OBVIOUS
  <1>1. CASE UNCHANGED vars
    BY <1>1 DEF FlushInv, Types, Traced, Awaited, Closing, vars, setup, traffic
  <1>2. CASE NilPanics \/ Fatal
    BY <1>2, CrashKeeps DEF NilPanics, Fatal
  <1>. QED
    BY <1>1, <1>2, InitLoggerKeeps, InitSinksKeep, WriteKeeps, ExportKeeps,
       ShutdownKeeps, ProviderKeeps, CloserKeeps, ReturnKeeps DEF Next

\* A process that returns from main() has sent or given up every record, span
\* and event written before obs.Shutdown, for any number of them, any queue size
\* and any start that failed in part (observability.go:141-156, main.go:22-26).
THEOREM NothingLeftBehind == Spec => []ReturnLeavesNothing
  BY StepKeepsFlushInv, InitFlushInv, FlushInvSuffices, PTL DEF Spec

-----------------------------------------------------------------------------
(* The bound of the queues.                                                 *)

Bounded ==
  \A s \in Sinks : IsFiniteSet(queue[s]) /\ Cardinality(queue[s]) <= QueueSize

LEMMA ShrinkingKeepsBounded ==
  ASSUME Bounded, \A s \in Sinks : queue'[s] \subseteq queue[s]
  PROVE  Bounded'
  <1>. SUFFICES ASSUME NEW s \in Sinks
                PROVE  IsFiniteSet(queue'[s]) /\ Cardinality(queue'[s]) <= QueueSize
    BY DEF Bounded
  <1>1. IsFiniteSet(queue[s]) /\ Cardinality(queue[s]) <= QueueSize
    BY DEF Bounded
  <1>2. IsFiniteSet(queue'[s]) /\ Cardinality(queue'[s]) <= Cardinality(queue[s])
    BY <1>1, FS_Subset
  <1>3. Cardinality(queue[s]) \in Nat /\ Cardinality(queue'[s]) \in Nat
    BY <1>1, <1>2, FS_CardinalityType
  <1>. QED BY <1>1, <1>2, <1>3, QueueSizeAssumption

LEMMA OneMore ==
  ASSUME NEW S, NEW x, IsFiniteSet(S)
  PROVE  /\ IsFiniteSet(S \cup {x}) /\ Cardinality(S \cup {x}) \in Nat
         /\ Cardinality(S \cup {x}) <= Cardinality(S) + 1
  <1>1. /\ IsFiniteSet(S \cup {x})
        /\ Cardinality(S \cup {x})
             = IF x \in S THEN Cardinality(S) ELSE Cardinality(S) + 1
    BY FS_AddElement
  <1>2. Cardinality(S) \in Nat
    BY FS_CardinalityType
  <1>. QED BY <1>1, <1>2

LEMMA EnqueueKeepsBounded ==
  ASSUME Types, Bounded, NEW s \in Sinks, NEW r \in Records, Enqueue(s, r)
  PROVE  Bounded'
  <1>. DEFINE Q == queue[s]
              n == Cardinality(Q)
  <1>1. IsFiniteSet(Q) /\ n \in Nat /\ n <= QueueSize /\ QueueSize \in Nat
    BY FS_CardinalityType, QueueSizeAssumption DEF Bounded
  <1>2. /\ IsFiniteSet(Q \cup {r}) /\ Cardinality(Q \cup {r}) \in Nat
        /\ Cardinality(Q \cup {r}) <= n + 1
    BY <1>1, OneMore
  <1>3. \A t \in Sinks \ {s} : queue'[t] = queue[t]
    BY EnqueueKeeps
  <1>4. CASE n < QueueSize
    <2>1. queue'[s] = Q \cup {r}
      BY <1>4 DEF Enqueue, Types
    <2>2. Cardinality(Q \cup {r}) <= QueueSize
      BY <1>1, <1>2, <1>4
    <2>. QED BY <1>2, <1>3, <2>1, <2>2 DEF Bounded
  <1>5. CASE ~(n < QueueSize)
    <2>1. PICK d \in Q \cup {r} : queue'[s] = (Q \cup {r}) \ {d}
      BY <1>5 DEF Enqueue, Types
    <2>2. /\ IsFiniteSet((Q \cup {r}) \ {d})
          /\ Cardinality((Q \cup {r}) \ {d}) = Cardinality(Q \cup {r}) - 1
      BY <1>2, FS_RemoveElement
    <2>3. Cardinality((Q \cup {r}) \ {d}) <= QueueSize
      BY <1>1, <1>2, <2>2
    <2>. QED BY <1>3, <2>1, <2>2, <2>3 DEF Bounded
  <1>. QED BY <1>4, <1>5

LEMMA WriteKeepsBounded ==
  ASSUME Types, Bounded, NEW r \in Records, Write(r)
  PROVE  Bounded'
  <1>1. CASE queue' = queue
    BY <1>1, ShrinkingKeepsBounded
  <1>2. CASE \E s \in Sinks : Enqueue(s, r)
    BY <1>2, EnqueueKeepsBounded
  <1>3. "log" \in Sinks /\ "trace" \in Sinks /\ "sentry" \in Sinks
    BY DEF Sinks
  <1>. QED BY <1>1, <1>2, <1>3 DEF Write, LogRecord, Processor, Span, Event

\* Every variable keeps its type and no batch queue outgrows its size, however
\* much the process logs and however long its collector is away
\* (signoz.go:53-58,82-88).
THEOREM QueuesAreBounded == Spec => []TypeOK
  <1>1. Init => Bounded
    <2>1. IsFiniteSet({}) /\ Cardinality({}) = 0
      BY FS_EmptySet
    <2>. QED BY <2>1, QueueSizeAssumption DEF Init, Bounded
  <1>2. FlushInv /\ Bounded /\ [Next]_vars => Bounded'
    <2>. SUFFICES ASSUME FlushInv, Bounded, [Next]_vars PROVE Bounded'
      OBVIOUS
    <2>1. CASE queue' = queue
      BY <2>1, ShrinkingKeepsBounded
    <2>2. CASE \E s \in Sinks : Export(s)
      <3>1. \A t \in Sinks : queue'[t] \subseteq queue[t]
        BY <2>2 DEF Export, FlushInv, Types
      <3>. QED BY <3>1, ShrinkingKeepsBounded
    <2>3. CASE \E s : Flush(s)
      <3>1. \A t \in Sinks : queue'[t] \subseteq queue[t]
        BY <2>3 DEF Flush, FlushInv, Types
      <3>. QED BY <3>1, ShrinkingKeepsBounded
    <2>4. CASE \E r \in Records : Write(r)
      BY <2>4, WriteKeepsBounded DEF FlushInv
    <2>. QED
      BY <2>1, <2>2, <2>3, <2>4
         DEF Next, vars, traffic, InitLogger, InitTracing, InitSentry, NilPanics,
             Fatal, Crash, Shutdown, ShutdownProvider, RunCloser, Return
  <1>3. FlushInv /\ Bounded => TypeOK
    BY DEF FlushInv, Types, Bounded, TypeOK
  <1>. QED BY <1>1, <1>2, <1>3, InitFlushInv, StepKeepsFlushInv, PTL DEF Spec
=============================================================================
