---------------------------- MODULE RequestPath ----------------------------
(***************************************************************************)
(* One HTTP request on its way through gin's middleware and its handler,   *)
(* and the run that stores what the handler accepted.  EventPipeline has   *)
(* many requests and abstract events; here it is one request, what the     *)
(* chain around the handler does when it returns or panics, and what is in *)
(* the events.                                                             *)
(***************************************************************************)
EXTENDS EventRecord

CONSTANTS
  Texts,      \* JSON objects a client may send as events
  Batches,    \* sequences of them: what a batch request carries
  MaxEvents,  \* the batch DTO's max=100
  ClientIP,   \* ctx.ClientIP()
  Agent,      \* the header User-Agent
  Now         \* the run's time.Now(), not a value of Dates

ASSUME BatchAssumption == MaxEvents \in Nat \ {0} /\ Batches \subseteq Seq(Texts)
ASSUME TextsAssumption  == \A t \in Texts : IsText(t)
ASSUME ServerAssumption == ClientIP \in STRING /\ Agent \in STRING

VARIABLES
  conf,      \* SENTRY_ENABLE and TRACING_ENABLE, and what became of them
  req,       \* the request; cut: its body ends early; keyed: x-api-key is right
  at,        \* the handler of the chain that is entered, left or unwound next
  way,       \* "in", "out" or "panic"
  step,      \* where the route's handler is
  unread,    \* c.Request.Body still has what the client sent
  span,      \* the context carries a valid span that otelgin has not ended
  status,    \* c.Writer.Status() once something was written; 0 before
  logs,      \* what the service logger wrote of the request
  captured,  \* how many panics a Sentry client was given to report
  dtos,      \* the events as the handler pushes them
  entries,   \* the list at queueKey
  batch,     \* the events a run holds
  models,    \* its models of them
  rows,      \* the table
  dead       \* the list at deadKey

chainVars == <<conf, req, at, way, span, status, logs, captured>>
bindVars  == <<step, unread, dtos>>
storeVars == <<entries, batch, models, rows, dead>>
vars      == <<chainVars, bindVars, storeVars>>

\* What observe.Init left behind: a flag that is set installs a Sentry client or a
\* tracer provider, or fails with a warning (no DSN, no exporter) and the service
\* goes on without.
Configs ==
  {c \in [sentry : BOOLEAN, client : BOOLEAN, tracing : BOOLEAN, provider : BOOLEAN] :
     (c.client => c.sentry) /\ (c.provider => c.tracing)}

Quiet == {"health", "docs", "openapi"}

Requests ==
  [route : Quiet \cup {"other", "preflight"}, events : {<<>>}, cut : {FALSE}, keyed : {FALSE}]
    \cup [route : {"stats"}, events : {<<>>}, cut : {FALSE}, keyed : BOOLEAN]
    \cup [route : {"create"}, events : {<<t>> : t \in Texts}, cut : BOOLEAN, keyed : {FALSE}]
    \cup [route : {"batch"}, events : Batches, cut : BOOLEAN, keyed : {FALSE}]

Init ==
  /\ conf \in Configs
  /\ req \in Requests
  /\ at = 1 /\ way = "in" /\ step = "bind"
  /\ unread = TRUE /\ span = FALSE
  /\ status = 0 /\ logs = <<>> /\ captured = 0
  /\ dtos = <<>> /\ entries = <<>> /\ batch = <<>> /\ models = <<>>
  /\ rows = <<>> /\ dead = <<>>

-----------------------------------------------------------------------------
(* The chain: what New registers, then what registerMiddleware does, then   *)
(* the route's own.  Both look at the flags, not at what Init made of them. *)

If(enabled, name) == IF enabled THEN <<name>> ELSE <<>>

Sentry == If(conf.sentry, "sentry")

\* Sentry around the recovery, as New has it, and logging around tracing.
SentryOutside ==
  <<"ginRecovery">> \o Sentry \o <<"recovery">>
    \o If(conf.tracing, "otel") \o <<"logging">>
LoggingOutside ==
  <<"ginRecovery", "recovery">> \o Sentry
    \o <<"logging">> \o If(conf.tracing, "otel")

Registered ==
  <<"ginRecovery", "recovery">> \o Sentry
    \o If(conf.tracing, "otel") \o <<"logging">>

Chain ==
  <<"ginLogger", "ginRecovery">> \o Sentry \o <<"cors">>
    \o Registered \o If(req.route = "stats", "apiKey")

Entering(names) == way = "in" /\ at \in DOMAIN Chain /\ Chain[at] \in names
Leaving(names)  == way = "out" /\ at > 0 /\ Chain[at] \in names
Unwinding(names) == way = "panic" /\ Chain[at] \in names
Handling        == way = "in" /\ at = Len(Chain) + 1

\* c.Next(), and the way back to the caller of c.Next().
Deeper   == at' = at + 1 /\ way' = way
Back     == at' = at - 1 /\ way' = "out"

\* The response is written and no handler further in is called.
Answer(code) == status' = code /\ Back

Silent == {"ginLogger", "ginRecovery", "recovery", "sentry"}

EnterSilent ==
  /\ Entering(Silent) /\ Deeper
  /\ UNCHANGED <<conf, req, span, status, logs, captured, bindVars, storeVars>>

\* Every origin is allowed; a preflight ends here.
EnterCors ==
  /\ Entering({"cors"})
  /\ IF req.route = "preflight" THEN Answer(204) ELSE Deeper /\ UNCHANGED status
  /\ UNCHANGED <<conf, req, span, logs, captured, bindVars, storeVars>>

\* The global provider's tracer; before one is set, its spans are not valid.
EnterOtel ==
  /\ Entering({"otel"}) /\ Deeper
  /\ span' = (conf.provider /\ req.route \notin Quiet)
  /\ UNCHANGED <<conf, req, status, logs, captured, bindVars, storeVars>>

\* A logging middleware that forgets to put a new reader into c.Request.Body.
Drained == FALSE

Restored == unread

\* The body is read for the log and put back; a read error is dropped, and what
\* came before it put back.
EnterLogging ==
  /\ Entering({"logging"}) /\ Deeper
  /\ unread' = IF req.route \in Quiet THEN unread ELSE Restored
  /\ UNCHANGED <<conf, req, span, status, logs, captured, step, dtos, storeVars>>

EnterApiKey ==
  /\ Entering({"apiKey"})
  /\ IF req.keyed THEN Deeper /\ UNCHANGED status ELSE Answer(401)
  /\ UNCHANGED <<conf, req, span, logs, captured, bindVars, storeVars>>

\* Back through a middleware: only logging does something after c.Next(), with
\* the status and the context of that moment, and otelgin ends its span.
Leave ==
  /\ Leaving(ToSet(Chain)) /\ Back
  /\ span' = (span /\ Chain[at] # "otel")
  /\ logs' = IF Chain[at] = "logging" /\ req.route \notin Quiet
             THEN Append(logs, [kind |-> "request", status |-> status, traced |-> span])
             ELSE logs
  /\ UNCHANGED <<conf, req, status, captured, bindVars, storeVars>>

\* A panic passes what has no deferred recover; otelgin's deferred End runs, and
\* sentrygin gives it to the hub's client, if there is one, and panics again
\* (Repanic).
Unwind ==
  /\ Unwinding({"apiKey", "logging", "otel", "cors", "sentry"})
  /\ at' = at - 1 /\ way' = way
  /\ span' = (span /\ Chain[at] # "otel")
  /\ captured' = captured + (IF Chain[at] = "sentry" /\ conf.client THEN 1 ELSE 0)
  /\ UNCHANGED <<conf, req, status, logs, bindVars, storeVars>>

\* RecoveryMiddleware's log record and 500, or gin.Recovery's 500.
Recover ==
  /\ Unwinding({"recovery", "ginRecovery"})
  /\ Answer(500)
  /\ logs' = IF Chain[at] = "recovery"
             THEN Append(logs, [kind |-> "panic", status |-> 500, traced |-> FALSE])
             ELSE logs
  /\ UNCHANGED <<conf, req, span, captured, bindVars, storeVars>>

-----------------------------------------------------------------------------
(* The handlers.                                                            *)

Answers ==
  [health |-> {200}, docs |-> {200}, openapi |-> {200, 500},  \* os.ReadFile
   stats |-> {200}, other |-> {404}]

\* Health, ScalarUI, OpenAPISpec, QueueStats and NoRoute's function.
Serve ==
  /\ Handling /\ req.route \in DOMAIN Answers
  /\ \E code \in Answers[req.route] : Answer(code)
  /\ UNCHANGED <<conf, req, span, logs, captured, bindVars, storeVars>>

\* A decoder without the validator.
BindingFailsUnvalidated ==
  \/ ~unread \/ req.cut
  \/ \E t \in ToSet(req.events) : ~Unmarshals(t)

\* ShouldBindJSON: the decoder, then the validator.
BindingFails ==
  \/ ~unread \/ req.cut
  \/ req.route = "batch" /\ Len(req.events) \notin 1 .. MaxEvents
  \/ \E t \in ToSet(req.events) : ~(Unmarshals(t) /\ Required(Unmarshal(t)))

Prepared(t) == StripSensitiveFields(EnrichMetaData(Unmarshal(t), ClientIP, Agent))

Bind ==
  /\ Handling /\ req.route \in {"create", "batch"} /\ step = "bind"
  /\ unread' = FALSE
  /\ \/ BindingFails /\ Answer(422) /\ UNCHANGED <<step, dtos>>
     \/ /\ ~BindingFails
        /\ dtos' = [i \in DOMAIN req.events |-> Prepared(req.events[i])]
        /\ step' = "push"
        /\ UNCHANGED <<at, way, status>>
  /\ UNCHANGED <<conf, req, span, logs, captured, storeVars>>

\* Push or PushBatch; when they fail, some of the events may be in the list.
Push ==
  /\ Handling /\ step = "push"
  /\ \E n \in 0 .. Len(dtos) :
       /\ entries' = [i \in 1 .. n |-> Marshal(dtos[i])]
       /\ \/ n = Len(dtos) /\ step' = "answer" /\ UNCHANGED <<at, way, status>>
          \/ Answer(500) /\ UNCHANGED step
  /\ UNCHANGED <<conf, req, span, logs, captured, unread, dtos>>
  /\ UNCHANGED <<batch, models, rows, dead>>

Accept ==
  /\ Handling /\ step = "answer"
  /\ Answer(200)
  /\ UNCHANGED <<conf, req, span, logs, captured, bindVars, storeVars>>

\* A handler panics before it has answered.
Panic ==
  /\ Handling
  /\ step' = "panicked"
  /\ way' = "panic" /\ at' = at - 1
  /\ UNCHANGED <<conf, req, span, status, logs, captured, unread, dtos, storeVars>>

-----------------------------------------------------------------------------
(* The run.                                                                 *)

\* Decoding into one variable declared before the loop: what an entry leaves out
\* keeps the value of the entry before it.
DecodedInto ==
  [i \in DOMAIN entries |->
     Unmarshal(IF i = 1 THEN entries[1] ELSE Over(entries[i], entries[i - 1]))]

Decoded == [i \in DOMAIN entries |-> Unmarshal(entries[i])]

\* PopBatch and transformEvents.
Pop ==
  /\ entries # <<>>
  /\ batch' = Decoded
  /\ models' = [i \in DOMAIN batch' |-> TransformEvent(batch'[i], Now)]
  /\ entries' = <<>>
  /\ UNCHANGED <<chainVars, bindVars, rows, dead>>

\* BulkInsert stores all, or every attempt fails and all are dead letters.
Settle ==
  /\ batch # <<>>
  /\ \/ /\ \A i \in DOMAIN models : TableTakes(models[i])
        /\ rows' = models /\ UNCHANGED dead
     \/ dead' = [i \in DOMAIN batch |-> DeadLetter(batch[i])] /\ UNCHANGED rows
  /\ batch' = <<>> /\ models' = <<>>
  /\ UNCHANGED <<chainVars, bindVars, entries>>

Next ==
  \/ EnterSilent \/ EnterCors \/ EnterOtel \/ EnterLogging \/ EnterApiKey
  \/ Serve \/ Bind \/ Push \/ Accept \/ Panic
  \/ Leave \/ Unwind \/ Recover
  \/ Pop \/ Settle

Spec == Init /\ [][Next]_vars

-----------------------------------------------------------------------------
(* Properties.                                                              *)

Answered == way = "out" /\ at = 0

\* The variables keep their types, the chain is never left with a panic, and
\* what a handler pushes has passed the validator.
TypeOK ==
  /\ at \in 0 .. Len(Chain) + 1
  /\ way \in {"in", "out", "panic"} /\ (way = "panic" => at > 0)
  /\ step \in {"bind", "push", "answer", "panicked"}
  /\ unread \in BOOLEAN /\ span \in BOOLEAN /\ captured \in Nat
  /\ status \in {0, 200, 204, 401, 404, 422, 500}
  /\ \A i \in DOMAIN logs :
       /\ logs[i].kind \in {"request", "panic"}
       /\ logs[i].status \in {0, 200, 204, 401, 404, 422, 500}
       /\ logs[i].traced \in BOOLEAN
  /\ \A i \in DOMAIN dtos : Required(dtos[i])
  /\ \A i \in DOMAIN entries : Unmarshals(entries[i])
  /\ DOMAIN models = DOMAIN batch

\* A handler's panic is answered 500 and, when Sentry has started, reported once
\* although sentrygin is in the chain twice: the inner one sees the panic before
\* RecoveryMiddleware ends it.  A Sentry that is enabled and did not start changes
\* nothing but the report (httpserver.go:28-32, http_start.go:87-95,
\* observability.go:119-130, sentry.go:24-47).
PanicIsReported ==
  Answered /\ step = "panicked" =>
    status = 500 /\ captured = (IF conf.client THEN 1 ELSE 0)

\* The service log tells of each request once: of a panic by RecoveryMiddleware,
\* of any other request outside the quiet paths by LoggingMiddleware, with the
\* status the client got and, when tracing has started, the request's span
\* (http_start.go:88-101, logging_middleware.go:39-74, 80-86,
\* observability.go:87-100, tracer.go:49-69).
LoggedOnce ==
  LET panicked == step = "panicked"
      silent   == req.route = "preflight" \/ (req.route \in Quiet /\ ~panicked)
  IN  Answered =>
        IF silent THEN logs = <<>>
        ELSE logs = <<[kind   |-> IF panicked THEN "panic" ELSE "request",
                       status |-> status,
                       traced |-> conf.provider /\ ~panicked]>>

\* What the body of a request says decides whether it is refused, and nothing on
\* its way does: the logging middleware, which has read the body before the
\* handler does, leaves all of it there (logging_middleware.go:29-37,
\* tracking_event_handler.go:38-43, 57-62).
WellFormed(t) ==
  /\ {"event", "user_id"} \subseteq DOMAIN t
  /\ Has(t.event, "str") /\ t.event.str # ""
  /\ Has(t.user_id, "num") /\ t.user_id.num \in (-MaxInt64 - 1 .. MaxInt64) \ {0}
  /\ \A name \in DOMAIN t :
       \/ t[name] = Null
       \/ name \in {"event", "occurred_at"} /\ Has(t[name], "str")
       \/ name \in {"user_id", "batch_id"} /\ IsInt64(t[name])
       \/ name \in {"properties", "meta_data"} /\ Has(t[name], "obj")
       \/ name \notin {"event", "user_id", "batch_id", "properties", "meta_data",
                        "occurred_at"}

BodyDecides ==
  LET good == /\ ~req.cut /\ Len(req.events) \in 1 .. MaxEvents
              /\ \A t \in ToSet(req.events) : WellFormed(t)
  IN  Answered /\ req.route \in {"create", "batch"} /\ step # "panicked" =>
        status \in (IF good THEN {200, 500} ELSE {422})

\* A number and what became of it: a float64, and none is nearer.
IsFloat(n) == n \in -Exact .. Exact \/ n % 2 = 0
Nearest(m, n) ==
  /\ IsFloat(m)
  /\ \A k \in {n - 1, n, n + 1} : IsFloat(k) => (m - n) * (m - n) <= (k - n) * (k - n)

LeafKept(v, w) ==
  IF Has(w, "num") THEN Has(v, "num") /\ Nearest(v.num, w.num) ELSE v = w

ValueKept(v, w) ==
  IF Has(w, "obj")
  THEN /\ Has(v, "obj") /\ DOMAIN v.obj = DOMAIN w.obj
       /\ \A k \in DOMAIN w.obj : LeafKept(v.obj[k], w.obj[k])
  ELSE LeafKept(v, w)

Sent(t, name) ==
  IF name \in DOMAIN t /\ t[name] # Null THEN t[name].obj ELSE <<>>

\* After two trips through JSON a row holds what the client sent: ids to the last
\* digit, whatever else was a number as a nearest float64, nothing of the event
\* before it, no sensitive property, and an address and an agent that are the
\* server's whatever the client wrote there (tracking_event_handler.go:78-97,
\* event_buffer.go:32-43, 78-86, event_processor.go:86-121, json_type.go:16-22).
RowFits(row, t) ==
  LET properties == Sent(t, "properties")
      metaData   == Sent(t, "meta_data")
      server     == {"ip", "user_agent"}
      date       == IF "occurred_at" \in DOMAIN t /\ t.occurred_at # Null
                    THEN t.occurred_at.str ELSE ""
  IN  /\ row.event = t.event.str /\ row.user_id = t.user_id.num
      /\ row.batch_id = (IF "batch_id" \in DOMAIN t /\ t.batch_id # Null
                         THEN t.batch_id.num ELSE Null)
      /\ DOMAIN row.properties = DOMAIN properties \ Sensitive
      /\ \A k \in DOMAIN row.properties : ValueKept(row.properties[k], properties[k])
      /\ DOMAIN row.meta_data = DOMAIN metaData \cup server
      /\ \A k \in DOMAIN metaData \ server : ValueKept(row.meta_data[k], metaData[k])
      /\ row.meta_data["ip"] = [str |-> ClientIP]
      /\ row.meta_data["user_agent"] = [str |-> Agent]
      /\ row.occurred_at = (IF date \in DOMAIN Dates THEN Dates[date] ELSE Now)

RowsFit ==
  /\ Len(rows) <= Len(req.events)
  /\ \A i \in DOMAIN rows : RowFits(rows[i], req.events[i])

\* A dead letter can be replayed: its event, decoded like an entry of the queue,
\* is what the handler pushed (event_buffer.go:99-111).
DeadLettersReplay ==
  \A i \in DOMAIN dead : Unmarshal(dead[i].event.obj) = dtos[i]
=============================================================================
