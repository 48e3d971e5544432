------------------------- MODULE RequestPathProofs -------------------------
(* What the middleware chain and the trips through JSON do to a request,    *)
(* for every request and every text.                                        *)
EXTENDS RequestPath, SequenceTheorems, TLAPS

Routes == Quiet \cup {"other", "preflight", "stats", "create", "batch"}

LEMMA RequestTypes ==
  ASSUME NEW q \in Requests
  PROVE  /\ q.route \in Routes /\ q.cut \in BOOLEAN /\ q.keyed \in BOOLEAN
         /\ q.events \in Seq(Texts)
         /\ q.route \notin {"create", "batch"} => q.events = <<>>
         /\ q.route = "create" => Len(q.events) = 1
  <1>1. \A t \in Texts : <<t>> \in Seq(Texts) /\ Len(<<t>>) = 1
    OBVIOUS
  <1>2. <<>> \in Seq(Texts) /\ \A b \in Batches : b \in Seq(Texts)
    BY BatchAssumption
  <1>. QED BY <1>1, <1>2 DEF Requests, Routes, Quiet

-----------------------------------------------------------------------------
(* The chain, position by position.                                         *)

One(b) == IF b THEN 1 ELSE 0

CorsAt     == 3 + One(conf.sentry)
RecoveryAt == CorsAt + 2
SentryAt   == RecoveryAt + 1
OtelAt     == RecoveryAt + One(conf.sentry) + 1
LoggingAt  == RecoveryAt + One(conf.sentry) + One(conf.tracing) + 1

Handlers == {"ginLogger", "ginRecovery", "sentry", "cors", "recovery", "otel",
             "logging", "apiKey"}

LEMMA IfIsShort ==
  ASSUME NEW b \in BOOLEAN, NEW name \in Handlers
  PROVE  /\ If(b, name) \in Seq(Handlers) /\ Len(If(b, name)) = One(b)
         /\ \A i \in 1 .. One(b) : If(b, name)[i] = name
  BY DEF If, One

LEMMA Joined ==
  ASSUME NEW s \in Seq(Handlers), NEW t \in Seq(Handlers),
         NEW u, u = s \o t
  PROVE  /\ u \in Seq(Handlers) /\ Len(u) = Len(s) + Len(t)
         /\ \A i \in 1 .. Len(s) : u[i] = s[i]
         /\ \A i \in 1 .. Len(t) : u[Len(s) + i] = t[i]
  <1>1. /\ s \o t \in Seq(Handlers) /\ Len(s \o t) = Len(s) + Len(t)
        /\ \A i \in 1 .. Len(s) : (s \o t)[i] = s[i]
        /\ \A i \in 1 .. Len(t) : (s \o t)[Len(s) + i] = t[i]
    OBVIOUS
  <1>. QED BY <1>1

LEMMA RegisteredLayout ==
  ASSUME conf \in Configs
  PROVE  /\ Registered \in Seq(Handlers)
         /\ Len(Registered) = 3 + One(conf.sentry) + One(conf.tracing)
         /\ Registered[1] = "ginRecovery" /\ Registered[2] = "recovery"
         /\ conf.sentry => Registered[3] = "sentry"
         /\ conf.tracing => Registered[3 + One(conf.sentry)] = "otel"
         /\ Registered[3 + One(conf.sentry) + One(conf.tracing)] = "logging"
  <1>. DEFINE s == One(conf.sentry)
              t == One(conf.tracing)
              A == <<"ginRecovery", "recovery">>
              O == If(conf.tracing, "otel")
              B == A \o Sentry
              C == B \o O
              L == <<"logging">>
  <1>1. /\ A \in Seq(Handlers) /\ Len(A) = 2 /\ A[1] = "ginRecovery" /\ A[2] = "recovery"
        /\ L \in Seq(Handlers) /\ Len(L) = 1 /\ L[1] = "logging"
    BY DEF Handlers
  <1>2. /\ Sentry \in Seq(Handlers) /\ Len(Sentry) = s
        /\ \A i \in 1 .. s : Sentry[i] = "sentry"
        /\ O \in Seq(Handlers) /\ Len(O) = t
        /\ \A i \in 1 .. t : O[i] = "otel"
    BY IfIsShort DEF Sentry, Handlers, Configs
  <1>3. s \in 0 .. 1 /\ (conf.sentry <=> s = 1) /\ t \in 0 .. 1 /\ (conf.tracing <=> t = 1)
    BY DEF One
  <1>4. Registered = C \o L
    BY DEF Registered
  <1>. HIDE DEF s, t, A, L, O
  <1>5. /\ B \in Seq(Handlers) /\ Len(B) = 2 + s
        /\ \A i \in 1 .. 2 : B[i] = A[i]
        /\ \A i \in 1 .. s : B[2 + i] = Sentry[i]
    <2>1. A \in Seq(Handlers) /\ Sentry \in Seq(Handlers) /\ B = A \o Sentry
      BY <1>1, <1>2
    <2>. HIDE DEF B
    <2>2. /\ B \in Seq(Handlers) /\ Len(B) = Len(A) + Len(Sentry)
          /\ \A i \in 1 .. Len(A) : B[i] = A[i]
          /\ \A i \in 1 .. Len(Sentry) : B[Len(A) + i] = Sentry[i]
      BY <2>1, Joined
    <2>. QED BY <1>1, <1>2, <1>3, <2>2
  <1>. HIDE DEF B
  <1>6. /\ C \in Seq(Handlers) /\ Len(C) = 2 + s + t
        /\ \A i \in 1 .. 2 + s : C[i] = B[i]
        /\ \A i \in 1 .. t : C[2 + s + i] = O[i]
    BY <1>2, <1>3, <1>5, Joined
  <1>. HIDE DEF C
  <1>7. /\ Registered \in Seq(Handlers) /\ Len(Registered) = 2 + s + t + 1
        /\ \A i \in 1 .. 2 + s + t : Registered[i] = C[i]
        /\ \A i \in 1 .. 1 : Registered[2 + s + t + i] = L[i]
    <2>1. C \in Seq(Handlers) /\ L \in Seq(Handlers) /\ Registered = C \o L
      BY <1>1, <1>4, <1>6
    <2>2. /\ Registered \in Seq(Handlers) /\ Len(Registered) = Len(C) + Len(L)
          /\ \A i \in 1 .. Len(C) : Registered[i] = C[i]
          /\ \A i \in 1 .. Len(L) : Registered[Len(C) + i] = L[i]
      BY <2>1, Joined
    <2>. QED BY <1>1, <1>3, <1>6, <2>2
  <1>8. /\ Registered \in Seq(Handlers) /\ Len(Registered) = 3 + s + t
        /\ Registered[1] = "ginRecovery" /\ Registered[2] = "recovery"
    BY <1>1, <1>3, <1>5, <1>6, <1>7
  <1>9. conf.sentry => Registered[3] = "sentry"
    <2>. SUFFICES ASSUME s = 1 PROVE Registered[3] = "sentry"
      BY <1>3
    <2>1. Registered[2 + 1] = C[2 + 1] /\ C[2 + 1] = B[2 + 1] /\ B[2 + 1] = Sentry[1]
      BY <1>3, <1>5, <1>6, <1>7
    <2>. QED BY <1>2, <2>1
  <1>10. conf.tracing => Registered[3 + s] = "otel"
    <2>. SUFFICES ASSUME t = 1 PROVE Registered[3 + s] = "otel"
      BY <1>3
    <2>1. Registered[2 + s + 1] = C[2 + s + 1] /\ C[2 + s + 1] = O[1]
      BY <1>3, <1>6, <1>7
    <2>. QED BY <1>2, <1>3, <2>1
  <1>11. Registered[3 + s + t] = "logging"
    <2>1. Registered[2 + s + t + 1] = L[1] /\ 2 + s + t + 1 = 3 + s + t
      BY <1>3, <1>7
    <2>. QED BY <1>1, <2>1
  <1>. QED BY <1>8, <1>9, <1>10, <1>11 DEF s, t

\* The chain, handler by handler: of two with one name the inner one.
LEMMA ChainLayout ==
  ASSUME conf \in Configs
  PROVE  /\ Chain \in Seq(Handlers)
         /\ Len(Chain) = LoggingAt + One(req.route = "stats")
         /\ Chain[1] = "ginLogger" /\ Chain[2] = "ginRecovery"
         /\ conf.sentry => Chain[3] = "sentry"
         /\ Chain[CorsAt] = "cors" /\ Chain[CorsAt + 1] = "ginRecovery"
         /\ Chain[RecoveryAt] = "recovery"
         /\ conf.sentry => Chain[SentryAt] = "sentry"
         /\ conf.tracing => Chain[OtelAt] = "otel"
         /\ Chain[LoggingAt] = "logging"
         /\ req.route = "stats" => Chain[LoggingAt + 1] = "apiKey"
  <1>. DEFINE s == One(conf.sentry)
              t == One(conf.tracing)
              k == One(req.route = "stats")
              A == <<"ginLogger", "ginRecovery">>
              B == A \o Sentry
              M == <<"cors">>
              C == B \o M
              D == C \o Registered
              K == If(req.route = "stats", "apiKey")
  <1>1. /\ A \in Seq(Handlers) /\ Len(A) = 2 /\ A[1] = "ginLogger" /\ A[2] = "ginRecovery"
        /\ M \in Seq(Handlers) /\ Len(M) = 1 /\ M[1] = "cors"
    BY DEF Handlers
  <1>2. /\ Sentry \in Seq(Handlers) /\ Len(Sentry) = s
        /\ \A i \in 1 .. s : Sentry[i] = "sentry"
        /\ K \in Seq(Handlers) /\ Len(K) = k
        /\ \A i \in 1 .. k : K[i] = "apiKey"
    <2>1. conf.sentry \in BOOLEAN /\ (req.route = "stats") \in BOOLEAN
      BY DEF Configs
    <2>2. "sentry" \in Handlers /\ "apiKey" \in Handlers
      BY DEF Handlers
    <2>. QED BY <2>1, <2>2, IfIsShort DEF Sentry
  <1>3. /\ s \in 0 .. 1 /\ (conf.sentry <=> s = 1)
        /\ t \in 0 .. 1 /\ (conf.tracing <=> t = 1)
        /\ k \in 0 .. 1 /\ (req.route = "stats" <=> k = 1)
    BY DEF One
  <1>4. Chain = D \o K
    BY DEF Chain
  <1>5. /\ CorsAt = 3 + s /\ RecoveryAt = 5 + s /\ SentryAt = 6 + s
        /\ OtelAt = 6 + s + s /\ LoggingAt = 6 + s + s + t
    BY <1>3 DEF CorsAt, RecoveryAt, SentryAt, OtelAt, LoggingAt
  <1>6. /\ Registered \in Seq(Handlers) /\ Len(Registered) = 3 + s + t
        /\ Registered[1] = "ginRecovery" /\ Registered[2] = "recovery"
        /\ conf.sentry => Registered[3] = "sentry"
        /\ conf.tracing => Registered[3 + s] = "otel"
        /\ Registered[3 + s + t] = "logging"
    BY RegisteredLayout
  <1>. HIDE DEF s, t, k, A, M, K
  <1>7. /\ B \in Seq(Handlers) /\ Len(B) = 2 + s
        /\ \A i \in 1 .. 2 : B[i] = A[i]
        /\ \A i \in 1 .. s : B[2 + i] = Sentry[i]
    <2>1. A \in Seq(Handlers) /\ Sentry \in Seq(Handlers) /\ B = A \o Sentry
      BY <1>1, <1>2
    <2>. HIDE DEF B
    <2>2. /\ B \in Seq(Handlers) /\ Len(B) = Len(A) + Len(Sentry)
          /\ \A i \in 1 .. Len(A) : B[i] = A[i]
          /\ \A i \in 1 .. Len(Sentry) : B[Len(A) + i] = Sentry[i]
      BY <2>1, Joined
    <2>. QED BY <1>1, <1>2, <1>3, <2>2
  <1>. HIDE DEF B
  <1>8. /\ C \in Seq(Handlers) /\ Len(C) = 2 + s + 1
        /\ \A i \in 1 .. 2 + s : C[i] = B[i]
        /\ \A i \in 1 .. 1 : C[2 + s + i] = M[i]
    <2>1. B \in Seq(Handlers) /\ M \in Seq(Handlers) /\ C = B \o M
      BY <1>1, <1>7
    <2>. HIDE DEF C
    <2>2. /\ C \in Seq(Handlers) /\ Len(C) = Len(B) + Len(M)
          /\ \A i \in 1 .. Len(B) : C[i] = B[i]
          /\ \A i \in 1 .. Len(M) : C[Len(B) + i] = M[i]
      BY <2>1, Joined
    <2>. QED BY <1>1, <1>3, <1>7, <2>2
  <1>. HIDE DEF C
  <1>9. /\ D \in Seq(Handlers) /\ Len(D) = 3 + s + (3 + s + t)
        /\ \A i \in 1 .. 3 + s : D[i] = C[i]
        /\ \A i \in 1 .. 3 + s + t : D[3 + s + i] = Registered[i]
    <2>1. C \in Seq(Handlers) /\ Registered \in Seq(Handlers) /\ D = C \o Registered
      BY <1>6, <1>8
    <2>. HIDE DEF D
    <2>2. /\ D \in Seq(Handlers) /\ Len(D) = Len(C) + Len(Registered)
          /\ \A i \in 1 .. Len(C) : D[i] = C[i]
          /\ \A i \in 1 .. Len(Registered) : D[Len(C) + i] = Registered[i]
      BY <2>1, Joined
    <2>. QED BY <1>3, <1>6, <1>8, <2>2
  <1>. HIDE DEF D
  <1>10. /\ Chain \in Seq(Handlers) /\ Len(Chain) = 6 + s + s + t + k
         /\ \A i \in 1 .. 6 + s + s + t : Chain[i] = D[i]
         /\ \A i \in 1 .. k : Chain[6 + s + s + t + i] = K[i]
    <2>1. D \in Seq(Handlers) /\ K \in Seq(Handlers) /\ Chain = D \o K
      BY <1>2, <1>4, <1>9
    <2>2. /\ Chain \in Seq(Handlers) /\ Len(Chain) = Len(D) + Len(K)
          /\ \A i \in 1 .. Len(D) : Chain[i] = D[i]
          /\ \A i \in 1 .. Len(K) : Chain[Len(D) + i] = K[i]
      BY <2>1, Joined
    <2>. QED BY <1>2, <1>3, <1>9, <2>2
  <1>11. /\ Chain[1] = "ginLogger" /\ Chain[2] = "ginRecovery"
         /\ s = 1 => Chain[3] = "sentry"
         /\ Chain[3 + s] = "cors"
    <2>1. \A i \in 1 .. 3 + s : Chain[i] = C[i]
      BY <1>3, <1>9, <1>10
    <2>2. \A i \in 1 .. 2 + s : Chain[i] = B[i]
      BY <1>3, <1>8, <2>1
    <2>3. Chain[1] = A[1] /\ Chain[2] = A[2]
      BY <1>3, <1>7, <2>2
    <2>4. s = 1 => Chain[2 + 1] = Sentry[1]
      BY <1>3, <1>7, <2>2
    <2>5. Chain[2 + s + 1] = M[1] /\ 2 + s + 1 = 3 + s
      BY <1>3, <1>8, <2>1
    <2>. QED BY <1>1, <1>2, <2>3, <2>4, <2>5
  <1>12. \A i \in 1 .. 3 + s + t : Chain[3 + s + i] = Registered[i]
    <2>. SUFFICES ASSUME NEW i \in 1 .. 3 + s + t PROVE Chain[3 + s + i] = Registered[i]
      OBVIOUS
    <2>1. 3 + s + i \in 1 .. 6 + s + s + t
      BY <1>3
    <2>. QED BY <1>9, <1>10, <2>1
  <1>13. /\ Chain[4 + s] = "ginRecovery" /\ Chain[5 + s] = "recovery"
         /\ s = 1 => Chain[6 + s] = "sentry"
         /\ t = 1 => Chain[6 + s + s] = "otel"
         /\ Chain[6 + s + s + t] = "logging"
    <2>1. Chain[3 + s + 1] = Registered[1] /\ Chain[3 + s + 2] = Registered[2]
      BY <1>3, <1>12
    <2>2. s = 1 => Chain[3 + s + 3] = Registered[3]
      BY <1>3, <1>12
    <2>3. t = 1 => Chain[3 + s + (3 + s)] = Registered[3 + s]
      BY <1>3, <1>12
    <2>4. Chain[3 + s + (3 + s + t)] = Registered[3 + s + t]
      BY <1>3, <1>12
    <2>5. /\ 3 + s + 1 = 4 + s /\ 3 + s + 2 = 5 + s /\ 3 + s + 3 = 6 + s
          /\ 3 + s + (3 + s) = 6 + s + s /\ 3 + s + (3 + s + t) = 6 + s + s + t
      BY <1>3
    <2>. QED BY <1>3, <1>6, <2>1, <2>2, <2>3, <2>4, <2>5
  <1>14. k = 1 => Chain[6 + s + s + t + 1] = "apiKey"
    BY <1>2, <1>3, <1>10
  <1>15. CorsAt + 1 = 4 + s
    BY <1>3, <1>5
  <1>. QED BY <1>3, <1>5, <1>10, <1>11, <1>13, <1>14, <1>15 DEF s, t, k

\* What the steps below need to know of the chain.
LEMMA ChainFacts ==
  ASSUME conf \in Configs
  PROVE  /\ Len(Chain) \in Nat /\ DOMAIN Chain = 1 .. Len(Chain)
         /\ CorsAt \in 3 .. 4 /\ RecoveryAt = CorsAt + 2 /\ SentryAt = RecoveryAt + 1
         /\ OtelAt \in Nat /\ LoggingAt \in Nat
         /\ OtelAt > RecoveryAt /\ LoggingAt >= OtelAt
         /\ conf.tracing => LoggingAt = OtelAt + 1
         /\ conf.sentry => OtelAt > SentryAt
         /\ Len(Chain) = LoggingAt + One(req.route = "stats")
         /\ \A i \in 1 .. Len(Chain) :
              /\ Chain[i] \in Handlers
              /\ Chain[i] = "cors"     <=> i = CorsAt
              /\ Chain[i] = "recovery" <=> i = RecoveryAt
              /\ Chain[i] = "otel"     <=> conf.tracing /\ i = OtelAt
              /\ Chain[i] = "logging"  <=> i = LoggingAt
              /\ Chain[i] = "apiKey"   <=> i = LoggingAt + 1
              /\ i > RecoveryAt =>
                   Chain[i] # "ginRecovery" /\ (Chain[i] = "sentry" <=> conf.sentry /\ i = SentryAt)
  <1>. DEFINE s == One(conf.sentry)
              t == One(conf.tracing)
              k == One(req.route = "stats")
  <1>1. /\ s \in 0 .. 1 /\ (conf.sentry <=> s = 1)
        /\ t \in 0 .. 1 /\ (conf.tracing <=> t = 1)
        /\ k \in 0 .. 1 /\ (req.route = "stats" <=> k = 1)
    BY DEF One
  <1>2. /\ CorsAt = 3 + s /\ RecoveryAt = 5 + s /\ SentryAt = 6 + s
        /\ OtelAt = 6 + s + s /\ LoggingAt = 6 + s + s + t
    BY <1>1 DEF CorsAt, RecoveryAt, SentryAt, OtelAt, LoggingAt
  <1>3. /\ Chain \in Seq(Handlers) /\ Len(Chain) = 6 + s + s + t + k
        /\ Chain[1] = "ginLogger" /\ Chain[2] = "ginRecovery"
        /\ s = 1 => Chain[3] = "sentry"
        /\ Chain[3 + s] = "cors" /\ Chain[4 + s] = "ginRecovery" /\ Chain[5 + s] = "recovery"
        /\ s = 1 => Chain[6 + s] = "sentry"
        /\ t = 1 => Chain[6 + s + s] = "otel"
        /\ Chain[6 + s + s + t] = "logging"
        /\ k = 1 => Chain[6 + s + s + t + 1] = "apiKey"
    <2>1. CorsAt + 1 = 4 + s
      BY <1>1, <1>2
    <2>. QED BY <1>1, <1>2, <2>1, ChainLayout
  <1>. HIDE DEF s, t, k
  <1>4. \A i \in 1 .. Len(Chain) :
          \/ i = 1 \/ i = 2 \/ (s = 1 /\ i = 3) \/ i = 3 + s \/ i = 4 + s \/ i = 5 + s
          \/ (s = 1 /\ i = 6 + s) \/ (t = 1 /\ i = 6 + s + s) \/ i = 6 + s + s + t
          \/ (k = 1 /\ i = 6 + s + s + t + 1)
    BY <1>1, <1>3
  <1>5. ASSUME NEW i \in 1 .. Len(Chain)
        PROVE  /\ Chain[i] \in Handlers
               /\ Chain[i] = "cors"     <=> i = 3 + s
               /\ Chain[i] = "recovery" <=> i = 5 + s
               /\ Chain[i] = "otel"     <=> t = 1 /\ i = 6 + s + s
               /\ Chain[i] = "logging"  <=> i = 6 + s + s + t
               /\ Chain[i] = "apiKey"   <=> i = 6 + s + s + t + 1
               /\ i > 5 + s =>
                    Chain[i] # "ginRecovery" /\ (Chain[i] = "sentry" <=> s = 1 /\ i = 6 + s)
    <2>1. Chain[i] \in Handlers
      BY <1>3
    <2>2. CASE s = 0
      BY <1>1, <1>3, <1>4, <2>1, <2>2
    <2>3. CASE s = 1
      BY <1>1, <1>3, <1>4, <2>1, <2>3
    <2>. QED BY <1>1, <2>2, <2>3
  <1>6. Len(Chain) \in Nat /\ DOMAIN Chain = 1 .. Len(Chain)
    BY <1>3
  <1>7. Len(Chain) = LoggingAt + One(req.route = "stats")
    BY <1>2, <1>3 DEF k
  <1>. QED BY <1>1, <1>2, <1>5, <1>6, <1>7

LEMMA ChainStays ==
  ASSUME UNCHANGED <<conf, req>>
  PROVE  /\ Chain' = Chain
         /\ CorsAt' = CorsAt /\ RecoveryAt' = RecoveryAt /\ SentryAt' = SentryAt
         /\ OtelAt' = OtelAt /\ LoggingAt' = LoggingAt
  BY DEF Chain, Registered, Sentry, CorsAt, RecoveryAt, SentryAt, OtelAt, LoggingAt

-----------------------------------------------------------------------------
(* The request's way in and back out.                                       *)

Good ==
  /\ ~req.cut /\ Len(req.events) \in 1 .. MaxEvents
  /\ \A t \in ToSet(req.events) : WellFormed(t)

Codes == {200, 204, 401, 404, 422, 500}

Posts == {"create", "batch"}

Chosen == conf \in Configs /\ req \in Requests

\* On the way in nothing is written yet, the body is there until the handler
\* binds it, and the span is what the position says.
GoingIn ==
  /\ status = 0 /\ logs = <<>> /\ captured = 0
  /\ at \in 1 .. Len(Chain) + 1
  /\ step \in {"bind", "push", "answer"} /\ (step = "bind" => unread)
  /\ step # "bind" => at = Len(Chain) + 1 /\ req.route \in Posts /\ Good
  /\ req.route = "preflight" => at <= CorsAt
  /\ span <=> conf.provider /\ req.route \notin Quiet /\ at > OtelAt

\* A panic is between the handler and the inner recovery.
Panicking ==
  /\ step = "panicked" /\ status = 0 /\ logs = <<>>
  /\ at \in RecoveryAt .. Len(Chain) /\ req.route # "preflight"
  /\ captured = One(conf.client /\ at < SentryAt)
  /\ span => conf.provider /\ at >= OtelAt

\* A panic that RecoveryMiddleware has ended.
ComingBack ==
  /\ at \in 0 .. RecoveryAt - 1 /\ req.route # "preflight"
  /\ status = 500 /\ captured = One(conf.client) /\ ~span
  /\ logs = <<[kind |-> "panic", status |-> 500, traced |-> FALSE]>>

\* An answer of a handler or a middleware.
GoingOut ==
  LET silent == req.route \in Quiet \cup {"preflight"}
  IN  /\ at \in 0 .. Len(Chain) /\ status \in Codes /\ captured = 0
      /\ step \in {"bind", "push", "answer"}
      /\ req.route = "preflight" => at < CorsAt
      /\ logs = IF silent \/ at >= LoggingAt THEN <<>>
                ELSE <<[kind |-> "request", status |-> status, traced |-> conf.provider]>>
      /\ span <=> conf.provider /\ ~silent /\ at >= OtelAt
      /\ req.route \in Posts => status \in (IF Good THEN {200, 500} ELSE {422})

ControlInv ==
  /\ Chosen /\ unread \in BOOLEAN /\ span \in BOOLEAN
  /\ \/ way = "in" /\ GoingIn
     \/ way = "panic" /\ Panicking
     \/ way = "out" /\ step = "panicked" /\ ComingBack
     \/ way = "out" /\ GoingOut

LEMMA WellFormedDecodes ==
  ASSUME NEW t
  PROVE  WellFormed(t) <=> Unmarshals(t) /\ Required(Unmarshal(t))
  BY DEF WellFormed, Unmarshals, Required, Unmarshal, Given, IsInt64, Has

\* The validator refuses what BodyDecides calls ill-formed, and only that.
LEMMA RefusedWhenBad ==
  ASSUME Chosen, req.route \in Posts, unread
  PROVE  BindingFails <=> ~Good
  <1>1. /\ req.route = "create" => Len(req.events) = 1
        /\ MaxEvents \in Nat \ {0}
    BY RequestTypes, BatchAssumption DEF Chosen
  <1>2. (\E t \in ToSet(req.events) : ~(Unmarshals(t) /\ Required(Unmarshal(t))))
          <=> ~ \A t \in ToSet(req.events) : WellFormed(t)
    BY WellFormedDecodes
  <1>3. req.route # "batch" => Len(req.events) \in 1 .. MaxEvents
    <2>. HAVE req.route # "batch"
    <2>1. Len(req.events) = 1
      BY <1>1 DEF Posts
    <2>. QED BY <1>1, <2>1
  <1>. QED BY <1>2, <1>3 DEF BindingFails, Good, Posts

\* What a step leaves alone.
LEMMA RequestStays ==
  ASSUME Next, Chosen
  PROVE  /\ UNCHANGED <<conf, req>> /\ Chosen' /\ Good' = Good
         /\ Chain' = Chain /\ CorsAt' = CorsAt /\ RecoveryAt' = RecoveryAt
         /\ SentryAt' = SentryAt /\ OtelAt' = OtelAt /\ LoggingAt' = LoggingAt
  <1>1. UNCHANGED <<conf, req>>
    BY DEF Next, EnterSilent, EnterCors, EnterOtel, EnterLogging, EnterApiKey, Serve, Bind,
           Push, Accept, Panic, Leave, Unwind, Recover, Pop, Settle, chainVars
  <1>. QED BY <1>1, ChainStays DEF Chosen, Good

LEMMA ControlInit == Init => ControlInv
  <1>. SUFFICES ASSUME Init PROVE ControlInv
    OBVIOUS
  <1>1. Chosen
    BY DEF Init, Chosen
  <1>2. /\ Len(Chain) \in Nat /\ CorsAt \in 3 .. 4 /\ OtelAt \in Nat /\ OtelAt > 1
    BY <1>1, ChainFacts DEF Chosen
  <1>3. GoingIn
    BY <1>2 DEF Init, GoingIn
  <1>. QED BY <1>1, <1>3 DEF Init, ControlInv

LEMMA ControlStep ==
  ASSUME ControlInv, Next
  PROVE  ControlInv'
  <1>1. /\ UNCHANGED <<conf, req>> /\ Chosen /\ Chosen' /\ Good' = Good
        /\ Chain' = Chain /\ CorsAt' = CorsAt /\ RecoveryAt' = RecoveryAt
        /\ SentryAt' = SentryAt /\ OtelAt' = OtelAt /\ LoggingAt' = LoggingAt
    BY RequestStays DEF ControlInv
  <1>2. /\ Len(Chain) \in Nat /\ DOMAIN Chain = 1 .. Len(Chain)
        /\ CorsAt \in 3 .. 4 /\ RecoveryAt = CorsAt + 2 /\ SentryAt = RecoveryAt + 1
        /\ OtelAt \in Nat /\ LoggingAt \in Nat
        /\ OtelAt > RecoveryAt /\ LoggingAt >= OtelAt
        /\ conf.tracing => LoggingAt = OtelAt + 1
        /\ conf.sentry => OtelAt > SentryAt
        /\ Len(Chain) = LoggingAt + One(req.route = "stats")
    BY <1>1, ChainFacts DEF Chosen
  <1>3. IF req.route = "stats" THEN Len(Chain) = LoggingAt + 1 ELSE Len(Chain) = LoggingAt
    BY <1>2 DEF One
  <1>4. \A i \in 1 .. Len(Chain) :
          /\ Chain[i] \in Handlers
          /\ Chain[i] = "cors"     <=> i = CorsAt
          /\ Chain[i] = "recovery" <=> i = RecoveryAt
          /\ Chain[i] = "otel"     <=> conf.tracing /\ i = OtelAt
          /\ Chain[i] = "logging"  <=> i = LoggingAt
          /\ Chain[i] = "apiKey"   <=> i = LoggingAt + 1
          /\ i > RecoveryAt =>
               Chain[i] # "ginRecovery" /\ (Chain[i] = "sentry" <=> conf.sentry /\ i = SentryAt)
    BY <1>1, ChainFacts DEF Chosen
  <1>5. /\ conf.client \in BOOLEAN /\ conf.provider \in BOOLEAN
        /\ conf.sentry \in BOOLEAN /\ conf.tracing \in BOOLEAN
        /\ (conf.client => conf.sentry) /\ (conf.provider => conf.tracing)
        /\ unread \in BOOLEAN /\ span \in BOOLEAN
    BY DEF ControlInv, Chosen, Configs
  <1>6. way = "in" => GoingIn
    BY DEF ControlInv
  <1>7. CASE EnterSilent
    <2>1. /\ way = "in" /\ at \in 1 .. Len(Chain) /\ GoingIn
          /\ at' = at + 1 /\ way' = "in"
          /\ UNCHANGED <<span, status, logs, captured, step, unread>>
      BY <1>2, <1>6, <1>7 DEF EnterSilent, Entering, Deeper, bindVars
    <2>2. at # CorsAt /\ (conf.tracing => at # OtelAt)
      BY <1>2, <1>4, <1>7, <2>1 DEF EnterSilent, Entering, Silent
    <2>3. GoingIn'
      BY <1>1, <1>2, <1>5, <2>1, <2>2 DEF GoingIn
    <2>. QED BY <1>1, <1>5, <2>1, <2>3 DEF ControlInv
  <1>8. CASE EnterCors
    <2>1. /\ way = "in" /\ at = CorsAt /\ at \in 1 .. Len(Chain) /\ GoingIn
          /\ UNCHANGED <<span, logs, captured, step, unread>>
      BY <1>2, <1>4, <1>6, <1>8 DEF EnterCors, Entering, bindVars
    <2>2. CASE req.route = "preflight"
      <3>1. at' = at - 1 /\ way' = "out" /\ status' = 204
        BY <1>8, <2>2 DEF EnterCors, Answer, Back
      <3>2. GoingOut'
        BY <1>1, <1>2, <2>1, <2>2, <3>1 DEF GoingIn, GoingOut, Codes, Posts
      <3>. QED BY <1>1, <1>5, <2>1, <3>1, <3>2 DEF ControlInv
    <2>3. CASE req.route # "preflight"
      <3>1. at' = at + 1 /\ way' = "in" /\ status' = status
        BY <1>8, <2>1, <2>3 DEF EnterCors, Deeper
      <3>2. GoingIn'
        BY <1>1, <1>2, <1>5, <2>1, <2>3, <3>1 DEF GoingIn
      <3>. QED BY <1>1, <1>5, <2>1, <3>1, <3>2 DEF ControlInv
    <2>. QED BY <2>2, <2>3
  <1>9. CASE EnterOtel
    <2>1. /\ way = "in" /\ at = OtelAt /\ conf.tracing /\ at \in 1 .. Len(Chain) /\ GoingIn
          /\ at' = at + 1 /\ way' = "in" /\ span' = (conf.provider /\ req.route \notin Quiet)
          /\ UNCHANGED <<status, logs, captured, step, unread>>
      BY <1>2, <1>4, <1>6, <1>9 DEF EnterOtel, Entering, Deeper, bindVars
    <2>2. GoingIn'
      BY <1>1, <1>2, <1>5, <2>1 DEF GoingIn
    <2>. QED BY <1>1, <1>5, <2>1, <2>2 DEF ControlInv
  <1>10. CASE EnterLogging
    <2>1. /\ way = "in" /\ at = LoggingAt /\ at \in 1 .. Len(Chain) /\ GoingIn
          /\ at' = at + 1 /\ way' = "in"
          /\ UNCHANGED <<span, status, logs, captured, step, unread>>
      BY <1>2, <1>4, <1>6, <1>10 DEF EnterLogging, Entering, Deeper, Restored
    <2>2. GoingIn'
      BY <1>1, <1>2, <1>5, <2>1 DEF GoingIn
    <2>. QED BY <1>1, <1>5, <2>1, <2>2 DEF ControlInv
  <1>11. CASE EnterApiKey
    <2>1. /\ way = "in" /\ at = LoggingAt + 1 /\ at \in 1 .. Len(Chain) /\ GoingIn
          /\ UNCHANGED <<span, logs, captured, step, unread>>
      BY <1>2, <1>4, <1>6, <1>11 DEF EnterApiKey, Entering, bindVars
    <2>2. req.route = "stats" /\ at = Len(Chain) /\ step = "bind"
      BY <1>2, <1>3, <2>1 DEF GoingIn
    <2>3. CASE req.keyed
      <3>1. at' = at + 1 /\ way' = "in" /\ status' = status
        BY <1>11, <2>1, <2>3 DEF EnterApiKey, Deeper
      <3>2. GoingIn'
        BY <1>1, <1>2, <1>5, <2>1, <2>2, <3>1 DEF GoingIn
      <3>. QED BY <1>1, <1>5, <2>1, <3>1, <3>2 DEF ControlInv
    <2>4. CASE ~req.keyed
      <3>1. at' = at - 1 /\ way' = "out" /\ status' = 401
        BY <1>11, <2>4 DEF EnterApiKey, Answer, Back
      <3>2. GoingOut'
        BY <1>1, <1>2, <1>5, <2>1, <2>2, <3>1 DEF GoingIn, GoingOut, Codes, Posts, Quiet
      <3>. QED BY <1>1, <1>5, <2>1, <3>1, <3>2 DEF ControlInv
    <2>. QED BY <2>3, <2>4
  <1>12. CASE Serve
    <2>1. /\ way = "in" /\ at = Len(Chain) + 1 /\ GoingIn
          /\ req.route \in Quiet \cup {"stats", "other"}
          /\ at' = at - 1 /\ way' = "out" /\ status' \in Codes
          /\ UNCHANGED <<span, logs, captured, step, unread>>
      BY <1>6, <1>12 DEF Serve, Handling, Answers, Answer, Back, bindVars, Quiet, Codes
    <2>2. GoingOut'
      BY <1>1, <1>2, <1>3, <1>5, <2>1 DEF GoingIn, GoingOut, Posts, Quiet
    <2>. QED BY <1>1, <1>5, <2>1, <2>2 DEF ControlInv
  <1>13. CASE Bind
    <2>1. /\ way = "in" /\ at = Len(Chain) + 1 /\ GoingIn /\ req.route \in Posts
          /\ step = "bind" /\ unread' = FALSE
          /\ UNCHANGED <<span, logs, captured>>
      BY <1>6, <1>13 DEF Bind, Handling, Posts
    <2>2. BindingFails <=> ~Good
      BY <1>1, <2>1, RefusedWhenBad DEF GoingIn
    <2>3. CASE Good
      <3>1. at' = at /\ way' = "in" /\ status' = status /\ step' = "push"
        BY <1>13, <2>1, <2>2, <2>3 DEF Bind
      <3>2. GoingIn'
        BY <1>1, <1>2, <1>5, <2>1, <2>3, <3>1 DEF GoingIn
      <3>. QED BY <1>1, <1>5, <2>1, <3>1, <3>2 DEF ControlInv
    <2>4. CASE ~Good
      <3>1. at' = at - 1 /\ way' = "out" /\ status' = 422 /\ step' = step
        BY <1>13, <2>2, <2>4 DEF Bind, Answer, Back
      <3>2. GoingOut'
        BY <1>1, <1>2, <1>3, <1>5, <2>1, <2>4, <3>1 DEF GoingIn, GoingOut, Codes, Posts, Quiet
      <3>. QED BY <1>1, <1>5, <2>1, <3>1, <3>2 DEF ControlInv
    <2>. QED BY <2>3, <2>4
  <1>14. ASSUME way = "in", at = Len(Chain) + 1, step \in {"push", "answer"},
                at' = at - 1, way' = "out", status' \in {200, 500},
                UNCHANGED <<span, logs, captured, step, unread>>
         PROVE  ControlInv'
    <2>1. GoingIn /\ req.route \in Posts /\ Good
      BY <1>6, <1>14 DEF GoingIn
    <2>2. GoingOut'
      BY <1>1, <1>2, <1>3, <1>5, <1>14, <2>1 DEF GoingIn, GoingOut, Codes, Posts, Quiet
    <2>. QED BY <1>1, <1>5, <1>14, <2>2 DEF ControlInv
  <1>15. CASE Push
    <2>1. /\ way = "in" /\ at = Len(Chain) + 1 /\ step = "push" /\ GoingIn
          /\ UNCHANGED <<span, logs, captured, unread>>
      BY <1>6, <1>15 DEF Push, Handling
    <2>2. CASE step' = "answer" /\ UNCHANGED <<at, way, status>>
      <3>1. GoingIn'
        BY <1>1, <1>2, <1>5, <2>1, <2>2 DEF GoingIn
      <3>. QED BY <1>1, <1>5, <2>1, <2>2, <3>1 DEF ControlInv
    <2>3. CASE Answer(500) /\ UNCHANGED step
      BY <1>14, <2>1, <2>3 DEF Answer, Back
    <2>. QED BY <1>15, <2>2, <2>3 DEF Push
  <1>16. CASE Accept
    BY <1>14, <1>16 DEF Accept, Handling, Answer, Back, bindVars
  <1>17. CASE Panic
    <2>1. /\ way = "in" /\ at = Len(Chain) + 1 /\ GoingIn /\ step' = "panicked"
          /\ at' = at - 1 /\ way' = "panic"
          /\ UNCHANGED <<span, status, logs, captured, unread>>
      BY <1>6, <1>17 DEF Panic, Handling
    <2>2. ~(conf.client /\ at' < SentryAt) /\ at' >= OtelAt /\ at' >= RecoveryAt
      BY <1>2, <1>3, <2>1
    <2>3. captured' = One(conf.client /\ at < SentryAt)'
      BY <1>1, <2>1, <2>2 DEF GoingIn, One
    <2>4. Panicking'
      BY <1>1, <1>2, <1>5, <2>1, <2>2, <2>3 DEF GoingIn, Panicking
    <2>. QED BY <1>1, <1>5, <2>1, <2>4 DEF ControlInv
  <1>18. CASE Leave
    <2>1. /\ way = "out" /\ at > 0 /\ at' = at - 1 /\ way' = "out"
          /\ span' \in BOOLEAN /\ (span' <=> span /\ Chain[at] # "otel")
          /\ UNCHANGED <<status, captured, step, unread>>
      BY <1>18 DEF Leave, Leaving, Back, bindVars
    <2>2. CASE step = "panicked" /\ ComingBack
      <3>1. at \in 1 .. Len(Chain) /\ at < LoggingAt
        BY <1>2, <1>3, <2>1, <2>2 DEF ComingBack
      <3>2. logs' = logs
        BY <1>4, <1>18, <3>1 DEF Leave
      <3>3. ComingBack'
        BY <1>1, <1>2, <2>1, <2>2, <3>2 DEF ComingBack
      <3>. QED BY <1>1, <1>5, <2>1, <2>2, <3>3 DEF ControlInv
    <2>3. CASE GoingOut
      <3>1. /\ at \in 1 .. Len(Chain)
            /\ Chain[at] = "logging" <=> at = LoggingAt
            /\ Chain[at] = "otel" <=> conf.tracing /\ at = OtelAt
        BY <1>2, <1>4, <2>1, <2>3 DEF GoingOut
      <3>2. span' <=> conf.provider /\ req.route \notin Quiet \cup {"preflight"} /\ at' >= OtelAt
        BY <1>2, <1>5, <2>1, <2>3, <3>1 DEF GoingOut
      <3>3. CASE at = LoggingAt /\ req.route \notin Quiet
        <4>1. /\ logs = <<>> /\ span = conf.provider /\ req.route # "preflight"
          BY <1>2, <1>5, <2>3, <3>3 DEF GoingOut
        <4>2. logs' = <<[kind |-> "request", status |-> status, traced |-> conf.provider]>>
          BY <1>18, <3>1, <3>3, <4>1 DEF Leave
        <4>3. GoingOut'
          BY <1>1, <1>2, <2>1, <2>3, <3>1, <3>2, <3>3, <4>1, <4>2 DEF GoingOut
        <4>. QED BY <1>1, <1>5, <2>1, <4>3 DEF ControlInv
      <3>4. CASE at # LoggingAt \/ req.route \in Quiet
        <4>1. logs' = logs
          BY <1>18, <3>1, <3>4 DEF Leave
        <4>2. GoingOut'
          BY <1>1, <1>2, <2>1, <2>3, <3>1, <3>2, <3>4, <4>1 DEF GoingOut
        <4>. QED BY <1>1, <1>5, <2>1, <4>2 DEF ControlInv
      <3>. QED BY <3>3, <3>4
    <2>. QED BY <2>1, <2>2, <2>3 DEF ControlInv
  <1>19. CASE Unwind
    <2>1. /\ way = "panic" /\ Panicking /\ at' = at - 1 /\ way' = "panic"
          /\ span' \in BOOLEAN /\ (span' <=> span /\ Chain[at] # "otel")
          /\ captured' = captured + (IF Chain[at] = "sentry" /\ conf.client THEN 1 ELSE 0)
          /\ UNCHANGED <<status, logs, step, unread>>
      BY <1>19 DEF Unwind, Unwinding, ControlInv, bindVars
    <2>2. at \in RecoveryAt + 1 .. Len(Chain)
      <3>1. at \in RecoveryAt .. Len(Chain) /\ at \in 1 .. Len(Chain)
        BY <1>2, <2>1 DEF Panicking
      <3>2. Chain[at] # "recovery"
        BY <1>19 DEF Unwind, Unwinding
      <3>. QED BY <1>2, <1>4, <3>1, <3>2
    <2>3. /\ at \in 1 .. Len(Chain)
          /\ Chain[at] = "otel" <=> conf.tracing /\ at = OtelAt
          /\ Chain[at] = "sentry" <=> conf.sentry /\ at = SentryAt
      BY <1>2, <1>4, <2>2
    <2>4. captured' = One(conf.client /\ at' < SentryAt)
      BY <1>2, <1>5, <2>1, <2>2, <2>3 DEF Panicking, One
    <2>5. span' => conf.provider /\ at' >= OtelAt
      BY <1>2, <1>5, <2>1, <2>2, <2>3 DEF Panicking
    <2>6. Panicking'
      <3>1. One(conf.client /\ at < SentryAt)' = One(conf.client /\ at' < SentryAt)
        BY <1>1 DEF One
      <3>. QED BY <1>1, <1>2, <2>1, <2>2, <2>4, <2>5, <3>1 DEF Panicking
    <2>. QED BY <1>1, <1>5, <2>1, <2>6 DEF ControlInv
  <1>20. CASE Recover
    <2>1. /\ way = "panic" /\ Panicking /\ at' = at - 1 /\ way' = "out" /\ status' = 500
          /\ Chain[at] \in {"recovery", "ginRecovery"}
          /\ UNCHANGED <<span, captured, step, unread>>
      BY <1>20 DEF Recover, Unwinding, ControlInv, Answer, Back, bindVars
    <2>2. at \in RecoveryAt .. Len(Chain) /\ at \in 1 .. Len(Chain)
      BY <1>2, <2>1 DEF Panicking
    <2>3. at = RecoveryAt /\ Chain[at] = "recovery"
      BY <1>2, <1>4, <2>1, <2>2
    <2>4. captured = One(conf.client) /\ ~span
      BY <1>2, <1>5, <2>1, <2>3 DEF Panicking, One
    <2>5. logs' = <<[kind |-> "panic", status |-> 500, traced |-> FALSE]>>
      BY <1>20, <2>1, <2>3 DEF Recover, Panicking
    <2>6. ComingBack'
      BY <1>1, <1>2, <2>1, <2>3, <2>4, <2>5 DEF Panicking, ComingBack, One
    <2>. QED BY <1>1, <1>5, <2>1, <2>6 DEF ControlInv, Panicking
  <1>21. CASE Pop \/ Settle
    <2>1. UNCHANGED <<chainVars, bindVars>>
      BY <1>21 DEF Pop, Settle
    <2>2. /\ GoingIn => GoingIn'
          /\ Panicking => Panicking'
          /\ ComingBack => ComingBack'
          /\ GoingOut => GoingOut'
      <3>1. UNCHANGED <<at, way, span, status, logs, captured, step, unread>>
        BY <2>1 DEF chainVars, bindVars
      <3>2. One(conf.client)' = One(conf.client)
            /\ One(conf.client /\ at < SentryAt)' = One(conf.client /\ at < SentryAt)
        BY <1>1, <3>1 DEF One
      <3>. QED BY <1>1, <3>1, <3>2 DEF GoingIn, Panicking, ComingBack, GoingOut
    <2>3. way' = way /\ step' = step /\ unread' = unread /\ span' = span
      BY <2>1 DEF chainVars, bindVars
    <2>4. CASE way = "in" /\ GoingIn
      BY <1>1, <1>5, <2>2, <2>3, <2>4 DEF ControlInv
    <2>5. CASE way = "panic" /\ Panicking
      BY <1>1, <1>5, <2>2, <2>3, <2>5 DEF ControlInv
    <2>6. CASE way = "out" /\ step = "panicked" /\ ComingBack
      BY <1>1, <1>5, <2>2, <2>3, <2>6 DEF ControlInv
    <2>7. CASE way = "out" /\ GoingOut
      BY <1>1, <1>5, <2>2, <2>3, <2>7 DEF ControlInv
    <2>. QED BY <2>4, <2>5, <2>6, <2>7 DEF ControlInv
  <1>. QED
    BY <1>7, <1>8, <1>9, <1>10, <1>11, <1>12, <1>13, <1>14, <1>15, <1>16, <1>17, <1>18, <1>19,
       <1>20, <1>21 DEF Next

LEMMA AlwaysControlInv == Spec => []ControlInv
  <1>1. ControlInv /\ UNCHANGED vars => ControlInv'
    <2>. SUFFICES ASSUME ControlInv, UNCHANGED vars PROVE ControlInv'
      OBVIOUS
    <2>1. /\ UNCHANGED <<conf, req>> /\ UNCHANGED <<at, status, logs, captured>>
          /\ way' = way /\ step' = step /\ unread' = unread /\ span' = span
      BY DEF vars, chainVars, bindVars
    <2>2. /\ Chosen' /\ Good' = Good /\ Chain' = Chain
          /\ CorsAt' = CorsAt /\ RecoveryAt' = RecoveryAt
          /\ SentryAt' = SentryAt /\ OtelAt' = OtelAt /\ LoggingAt' = LoggingAt
      BY <2>1, ChainStays DEF ControlInv, Chosen, Good
    <2>3. One(conf.client)' = One(conf.client)
          /\ One(conf.client /\ at < SentryAt)' = One(conf.client /\ at < SentryAt)
      BY <2>1, <2>2 DEF One
    <2>4. /\ GoingIn => GoingIn'
          /\ Panicking => Panicking'
          /\ ComingBack => ComingBack'
          /\ GoingOut => GoingOut'
      BY <2>1, <2>2, <2>3 DEF GoingIn, Panicking, ComingBack, GoingOut
    <2>. QED BY <2>1, <2>2, <2>4 DEF ControlInv
  <1>. QED BY <1>1, ControlInit, ControlStep, PTL DEF Spec

\* When the answer leaves the chain, the invariant's two ways out are all there is.
LEMMA AnsweredWays ==
  ASSUME ControlInv, Answered
  PROVE  /\ conf.client \in BOOLEAN /\ conf.provider \in BOOLEAN
         /\ 0 < LoggingAt
         /\ \/ step = "panicked" /\ ComingBack
            \/ step # "panicked" /\ GoingOut
  <1>1. conf.client \in BOOLEAN /\ conf.provider \in BOOLEAN /\ 0 < LoggingAt
    BY ChainFacts DEF ControlInv, Chosen, Configs
  <1>. QED BY <1>1 DEF ControlInv, Answered, GoingOut

\* With Sentry and tracing on, off or enabled without having started, a panic is
\* answered 500 by the inner recovery and reaches a Sentry client that is there
\* once, although both are registered twice; where there is none it is reported
\* by nobody (httpserver.go:28-32, http_start.go:87-95, observability.go:119-130).
THEOREM PanicsAreReported == Spec => []PanicIsReported
  <1>1. ControlInv => PanicIsReported
    BY AnsweredWays DEF PanicIsReported, ComingBack, One
  <1>. QED BY <1>1, AlwaysControlInv, PTL

\* One record for each request that is to be logged, with the status of the
\* answer and, only if a tracer provider was set, the span of the request, and
\* none for the others, however the handler ends (http_start.go:88-101,
\* logging_middleware.go:39-74,80-86, observability.go:87-100).
THEOREM EachIsLoggedOnce == Spec => []LoggedOnce
  <1>1. ASSUME ControlInv, Answered, step = "panicked"
        PROVE  LoggedOnce
    <2>1. ComingBack
      BY <1>1, AnsweredWays
    <2>. QED BY <1>1, <2>1 DEF LoggedOnce, ComingBack
  <1>2. ASSUME ControlInv, Answered, step # "panicked"
        PROVE  LoggedOnce
    <2>1. GoingOut /\ 0 < LoggingAt /\ at = 0 /\ conf.provider \in BOOLEAN
      BY <1>2, AnsweredWays DEF Answered
    <2>2. CASE req.route \in Quiet \cup {"preflight"}
      BY <1>2, <2>1, <2>2 DEF LoggedOnce, GoingOut
    <2>3. CASE req.route \notin Quiet \cup {"preflight"}
      BY <1>2, <2>1, <2>3, ChainFacts DEF LoggedOnce, GoingOut, ControlInv, Chosen
    <2>. QED BY <2>2, <2>3
  <1>3. ControlInv => LoggedOnce
    BY <1>1, <1>2 DEF LoggedOnce
  <1>. QED BY <1>3, AlwaysControlInv, PTL

\* Whatever the middleware does on the way, the body alone decides between 422
\* and the rest, for every JSON object a client may send and every batch
\* (logging_middleware.go:29-37, tracking_event_handler.go:38-43,57-62).
THEOREM BodyAloneDecides == Spec => []BodyDecides
  <1>1. ControlInv => BodyDecides
    BY AnsweredWays DEF BodyDecides, GoingOut, Good, Posts
  <1>. QED BY <1>1, AlwaysControlInv, PTL

-----------------------------------------------------------------------------
(* Numbers, values and maps through JSON.                                   *)

LEMMA FloatIsNearest ==
  ASSUME NEW n \in -2 * Exact .. 2 * Exact
  PROVE  /\ Float64(n) \in -2 * Exact .. 2 * Exact
         /\ Float64(Float64(n)) = Float64(n)
         /\ Nearest(Float64(n), n)
  BY ExactAssumption DEF Float64, Nearest, IsFloat

\* The three kinds of leaves.
LEMMA LeafKinds ==
  ASSUME NEW v \in Leaves
  PROVE  \/ /\ Has(v, "num") /\ ~Has(v, "str") /\ ~Has(v, "obj")
            /\ v.num \in -2 * Exact .. 2 * Exact /\ v = [num |-> v.num]
         \/ /\ Has(v, "str") /\ ~Has(v, "num") /\ ~Has(v, "obj")
            /\ v.str \in STRING /\ v = [str |-> v.str]
         \/ v = Null /\ ~Has(v, "num") /\ ~Has(v, "str") /\ ~Has(v, "obj")
  <1>1. CASE v \in [{"num"} -> -2 * Exact .. 2 * Exact]
    <2>1. v \in [{"num"} -> Int]
      BY <1>1, ExactAssumption
    <2>. QED BY <1>1, <2>1, NullAssumption DEF Has
  <1>2. CASE v \in [{"str"} -> STRING]
    BY <1>2, NullAssumption DEF Has
  <1>3. CASE v = Null
    BY <1>3 DEF Has
  <1>. QED BY <1>1, <1>2, <1>3 DEF Leaves

LEMMA FloatLeafIsKept ==
  ASSUME NEW v \in Leaves
  PROVE  /\ FloatLeaf(v) \in Leaves
         /\ FloatLeaf(FloatLeaf(v)) = FloatLeaf(v)
         /\ FloatValue(v) = FloatLeaf(v) /\ FloatValue(FloatLeaf(v)) = FloatLeaf(v)
         /\ LeafKept(FloatLeaf(v), v) /\ ValueKept(FloatValue(v), v)
  <1>1. CASE Has(v, "num")
    <2>. DEFINE n == v.num
                w == [num |-> Float64(n)]
    <2>1. n \in -2 * Exact .. 2 * Exact /\ ~Has(v, "obj")
      BY <1>1, LeafKinds
    <2>. HIDE DEF n
    <2>2. /\ Float64(n) \in -2 * Exact .. 2 * Exact
          /\ Float64(Float64(n)) = Float64(n)
          /\ Nearest(Float64(n), n)
      BY <2>1, FloatIsNearest
    <2>3. w \in Leaves
      BY <2>2 DEF Leaves
    <2>4. FloatLeaf(v) = w
      BY <1>1 DEF FloatLeaf, n
    <2>5. Has(w, "num") /\ ~Has(w, "obj") /\ w.num = Float64(n)
      <3>1. w \in [{"num"} -> Int]
        BY <2>2, ExactAssumption
      <3>2. w # Null
        BY <3>1, NullAssumption
      <3>. QED BY <3>2 DEF Has
    <2>6. FloatLeaf(w) = w
      BY <2>2, <2>5 DEF FloatLeaf
    <2>7. FloatValue(v) = w /\ FloatValue(w) = w
      BY <2>1, <2>4, <2>5, <2>6 DEF FloatValue
    <2>8. LeafKept(w, v) /\ ValueKept(w, v)
      BY <1>1, <2>1, <2>2, <2>5 DEF LeafKept, ValueKept, n
    <2>. QED BY <2>3, <2>4, <2>6, <2>7, <2>8
  <1>2. CASE ~Has(v, "num")
    <2>1. ~Has(v, "obj")
      BY <1>2, LeafKinds
    <2>. QED BY <1>2, <2>1 DEF FloatLeaf, FloatValue, LeafKept, ValueKept
  <1>. QED BY <1>1, <1>2

\* A value as a map[string]interface{} holds it.
Values == Leaves \cup [{"obj"} -> Nested]

LEMMA ObjectKind ==
  ASSUME NEW f \in Nested
  PROVE  /\ [obj |-> f] \in [{"obj"} -> Nested] /\ [obj |-> f] # Null
         /\ Has([obj |-> f], "obj") /\ [obj |-> f].obj = f
  <1>1. f \in Objects
    BY DEF Nested, Objects
  <1>2. [obj |-> f] \in [{"obj"} -> Objects]
    BY <1>1
  <1>. QED BY <1>2, NullAssumption DEF Has

LEMMA FloatValueIsKept ==
  ASSUME NEW v, v \in Leaves \/ (Has(v, "obj") /\ IsNested(v.obj))
  PROVE  /\ FloatValue(v) \in Values
         /\ FloatValue(FloatValue(v)) = FloatValue(v)
         /\ ValueKept(FloatValue(v), v)
  <1>1. CASE v \in Leaves
    BY <1>1, FloatLeafIsKept DEF Values
  <1>2. CASE Has(v, "obj") /\ IsNested(v.obj)
    <2>. DEFINE f == v.obj
                g == [k \in DOMAIN f |-> FloatLeaf(f[k])]
                w == [obj |-> g]
    <2>1. /\ DOMAIN f \subseteq Names
          /\ \A k \in DOMAIN f : f[k] \in Leaves
      BY <1>2 DEF IsNested
    <2>. HIDE DEF f
    <2>2. \A k \in DOMAIN f : /\ FloatLeaf(f[k]) \in Leaves
                              /\ FloatLeaf(FloatLeaf(f[k])) = FloatLeaf(f[k])
                              /\ LeafKept(FloatLeaf(f[k]), f[k])
      BY <2>1, FloatLeafIsKept
    <2>3. g \in Nested /\ DOMAIN g = DOMAIN f
      BY <2>1, <2>2 DEF Nested
    <2>4. w \in [{"obj"} -> Nested] /\ Has(w, "obj") /\ w.obj = g
      BY <2>3, ObjectKind
    <2>5. FloatValue(v) = w
      BY <1>2 DEF FloatValue, f
    <2>6. [k \in DOMAIN g |-> FloatLeaf(g[k])] = g
      BY <2>2
    <2>7. FloatValue(w) = w
      BY <2>4, <2>6 DEF FloatValue
    <2>8. ValueKept(w, v)
      <3>1. \A k \in DOMAIN f : LeafKept(w.obj[k], f[k])
        BY <2>2, <2>4
      <3>. QED BY <1>2, <2>3, <2>4, <3>1 DEF ValueKept, f
    <2>. QED BY <2>4, <2>5, <2>7, <2>8 DEF Values
  <1>. QED BY <1>1, <1>2

\* What json.Unmarshal leaves in a map: another trip changes nothing.
Settled == {g \in Objects : FloatMap(g) = g}

LEMMA IsSettled ==
  ASSUME NEW N \in SUBSET Names, NEW g, g = [k \in N |-> g[k]],
         \A k \in N : g[k] \in Values /\ FloatValue(g[k]) = g[k]
  PROVE  g \in Settled
  <1>1. DOMAIN g = N /\ g \in [N -> Values]
    OBVIOUS
  <1>2. g \in Objects
    BY <1>1 DEF Objects, Values
  <1>. QED BY <1>1, <1>2 DEF Settled, FloatMap

LEMMA SettledValues ==
  ASSUME NEW g \in Settled
  PROVE  /\ DOMAIN g \in SUBSET Names /\ g = [k \in DOMAIN g |-> g[k]]
         /\ \A k \in DOMAIN g : g[k] \in Values /\ FloatValue(g[k]) = g[k]
  <1>1. PICK N \in SUBSET Names : g \in [N -> Values]
    BY DEF Settled, Objects, Values
  <1>2. FloatMap(g) = g
    BY DEF Settled
  <1>. QED BY <1>1, <1>2 DEF FloatMap

LEMMA FloatMapSettles ==
  ASSUME NEW f, IsObject(f)
  PROVE  /\ FloatMap(f) \in Settled /\ DOMAIN FloatMap(f) = DOMAIN f
         /\ \A k \in DOMAIN f : ValueKept(FloatMap(f)[k], f[k])
  <1>1. /\ DOMAIN f \subseteq Names
        /\ \A k \in DOMAIN f : f[k] \in Leaves \/ (Has(f[k], "obj") /\ IsNested(f[k].obj))
    BY DEF IsObject
  <1>2. \A k \in DOMAIN f : /\ FloatValue(f[k]) \in Values
                            /\ FloatValue(FloatValue(f[k])) = FloatValue(f[k])
                            /\ ValueKept(FloatValue(f[k]), f[k])
    BY <1>1, FloatValueIsKept
  <1>. DEFINE g == FloatMap(f)
  <1>3. /\ g = [k \in DOMAIN f |-> g[k]] /\ DOMAIN g = DOMAIN f
        /\ \A k \in DOMAIN f : g[k] = FloatValue(f[k])
    BY DEF FloatMap
  <1>. HIDE DEF g
  <1>4. g \in Settled
    BY <1>1, <1>2, <1>3, IsSettled
  <1>. QED BY <1>2, <1>3, <1>4 DEF g

LEMMA EmptySettled == <<>> \in Settled /\ DOMAIN <<>> = {}
  <1>1. <<>> = [k \in {} |-> <<>>[k]]
    OBVIOUS
  <1>. QED BY <1>1, IsSettled

LEMMA RestrictSettles ==
  ASSUME NEW g \in Settled, NEW S
  PROVE  /\ Restrict(g, DOMAIN g \ S) \in Settled
         /\ DOMAIN Restrict(g, DOMAIN g \ S) = DOMAIN g \ S
         /\ \A k \in DOMAIN g \ S : Restrict(g, DOMAIN g \ S)[k] = g[k]
  <1>. DEFINE N == DOMAIN g \ S
              h == Restrict(g, N)
  <1>1. /\ h = [k \in N |-> h[k]] /\ DOMAIN h = N
        /\ \A k \in N : h[k] = g[k]
    BY DEF Restrict
  <1>. HIDE DEF h
  <1>2. h \in Settled
    BY <1>1, SettledValues, IsSettled
  <1>. QED BY <1>1, <1>2 DEF h

Server == FromServer(ClientIP, Agent)

LEMMA OverSettles ==
  ASSUME NEW g \in Settled
  PROVE  /\ Over(Server, g) \in Settled
         /\ DOMAIN Over(Server, g) = DOMAIN g \cup {"ip", "user_agent"}
         /\ Over(Server, g)["ip"] = [str |-> ClientIP]
         /\ Over(Server, g)["user_agent"] = [str |-> Agent]
         /\ \A k \in DOMAIN g \ {"ip", "user_agent"} : Over(Server, g)[k] = g[k]
  <1>. DEFINE N == DOMAIN g \cup {"ip", "user_agent"}
              h == Over(Server, g)
  <1>1. /\ DOMAIN Server = {"ip", "user_agent"}
        /\ Server["ip"] = [str |-> ClientIP] /\ Server["user_agent"] = [str |-> Agent]
    BY DEF Server, FromServer
  <1>2. /\ h = [k \in N |-> h[k]] /\ DOMAIN h = N
        /\ h["ip"] = [str |-> ClientIP] /\ h["user_agent"] = [str |-> Agent]
        /\ \A k \in DOMAIN g \ {"ip", "user_agent"} : h[k] = g[k]
    BY <1>1 DEF Over
  <1>. HIDE DEF h
  <1>3. ASSUME NEW s \in STRING
        PROVE  [str |-> s] \in Values /\ FloatValue([str |-> s]) = [str |-> s]
    <2>1. [str |-> s] \in Leaves
      BY DEF Leaves
    <2>2. ~Has([str |-> s], "num") /\ ~Has([str |-> s], "obj")
      BY <2>1 DEF Has
    <2>. QED BY <2>1, <2>2 DEF Values, FloatValue, FloatLeaf
  <1>4. \A k \in N : h[k] \in Values /\ FloatValue(h[k]) = h[k]
    BY <1>2, <1>3, SettledValues, ServerAssumption
  <1>5. N \in SUBSET Names
    BY SettledValues, NamesAssumption
  <1>6. h \in Settled
    BY <1>2, <1>4, <1>5, IsSettled
  <1>. QED BY <1>2, <1>6 DEF h

-----------------------------------------------------------------------------
(* The struct through JSON.                                                 *)

Ids == -MaxInt64 - 1 .. MaxInt64

\* The structs the program can hold.
Dtos == [event : STRING, user_id : Ids, batch_id : Ids \cup {Null},
         properties : Settled, meta_data : Settled, occurred_at : STRING \cup {Null}]

LEMMA TextFields ==
  ASSUME NEW t, IsText(t), NEW name \in DOMAIN t
  PROVE  /\ Has(t[name], "str") => t[name].str \in STRING
         /\ Has(t[name], "obj") => IsObject(t[name].obj)
  <1>1. CASE t[name] \in Leaves
    <2>. DEFINE v == t[name]
    <2>1. v \in Leaves
      BY <1>1
    <2>. HIDE DEF v
    <2>2. (Has(v, "str") => v.str \in STRING) /\ ~Has(v, "obj")
      BY <2>1, LeafKinds
    <2>. QED BY <2>2 DEF v
  <1>2. CASE t[name] \in [{"num"} -> Int]
    BY <1>2 DEF Has
  <1>3. CASE Has(t[name], "obj") /\ DOMAIN t[name] = {"obj"} /\ IsObject(t[name].obj)
    BY <1>3 DEF Has
  <1>. QED BY <1>1, <1>2, <1>3 DEF IsText

LEMMA UnmarshalTypes ==
  ASSUME NEW t, IsText(t), Unmarshals(t), Required(Unmarshal(t))
  PROVE  /\ Unmarshal(t) \in Dtos
         /\ \A name \in {"properties", "meta_data"} :
              /\ DOMAIN Unmarshal(t)[name] = DOMAIN Sent(t, name)
              /\ \A k \in DOMAIN Sent(t, name) :
                   ValueKept(Unmarshal(t)[name][k], Sent(t, name)[k])
  <1>. DEFINE Object(name) == IF Given(t, name) THEN FloatMap(t[name].obj) ELSE <<>>
              d == Unmarshal(t)
  <1>1. ASSUME NEW name \in {"properties", "meta_data"}
        PROVE  /\ Object(name) \in Settled
               /\ DOMAIN Object(name) = DOMAIN Sent(t, name)
               /\ \A k \in DOMAIN Sent(t, name) : ValueKept(Object(name)[k], Sent(t, name)[k])
    <2>1. CASE Given(t, name)
      <3>1. Has(t[name], "obj") /\ name \in DOMAIN t
        BY <2>1 DEF Unmarshals, Given
      <3>2. IsObject(t[name].obj)
        BY <3>1, TextFields
      <3>3. Sent(t, name) = t[name].obj /\ Object(name) = FloatMap(t[name].obj)
        BY <2>1 DEF Sent, Given
      <3>. QED BY <3>2, <3>3, FloatMapSettles
    <2>2. CASE ~Given(t, name)
      <3>1. Sent(t, name) = <<>> /\ Object(name) = <<>>
        BY <2>2 DEF Sent, Given
      <3>. QED BY <3>1, EmptySettled
    <2>. QED BY <2>1, <2>2
  <1>2. d.properties = Object("properties") /\ d.meta_data = Object("meta_data")
    BY DEF Unmarshal
  <1>3. d.event \in STRING /\ d.occurred_at \in STRING \cup {Null}
    <2>1. ASSUME NEW name \in {"event", "occurred_at"}, Given(t, name)
          PROVE  t[name].str \in STRING
      <3>1. name \in DOMAIN t /\ Has(t[name], "str")
        BY <2>1 DEF Unmarshals, Given
      <3>. QED BY <3>1, TextFields
    <2>2. /\ Given(t, "event") => t.event.str \in STRING
          /\ Given(t, "occurred_at") => t.occurred_at.str \in STRING
      BY <2>1
    <2>3. /\ d.event = IF Given(t, "event") THEN t.event.str ELSE ""
          /\ d.occurred_at = IF Given(t, "occurred_at") THEN t.occurred_at.str ELSE Null
      BY DEF Unmarshal
    <2>. HIDE DEF d
    <2>4. d.event \in STRING
      <3>1. d.event # ""
        BY DEF Required, d
      <3>. QED BY <2>2, <2>3, <3>1
    <2>5. d.occurred_at \in STRING \cup {Null}
      BY <2>2, <2>3
    <2>. QED BY <2>4, <2>5
  <1>4. d.user_id \in Ids /\ d.batch_id \in Ids \cup {Null}
    <2>1. \A name \in {"user_id", "batch_id"} : Given(t, name) => t[name].num \in Ids
      BY DEF Unmarshals, IsInt64, Ids
    <2>2. 0 \in Ids
      BY Int64Assumption DEF Ids
    <2>. QED BY <2>1, <2>2 DEF Unmarshal
  <1>5. d = [event |-> d.event, user_id |-> d.user_id, batch_id |-> d.batch_id,
             properties |-> d.properties, meta_data |-> d.meta_data,
             occurred_at |-> d.occurred_at]
    BY DEF Unmarshal
  <1>. HIDE DEF d, Object
  <1>6. d \in Dtos
    BY <1>1, <1>2, <1>3, <1>4, <1>5 DEF Dtos
  <1>7. d["properties"] = Object("properties") /\ d["meta_data"] = Object("meta_data")
    BY <1>2
  <1>. QED BY <1>1, <1>6, <1>7 DEF d

LEMMA Encodings ==
  /\ \A s \in STRING : /\ [str |-> s] # Null /\ Has([str |-> s], "str")
                       /\ [str |-> s].str = s
  /\ \A n \in Ids : /\ [num |-> n] # Null /\ IsInt64([num |-> n])
                    /\ [num |-> n].num = n /\ n # Null
  /\ \A f \in Settled : /\ [obj |-> f] # Null /\ Has([obj |-> f], "obj")
                        /\ [obj |-> f].obj = f
  <1>1. ASSUME NEW s \in STRING PROVE [str |-> s] # Null
    <2>1. [str |-> s] \in [{"str"} -> STRING]
      OBVIOUS
    <2>. QED BY <2>1, NullAssumption
  <1>2. ASSUME NEW n \in Ids PROVE [num |-> n] # Null /\ n # Null
    <2>1. n \in Int
      BY Int64Assumption DEF Ids
    <2>2. [num |-> n] \in [{"num"} -> Int]
      BY <2>1
    <2>. QED BY <2>1, <2>2, NullAssumption
  <1>3. ASSUME NEW f \in Settled PROVE [obj |-> f] # Null
    <2>1. f \in Objects
      BY DEF Settled
    <2>2. [obj |-> f] \in [{"obj"} -> Objects]
      BY <2>1
    <2>. QED BY <2>2, NullAssumption
  <1>. QED BY <1>1, <1>2, <1>3 DEF Has, IsInt64, Ids

\* A struct that is marshalled and unmarshalled again is what it was.
LEMMA RoundTrip ==
  ASSUME NEW d \in Dtos
  PROVE  Unmarshals(Marshal(d)) /\ Unmarshal(Marshal(d)) = d
  <1>. DEFINE full == [event       |-> [str |-> d.event],
                       user_id     |-> [num |-> d.user_id],
                       batch_id    |-> [num |-> d.batch_id],
                       properties  |-> [obj |-> d.properties],
                       meta_data   |-> [obj |-> d.meta_data],
                       occurred_at |-> [str |-> d.occurred_at]]
              kept == {"event", "user_id"}
                        \cup {f \in {"batch_id", "occurred_at"} : d[f] # Null}
                        \cup {f \in {"properties", "meta_data"} : DOMAIN d[f] # {}}
              t == Marshal(d)
  <1>1. /\ d.event \in STRING /\ d.user_id \in Ids /\ d.batch_id \in Ids \cup {Null}
        /\ d.properties \in Settled /\ d.meta_data \in Settled
        /\ d.occurred_at \in STRING \cup {Null}
        /\ d = [event |-> d.event, user_id |-> d.user_id, batch_id |-> d.batch_id,
                properties |-> d.properties, meta_data |-> d.meta_data,
                occurred_at |-> d.occurred_at]
    BY DEF Dtos
  <1>2. DOMAIN t = kept /\ \A name \in kept : t[name] = full[name]
    BY DEF Marshal, Restrict
  <1>3. /\ "event" \in kept /\ "user_id" \in kept
        /\ "batch_id" \in kept <=> d.batch_id # Null
        /\ "occurred_at" \in kept <=> d.occurred_at # Null
        /\ "properties" \in kept <=> DOMAIN d.properties # {}
        /\ "meta_data" \in kept <=> DOMAIN d.meta_data # {}
    OBVIOUS
  <1>. HIDE DEF t, kept
  <1>4. /\ t["event"] = [str |-> d.event] /\ t["user_id"] = [num |-> d.user_id]
        /\ d.batch_id # Null => t["batch_id"] = [num |-> d.batch_id]
        /\ d.occurred_at # Null => t["occurred_at"] = [str |-> d.occurred_at]
        /\ DOMAIN d.properties # {} => t["properties"] = [obj |-> d.properties]
        /\ DOMAIN d.meta_data # {} => t["meta_data"] = [obj |-> d.meta_data]
    BY <1>2, <1>3
  <1>. HIDE DEF full
  <1>5. /\ Given(t, "event") /\ Given(t, "user_id")
        /\ Given(t, "batch_id") <=> d.batch_id # Null
        /\ Given(t, "occurred_at") <=> d.occurred_at # Null
        /\ Given(t, "properties") <=> DOMAIN d.properties # {}
        /\ Given(t, "meta_data") <=> DOMAIN d.meta_data # {}
    BY <1>1, <1>2, <1>3, <1>4, Encodings DEF Given
  <1>6. Unmarshals(t)
    BY <1>1, <1>4, <1>5, Encodings DEF Unmarshals
  <1>7. ASSUME NEW g \in Settled
        PROVE  /\ FloatMap([obj |-> g].obj) = g
               /\ DOMAIN g = {} => g = <<>>
    <2>1. FloatMap(g) = g /\ g = [k \in DOMAIN g |-> g[k]]
      BY SettledValues DEF Settled
    <2>. QED BY <2>1
  <1>8. Unmarshal(t) = d
    <2>1. Unmarshal(t).event = d.event /\ Unmarshal(t).user_id = d.user_id
      BY <1>4, <1>5 DEF Unmarshal
    <2>2. Unmarshal(t).batch_id = d.batch_id /\ Unmarshal(t).occurred_at = d.occurred_at
      BY <1>1, <1>4, <1>5 DEF Unmarshal
    <2>3. Unmarshal(t).properties = d.properties
      BY <1>1, <1>4, <1>5, <1>7 DEF Unmarshal
    <2>4. Unmarshal(t).meta_data = d.meta_data
      BY <1>1, <1>4, <1>5, <1>7 DEF Unmarshal
    <2>5. Unmarshal(t) =
            [event |-> Unmarshal(t).event, user_id |-> Unmarshal(t).user_id,
             batch_id |-> Unmarshal(t).batch_id, properties |-> Unmarshal(t).properties,
             meta_data |-> Unmarshal(t).meta_data, occurred_at |-> Unmarshal(t).occurred_at]
      BY DEF Unmarshal
    <2>. QED BY <1>1, <2>1, <2>2, <2>3, <2>4, <2>5
  <1>. QED BY <1>6, <1>8 DEF t

\* What the handler makes of a struct.
LEMMA PreparedTypes ==
  ASSUME NEW t, IsText(t), Unmarshals(t), Required(Unmarshal(t))
  PROVE  /\ Prepared(t) \in Dtos
         /\ \A name \in {"event", "user_id", "batch_id", "occurred_at"} :
              Prepared(t)[name] = Unmarshal(t)[name]
         /\ Prepared(t).meta_data = Over(Server, Unmarshal(t).meta_data)
         /\ Prepared(t).properties =
              Restrict(Unmarshal(t).properties, DOMAIN Unmarshal(t).properties \ Sensitive)
  <1>. DEFINE d == Unmarshal(t)
              p == Prepared(t)
  <1>1. d \in Dtos
    BY UnmarshalTypes
  <1>2. p = [event       |-> d.event,
             user_id     |-> d.user_id,
             batch_id    |-> d.batch_id,
             properties  |-> Restrict(d.properties, DOMAIN d.properties \ Sensitive),
             meta_data   |-> Over(Server, d.meta_data),
             occurred_at |-> d.occurred_at]
    <2>. HIDE DEF d
    <2>1. Prepared(t) = StripSensitiveFields(EnrichMetaData(d, ClientIP, Agent))
      BY DEF Prepared, d
    <2>. QED BY <1>1, <2>1 DEF StripSensitiveFields, EnrichMetaData, Server, Dtos
  <1>. HIDE DEF d, p
  <1>3. p \in Dtos
    BY <1>1, <1>2, RestrictSettles, OverSettles DEF Dtos
  <1>. QED BY <1>2, <1>3 DEF d, p

\* The row of an event that the validator let through.
LEMMA PreparedFits ==
  ASSUME NEW t, IsText(t), Unmarshals(t), Required(Unmarshal(t))
  PROVE  RowFits(TransformEvent(Prepared(t), Now), t)
  <1>. DEFINE d == Unmarshal(t)
              p == Prepared(t)
              row == TransformEvent(p, Now)
              properties == Sent(t, "properties")
              metaData   == Sent(t, "meta_data")
              date == IF "occurred_at" \in DOMAIN t /\ t.occurred_at # Null
                      THEN t.occurred_at.str ELSE ""
  <1>1. /\ d \in Dtos
        /\ DOMAIN d["properties"] = DOMAIN properties
        /\ \A k \in DOMAIN properties : ValueKept(d["properties"][k], properties[k])
        /\ DOMAIN d["meta_data"] = DOMAIN metaData
        /\ \A k \in DOMAIN metaData : ValueKept(d["meta_data"][k], metaData[k])
    BY UnmarshalTypes
  <1>2. /\ p \in Dtos
        /\ p.event = d.event /\ p.user_id = d.user_id /\ p.batch_id = d.batch_id
        /\ p.occurred_at = d.occurred_at
        /\ p.meta_data = Over(Server, d.meta_data)
        /\ p.properties = Restrict(d.properties, DOMAIN d.properties \ Sensitive)
    <2>1. \A name \in {"event", "user_id", "batch_id", "occurred_at"} : p[name] = d[name]
      BY PreparedTypes
    <2>2. /\ p["event"] = d["event"] /\ p["user_id"] = d["user_id"]
          /\ p["batch_id"] = d["batch_id"] /\ p["occurred_at"] = d["occurred_at"]
      BY <2>1
    <2>. QED BY <2>2, PreparedTypes
  <1>3. /\ Given(t, "event") /\ d.event = t.event.str
        /\ Given(t, "user_id") /\ d.user_id = t.user_id.num
        /\ d.batch_id = (IF "batch_id" \in DOMAIN t /\ t.batch_id # Null
                         THEN t.batch_id.num ELSE Null)
        /\ d.occurred_at = IF Given(t, "occurred_at") THEN t.occurred_at.str ELSE Null
    BY DEF Required, Unmarshal, Given
  <1>. HIDE DEF d, p, properties, metaData
  <1>4. row = [event       |-> p.event,
               user_id     |-> p.user_id,
               batch_id    |-> p.batch_id,
               properties  |-> p.properties,
               meta_data   |-> p.meta_data,
               occurred_at |-> IF p.occurred_at \in DOMAIN Dates THEN Dates[p.occurred_at]
                               ELSE Now]
    BY <1>2 DEF TransformEvent, Dtos
  <1>5. row.occurred_at = (IF date \in DOMAIN Dates THEN Dates[date] ELSE Now)
    <2>1. Null \notin DOMAIN Dates /\ "" \notin DOMAIN Dates
      BY DatesAssumption, NullAssumption
    <2>2. row.occurred_at = IF p.occurred_at \in DOMAIN Dates THEN Dates[p.occurred_at] ELSE Now
      BY <1>4
    <2>3. CASE Given(t, "occurred_at")
      BY <1>2, <1>3, <2>2, <2>3 DEF Given
    <2>4. CASE ~Given(t, "occurred_at")
      BY <1>2, <1>3, <2>1, <2>2, <2>4 DEF Given
    <2>. QED BY <2>3, <2>4
  <1>6. /\ row.event = t.event.str /\ row.user_id = t.user_id.num
        /\ row.batch_id = (IF "batch_id" \in DOMAIN t /\ t.batch_id # Null
                           THEN t.batch_id.num ELSE Null)
        /\ row.properties = p.properties /\ row.meta_data = p.meta_data
    BY <1>2, <1>3, <1>4
  <1>. HIDE DEF row, date
  <1>7. /\ d.properties \in Settled /\ d.meta_data \in Settled
    BY <1>1 DEF Dtos
  <1>8. /\ DOMAIN row.properties = DOMAIN properties \ Sensitive
        /\ \A k \in DOMAIN row.properties : ValueKept(row.properties[k], properties[k])
    <2>. DEFINE g == d.properties
                N == DOMAIN g \ Sensitive
    <2>1. /\ DOMAIN g = DOMAIN properties /\ g \in Settled
          /\ \A k \in DOMAIN properties : ValueKept(g[k], properties[k])
      BY <1>1, <1>7
    <2>2. row.properties = Restrict(g, N)
      BY <1>2, <1>6
    <2>. HIDE DEF g
    <2>3. /\ DOMAIN Restrict(g, N) = N
          /\ \A k \in N : Restrict(g, N)[k] = g[k]
      BY <2>1, RestrictSettles
    <2>. QED BY <2>1, <2>2, <2>3
  <1>9. /\ DOMAIN row.meta_data = DOMAIN metaData \cup {"ip", "user_agent"}
        /\ \A k \in DOMAIN metaData \ {"ip", "user_agent"} :
             ValueKept(row.meta_data[k], metaData[k])
        /\ row.meta_data["ip"] = [str |-> ClientIP]
        /\ row.meta_data["user_agent"] = [str |-> Agent]
    <2>. DEFINE g == d.meta_data
                h == Over(Server, g)
    <2>1. /\ DOMAIN g = DOMAIN metaData /\ g \in Settled
          /\ \A k \in DOMAIN metaData : ValueKept(g[k], metaData[k])
      BY <1>1, <1>7
    <2>2. row.meta_data = h
      BY <1>2, <1>6
    <2>. HIDE DEF g
    <2>3. /\ DOMAIN h = DOMAIN g \cup {"ip", "user_agent"}
          /\ h["ip"] = [str |-> ClientIP] /\ h["user_agent"] = [str |-> Agent]
          /\ \A k \in DOMAIN g \ {"ip", "user_agent"} : h[k] = g[k]
      BY <2>1, OverSettles
    <2>. HIDE DEF h
    <2>. QED BY <2>1, <2>2, <2>3
  <1>. QED BY <1>5, <1>6, <1>8, <1>9 DEF RowFits, properties, metaData, row, date, p

-----------------------------------------------------------------------------
(* The lists hold the request's events, in order and unchanged.             *)

Encoded == {Marshal(d) : d \in Dtos}
Rows    == {TransformEvent(d, Now) : d \in Dtos}
Letters == {DeadLetter(d) : d \in Dtos}

Bound ==
  /\ dtos \in Seq(Dtos) /\ Len(dtos) <= Len(req.events)
  /\ \A i \in 1 .. Len(dtos) :
       /\ Unmarshals(req.events[i]) /\ Required(Unmarshal(req.events[i]))
       /\ dtos[i] = Prepared(req.events[i])
  /\ step = "bind" => dtos = <<>>

Queued ==
  /\ entries \in Seq(Encoded) /\ Len(entries) <= Len(dtos)
  /\ \A i \in 1 .. Len(entries) : entries[i] = Marshal(dtos[i])

Held ==
  /\ batch \in Seq(Dtos) /\ Len(batch) <= Len(dtos)
  /\ models \in Seq(Rows) /\ Len(models) = Len(batch)
  /\ \A i \in 1 .. Len(batch) :
       batch[i] = dtos[i] /\ models[i] = TransformEvent(dtos[i], Now)

Stored ==
  /\ rows \in Seq(Rows) /\ Len(rows) <= Len(dtos)
  /\ \A i \in 1 .. Len(rows) : rows[i] = TransformEvent(dtos[i], Now)
  /\ dead \in Seq(Letters) /\ Len(dead) <= Len(dtos)
  /\ \A i \in 1 .. Len(dead) : dead[i] = DeadLetter(dtos[i])

DataInv == req \in Requests /\ Bound /\ Queued /\ Held /\ Stored

LEMMA ListOf ==
  ASSUME NEW S, NEW n \in Nat, NEW f, f = [i \in 1 .. n |-> f[i]],
         \A i \in 1 .. n : f[i] \in S
  PROVE  f \in Seq(S) /\ Len(f) = n
  OBVIOUS

LEMMA DataInit == Init => DataInv
  <1>. SUFFICES ASSUME Init PROVE DataInv
    OBVIOUS
  <1>1. \A S : <<>> \in Seq(S) /\ Len(<<>>) = 0
    OBVIOUS
  <1>2. req \in Requests /\ Len(req.events) \in Nat
    <2>1. req \in Requests
      BY DEF Init
    <2>2. req.events \in Seq(Texts)
      BY <2>1, RequestTypes
    <2>. QED BY <2>1, <2>2
  <1>3. /\ dtos = <<>> /\ entries = <<>> /\ batch = <<>> /\ models = <<>>
        /\ rows = <<>> /\ dead = <<>>
    BY DEF Init
  <1>. QED BY <1>1, <1>2, <1>3 DEF DataInv, Bound, Queued, Held, Stored

LEMMA DataBind ==
  ASSUME DataInv, Bind
  PROVE  DataInv'
  <1>1. /\ step = "bind" /\ dtos = <<>> /\ req' = req /\ req \in Requests
        /\ UNCHANGED storeVars
    BY DEF Bind, DataInv, Bound
  <1>2. /\ req.events \in Seq(Texts) /\ Len(req.events) \in Nat
        /\ DOMAIN req.events = 1 .. Len(req.events)
    <2>1. req.events \in Seq(Texts)
      BY <1>1, RequestTypes
    <2>. QED BY <2>1
  <1>3. Len(dtos) = 0 /\ Len(entries) = 0 /\ Len(batch) = 0 /\ Len(rows) = 0 /\ Len(dead) = 0
    <2>1. Len(dtos) = 0
      BY <1>1
    <2>2. Len(entries) \in Nat /\ Len(batch) \in Nat /\ Len(rows) \in Nat /\ Len(dead) \in Nat
      BY DEF DataInv, Queued, Held, Stored
    <2>. QED BY <2>1, <2>2 DEF DataInv, Queued, Held, Stored
  <1>4. Bound' /\ Len(dtos') \in Nat
    <2>1. CASE BindingFails /\ Answer(422) /\ UNCHANGED <<step, dtos>>
      BY <1>1, <1>2, <2>1 DEF DataInv, Bound
    <2>2. CASE /\ ~BindingFails
               /\ dtos' = [i \in DOMAIN req.events |-> Prepared(req.events[i])]
               /\ step' = "push"
      <3>1. ASSUME NEW i \in 1 .. Len(req.events)
            PROVE  /\ Unmarshals(req.events[i]) /\ Required(Unmarshal(req.events[i]))
                   /\ Prepared(req.events[i]) \in Dtos
        <4>1. req.events[i] \in ToSet(req.events) /\ req.events[i] \in Texts
          BY <1>2 DEF ToSet
        <4>2. Unmarshals(req.events[i]) /\ Required(Unmarshal(req.events[i]))
          BY <2>2, <4>1 DEF BindingFails
        <4>. QED BY <4>1, <4>2, TextsAssumption, PreparedTypes
      <3>2. /\ dtos' = [i \in 1 .. Len(req.events) |-> dtos'[i]]
            /\ \A i \in 1 .. Len(req.events) : dtos'[i] = Prepared(req.events[i])
        BY <1>2, <2>2
      <3>3. dtos' \in Seq(Dtos) /\ Len(dtos') = Len(req.events)
        BY <1>2, <3>1, <3>2, ListOf
      <3>. QED BY <1>1, <1>2, <2>2, <3>1, <3>2, <3>3 DEF Bound
    <2>. QED BY <2>1, <2>2 DEF Bind
  <1>. QED BY <1>1, <1>3, <1>4 DEF DataInv, Bound, Queued, Held, Stored, storeVars

LEMMA DataPush ==
  ASSUME DataInv, Push
  PROVE  DataInv'
  <1>1. /\ step = "push" /\ step' \in {"push", "answer"} /\ req' = req /\ req \in Requests
        /\ dtos' = dtos /\ UNCHANGED <<batch, models, rows, dead>>
    BY DEF Push, DataInv
  <1>2. dtos \in Seq(Dtos) /\ Len(dtos) \in Nat
    BY DEF DataInv, Bound
  <1>3. PICK n \in 0 .. Len(dtos) : entries' = [i \in 1 .. n |-> Marshal(dtos[i])]
    BY DEF Push
  <1>4. /\ entries' = [i \in 1 .. n |-> entries'[i]] /\ n \in Nat /\ n <= Len(dtos)
        /\ \A i \in 1 .. n : entries'[i] = Marshal(dtos[i])
    BY <1>2, <1>3
  <1>5. \A i \in 1 .. n : entries'[i] \in Encoded
    BY <1>2, <1>4 DEF Encoded
  <1>6. entries' \in Seq(Encoded) /\ Len(entries') = n
    BY <1>4, <1>5, ListOf
  <1>7. Queued'
    BY <1>1, <1>4, <1>6 DEF Queued
  <1>. QED BY <1>1, <1>7 DEF DataInv, Bound, Held, Stored

LEMMA DataPop ==
  ASSUME DataInv, Pop
  PROVE  DataInv'
  <1>1. /\ req' = req /\ req \in Requests /\ dtos' = dtos /\ step' = step
        /\ entries' = <<>> /\ rows' = rows /\ dead' = dead
    BY DEF Pop, DataInv, chainVars, bindVars
  <1>. DEFINE n == Len(entries)
  <1>2. /\ dtos \in Seq(Dtos) /\ Len(dtos) \in Nat /\ n \in Nat /\ n <= Len(dtos)
        /\ DOMAIN entries = 1 .. n
        /\ \A i \in 1 .. n : dtos[i] \in Dtos /\ entries[i] = Marshal(dtos[i])
    BY DEF DataInv, Bound, Queued
  <1>. HIDE DEF n
  <1>3. /\ batch' = [i \in 1 .. n |-> batch'[i]]
        /\ \A i \in 1 .. n : batch'[i] = dtos[i]
    <2>1. batch' = [i \in 1 .. n |-> Unmarshal(entries[i])]
      BY <1>2 DEF Pop, Decoded
    <2>. QED BY <1>2, <2>1, RoundTrip
  <1>4. batch' \in Seq(Dtos) /\ Len(batch') = n /\ DOMAIN batch' = 1 .. n
    <2>1. \A i \in 1 .. n : batch'[i] \in Dtos
      BY <1>2, <1>3
    <2>2. batch' \in Seq(Dtos) /\ Len(batch') = n
      BY <1>2, <1>3, <2>1, ListOf
    <2>. QED BY <2>2
  <1>5. /\ models' = [i \in 1 .. n |-> models'[i]]
        /\ \A i \in 1 .. n : models'[i] = TransformEvent(dtos[i], Now)
    <2>1. models' = [i \in 1 .. n |-> TransformEvent(batch'[i], Now)]
      BY <1>4 DEF Pop
    <2>. QED BY <1>3, <2>1
  <1>6. models' \in Seq(Rows) /\ Len(models') = n
    <2>1. \A i \in 1 .. n : models'[i] \in Rows
      BY <1>2, <1>5 DEF Rows
    <2>. QED BY <1>2, <1>5, <2>1, ListOf
  <1>7. Held'
    BY <1>1, <1>2, <1>3, <1>4, <1>5, <1>6 DEF Held
  <1>8. Queued'
    <2>1. <<>> \in Seq(Encoded) /\ Len(<<>>) = 0
      OBVIOUS
    <2>. QED BY <1>1, <1>2, <2>1 DEF Queued
  <1>. QED BY <1>1, <1>7, <1>8 DEF DataInv, Bound, Stored

LEMMA DataSettle ==
  ASSUME DataInv, Settle
  PROVE  DataInv'
  <1>1. /\ req' = req /\ req \in Requests /\ dtos' = dtos /\ step' = step
        /\ entries' = entries /\ batch' = <<>> /\ models' = <<>>
    BY DEF Settle, DataInv, chainVars, bindVars
  <1>2. Len(dtos) \in Nat /\ \A i \in 1 .. Len(dtos) : dtos[i] \in Dtos
    BY DEF DataInv, Bound
  <1>. DEFINE n == Len(batch)
  <1>3. /\ n \in Nat /\ n <= Len(dtos) /\ DOMAIN batch = 1 .. n
        /\ \A i \in 1 .. n : batch[i] = dtos[i]
    BY DEF DataInv, Held
  <1>. HIDE DEF n
  <1>4. Held'
    <2>1. \A S : <<>> \in Seq(S) /\ Len(<<>>) = 0
      OBVIOUS
    <2>. QED BY <1>1, <1>2, <2>1 DEF Held
  <1>5. CASE rows' = models /\ UNCHANGED dead
    <2>1. Stored'
      BY <1>1, <1>5 DEF DataInv, Held, Stored
    <2>. QED BY <1>1, <1>4, <2>1 DEF DataInv, Bound, Queued
  <1>6. CASE dead' = [i \in DOMAIN batch |-> DeadLetter(batch[i])] /\ UNCHANGED rows
    <2>1. /\ dead' = [i \in 1 .. n |-> dead'[i]]
          /\ \A i \in 1 .. n : dead'[i] = DeadLetter(dtos[i])
      BY <1>3, <1>6
    <2>2. \A i \in 1 .. n : dead'[i] \in Letters
      BY <1>2, <1>3, <2>1 DEF Letters
    <2>3. dead' \in Seq(Letters) /\ Len(dead') = n
      BY <1>3, <2>1, <2>2, ListOf
    <2>4. Stored'
      BY <1>1, <1>3, <1>6, <2>1, <2>3 DEF DataInv, Stored
    <2>. QED BY <1>1, <1>4, <2>4 DEF DataInv, Bound, Queued
  <1>. QED BY <1>5, <1>6 DEF Settle

LEMMA AlwaysDataInv == Spec => []DataInv
  <1>1. ASSUME DataInv, UNCHANGED <<req, dtos, storeVars>>, step' = "bind" => step = "bind"
        PROVE  DataInv'
    BY <1>1 DEF DataInv, Bound, Queued, Held, Stored, storeVars
  <1>2. ASSUME DataInv, Next PROVE DataInv'
    <2>1. CASE EnterSilent \/ EnterCors \/ EnterOtel \/ EnterLogging \/ EnterApiKey \/ Serve
                 \/ Accept \/ Panic \/ Leave \/ Unwind \/ Recover
      <3>1. UNCHANGED <<req, dtos, storeVars>> /\ (step' = "bind" => step = "bind")
        BY <2>1 DEF EnterSilent, EnterCors, EnterOtel, EnterLogging, EnterApiKey, Serve, Accept,
                    Panic, Leave, Unwind, Recover, bindVars
      <3>. QED BY <1>1, <1>2, <3>1
    <2>. QED BY <1>2, <2>1, DataBind, DataPush, DataPop, DataSettle DEF Next
  <1>3. ASSUME DataInv, UNCHANGED vars PROVE DataInv'
    <2>1. UNCHANGED <<req, dtos, storeVars>> /\ step' = step
      BY <1>3 DEF vars, chainVars, bindVars
    <2>. QED BY <1>1, <1>3, <2>1
  <1>. QED BY <1>2, <1>3, DataInit, PTL DEF Spec

\* A row is the event of the request that is at its place, as RowFits tells it,
\* after two trips through JSON, for every object and every set of sensitive
\* names (tracking_event_handler.go:78-97, event_buffer.go:32-43,78-86,
\* event_processor.go:86-121, json_type.go:16-22).
THEOREM RowsAreWhatWasSent == Spec => []RowsFit
  <1>1. ASSUME DataInv PROVE RowsFit
    <2>1. /\ req.events \in Seq(Texts) /\ Len(req.events) \in Nat
          /\ dtos \in Seq(Dtos) /\ Len(dtos) \in Nat /\ Len(dtos) <= Len(req.events)
          /\ rows \in Seq(Rows) /\ Len(rows) \in Nat /\ Len(rows) <= Len(dtos)
          /\ DOMAIN rows = 1 .. Len(rows)
      <3>1. req.events \in Seq(Texts)
        BY <1>1, RequestTypes DEF DataInv
      <3>. QED BY <1>1, <3>1 DEF DataInv, Bound, Stored
    <2>2. ASSUME NEW i \in 1 .. Len(rows) PROVE RowFits(rows[i], req.events[i])
      <3>1. i \in 1 .. Len(dtos) /\ req.events[i] \in Texts
        BY <2>1
      <3>2. /\ rows[i] = TransformEvent(Prepared(req.events[i]), Now)
            /\ Unmarshals(req.events[i]) /\ Required(Unmarshal(req.events[i]))
        BY <1>1, <3>1 DEF DataInv, Bound, Stored
      <3>. QED BY <3>1, <3>2, TextsAssumption, PreparedFits
    <2>. QED BY <2>1, <2>2 DEF RowsFit
  <1>. QED BY <1>1, AlwaysDataInv, PTL

\* A dead letter decodes to the event that was pushed, for every event
\* (event_buffer.go:99-111).
THEOREM DeadLettersCanBeReplayed == Spec => []DeadLettersReplay
  <1>1. ASSUME DataInv PROVE DeadLettersReplay
    <2>1. ASSUME NEW i \in DOMAIN dead PROVE Unmarshal(dead[i].event.obj) = dtos[i]
      <3>1. i \in 1 .. Len(dead) /\ dtos[i] \in Dtos
        BY <1>1 DEF DataInv, Bound, Stored
      <3>2. dead[i] = DeadLetter(dtos[i])
        BY <1>1, <3>1 DEF DataInv, Stored
      <3>3. dead[i].event.obj = Marshal(dtos[i])
        BY <3>2 DEF DeadLetter
      <3>. QED BY <3>1, <3>3, RoundTrip
    <2>. QED BY <2>1 DEF DeadLettersReplay
  <1>. QED BY <1>1, AlwaysDataInv, PTL

LEMMA OneRecord ==
  ASSUME NEW r, NEW list, list = <<>> \/ list = <<r>>
  PROVE  \A i \in DOMAIN list : list[i] = r
  OBVIOUS

\* The variables keep their types: the chain is never left at the wrong end, and
\* no event the validator refuses is pushed (tracking_event_handler.go:38-76).
THEOREM TypesHold == Spec => []TypeOK
  <1>1. ASSUME ControlInv
        PROVE  /\ at \in 0 .. Len(Chain) + 1
               /\ way \in {"in", "out", "panic"} /\ (way = "panic" => at > 0)
               /\ step \in {"bind", "push", "answer", "panicked"}
               /\ unread \in BOOLEAN /\ span \in BOOLEAN /\ captured \in Nat
               /\ status \in {0} \cup Codes
               /\ \A i \in DOMAIN logs :
                    /\ logs[i].kind \in {"request", "panic"}
                    /\ logs[i].status \in {0} \cup Codes
                    /\ logs[i].traced \in BOOLEAN
    <2>1. /\ Len(Chain) \in Nat /\ CorsAt \in 3 .. 4 /\ RecoveryAt = CorsAt + 2
          /\ OtelAt > RecoveryAt /\ LoggingAt >= OtelAt /\ OtelAt \in Nat /\ LoggingAt \in Nat
          /\ Len(Chain) = LoggingAt + One(req.route = "stats")
          /\ conf.client \in BOOLEAN /\ conf.provider \in BOOLEAN
          /\ unread \in BOOLEAN /\ span \in BOOLEAN
      BY <1>1, ChainFacts DEF ControlInv, Chosen, Configs
    <2>2. Len(Chain) >= LoggingAt /\ \A b \in BOOLEAN : One(b) \in Nat
      BY <2>1 DEF One
    <2>3. CASE way = "in" /\ GoingIn
      BY <2>1, <2>3 DEF GoingIn
    <2>4. CASE way = "panic" /\ Panicking
      <3>1. One(conf.client /\ at < SentryAt) \in Nat
        BY <2>2
      <3>. QED BY <2>1, <2>2, <2>4, <3>1 DEF Panicking
    <2>5. CASE way = "out" /\ step = "panicked" /\ ComingBack
      <3>. DEFINE record == [kind |-> "panic", status |-> 500, traced |-> FALSE]
      <3>1. /\ at \in 0 .. RecoveryAt - 1 /\ status \in Codes /\ captured = One(conf.client)
            /\ logs = <<record>>
        BY <2>5 DEF ComingBack, Codes
      <3>2. /\ record.kind \in {"request", "panic"} /\ record.status \in Codes
            /\ record.traced \in BOOLEAN
        BY DEF Codes
      <3>. HIDE DEF record
      <3>3. \A i \in DOMAIN logs : logs[i] = record
        BY <3>1, OneRecord
      <3>4. at \in 0 .. Len(Chain) + 1 /\ captured \in Nat
        BY <2>1, <2>2, <3>1
      <3>. QED BY <2>1, <2>5, <3>1, <3>2, <3>3, <3>4
    <2>6. CASE way = "out" /\ GoingOut
      <3>. DEFINE record == [kind |-> "request", status |-> status, traced |-> conf.provider]
      <3>1. /\ at \in 0 .. Len(Chain) /\ status \in Codes /\ captured = 0
            /\ step \in {"bind", "push", "answer"} /\ (logs = <<>> \/ logs = <<record>>)
        BY <2>6 DEF GoingOut
      <3>2. /\ record.kind \in {"request", "panic"} /\ record.status \in Codes
            /\ record.traced \in BOOLEAN
        BY <2>1, <3>1
      <3>. HIDE DEF record
      <3>3. \A i \in DOMAIN logs : logs[i] = record
        BY <3>1, OneRecord
      <3>. QED BY <2>1, <2>6, <3>1, <3>2, <3>3
    <2>. QED BY <1>1, <2>3, <2>4, <2>5, <2>6 DEF ControlInv
  <1>2. ASSUME DataInv
        PROVE  /\ \A i \in DOMAIN dtos : Required(dtos[i])
               /\ \A i \in DOMAIN entries : Unmarshals(entries[i])
               /\ DOMAIN models = DOMAIN batch
    <2>1. req.events \in Seq(Texts) /\ Len(req.events) \in Nat
      <3>1. req.events \in Seq(Texts)
        BY <1>2, RequestTypes DEF DataInv
      <3>. QED BY <3>1
    <2>2. ASSUME NEW i \in DOMAIN dtos PROVE Required(dtos[i])
      <3>1. i \in 1 .. Len(dtos) /\ req.events[i] \in Texts
        BY <1>2, <2>1 DEF DataInv, Bound
      <3>2. /\ Unmarshals(req.events[i]) /\ Required(Unmarshal(req.events[i]))
            /\ dtos[i] = Prepared(req.events[i])
        BY <1>2, <3>1 DEF DataInv, Bound
      <3>3. \A name \in {"event", "user_id", "batch_id", "occurred_at"} :
              dtos[i][name] = Unmarshal(req.events[i])[name]
        BY <3>1, <3>2, TextsAssumption, PreparedTypes
      <3>. QED BY <3>2, <3>3 DEF Required
    <2>3. ASSUME NEW i \in DOMAIN entries PROVE Unmarshals(entries[i])
      <3>1. i \in 1 .. Len(entries) /\ dtos[i] \in Dtos /\ entries[i] = Marshal(dtos[i])
        BY <1>2 DEF DataInv, Bound, Queued
      <3>. QED BY <3>1, RoundTrip
    <2>4. DOMAIN models = DOMAIN batch
      BY <1>2 DEF DataInv, Held
    <2>. QED BY <2>2, <2>3, <2>4
  <1>3. ControlInv /\ DataInv => TypeOK
    BY <1>1, <1>2 DEF TypeOK, Codes
  <1>. QED BY <1>3, AlwaysControlInv, AlwaysDataInv, PTL

=============================================================================
