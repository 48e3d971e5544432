----------------------------- MODULE OnceProofs -----------------------------
(* No event is stored twice and no dead letter is stored, for all constants. *)
EXTENDS EventPipelineProofs

\* The environment under which rows do not repeat: no push is sent twice, and two
\* runs may overlap or a pop's two commands be split, but not both.
Separate ==
  "resend" \notin Faults /\ BatchSize # 0 /\ ~({"split", "ttl"} \subseteq Faults)

\* What is still to be pushed.
Unpushed(e) ==
  \/ e \in foreign
  \/ \E q \in Requests : \E i \in sent[q] + 1 .. Len(q) : e = q[i]

\* The batch r holds is in the table, and r does not know.
Landed(r) == landed[r] /\ pc[r] \in {"insert", "bury"}

\* What is in the queue once an LTRIM of r's that is on its way has been executed.
Left(r) == IF trim[r] THEN PopRest ELSE queue

Alone == "split" \in Faults => OneActiveRun

Injective ==
  /\ IsInjective(queue) /\ IsInjective(rows)
  /\ \A r \in Runs : IsInjective(raw[r]) /\ IsInjective(batch[r])

\* Every event is in one place: among the lists and the table,
ListsApart ==
  /\ ToSet(queue) \cap (ToSet(rows) \cup ToSet(dead)) = {}
  /\ "commit" \notin Faults =>
       ToSet(rows) \cap ToSet(dead) = {} /\ \A r \in Runs : ~landed[r]

\* among these and a run's hands,
HandsApart ==
  \A r \in Runs :
    /\ ToSet(raw[r]) \cap (ToSet(Left(r)) \cup ToSet(rows) \cup ToSet(dead)) = {}
    /\ ToSet(batch[r]) \cap (ToSet(queue) \cup ToSet(dead) \cup ToSet(raw[r])) = {}
    /\ ~Landed(r) => ToSet(batch[r]) \cap ToSet(rows) = {}

\* and among the hands of all the runs.
RunsApart ==
  \A r, s \in Runs : r # s =>
    (ToSet(raw[r]) \cup ToSet(batch[r])) \cap (ToSet(raw[s]) \cup ToSet(batch[s])) = {}

\* What is still to be pushed is nowhere.
Outside ==
  \A e : Unpushed(e) =>
    /\ e \notin ToSet(queue) \cup ToSet(rows) \cup ToSet(dead)
    /\ \A r \in Runs : e \notin ToSet(raw[r]) \cup ToSet(batch[r])

Apart   == ListsApart /\ HandsApart /\ RunsApart
OnceInv == TypeOK /\ Located /\ Alone /\ Injective /\ Apart /\ Outside

-----------------------------------------------------------------------------
(* Sequences without repetitions.                                           *)

LEMMA InjectiveAppend ==
  ASSUME NEW S, NEW s \in Seq(S), NEW e \in S, IsInjective(s), e \notin ToSet(s)
  PROVE  IsInjective(Append(s, e))
  <1>1. /\ Len(s) \in Nat
        /\ DOMAIN s = 1 .. Len(s) /\ DOMAIN Append(s, e) = 1 .. Len(s) + 1
        /\ \A i \in 1 .. Len(s) : Append(s, e)[i] = s[i]
        /\ Append(s, e)[Len(s) + 1] = e
    OBVIOUS
  <1>2. \A i \in 1 .. Len(s) : s[i] # e
    BY <1>1 DEF ToSet
  <1>3. \A i, j \in 1 .. Len(s) : s[i] = s[j] => i = j
    BY <1>1 DEF IsInjective
  <1>. QED BY <1>1, <1>2, <1>3 DEF IsInjective

LEMMA ConcatElements ==
  ASSUME NEW S, NEW s \in Seq(S), NEW t \in Seq(S)
  PROVE  /\ Len(s) \in Nat /\ Len(t) \in Nat
         /\ DOMAIN s = 1 .. Len(s) /\ DOMAIN t = 1 .. Len(t)
         /\ DOMAIN (s \o t) = 1 .. Len(s) + Len(t)
         /\ \A i \in 1 .. Len(s) : (s \o t)[i] = s[i]
         /\ \A i \in 1 .. Len(t) : (s \o t)[Len(s) + i] = t[i]
  OBVIOUS

LEMMA InjectiveConcat ==
  ASSUME NEW S, NEW s \in Seq(S), NEW t \in Seq(S)
  PROVE  IsInjective(s \o t) <=>
           IsInjective(s) /\ IsInjective(t) /\ ToSet(s) \cap ToSet(t) = {}
  <1>. DEFINE u == s \o t
              m == Len(s)
              n == Len(t)
  <1>1. /\ m \in Nat /\ n \in Nat
        /\ DOMAIN s = 1 .. m /\ DOMAIN t = 1 .. n /\ DOMAIN u = 1 .. m + n
        /\ \A i \in 1 .. m : u[i] = s[i]
        /\ \A i \in 1 .. n : u[m + i] = t[i]
    BY ConcatElements
  <1>. HIDE DEF u, m, n
  <1>2. ASSUME IsInjective(u)
        PROVE  IsInjective(s) /\ IsInjective(t) /\ ToSet(s) \cap ToSet(t) = {}
    <2>0. \A i, j \in 1 .. m + n : u[i] = u[j] => i = j
      BY <1>1, <1>2 DEF IsInjective
    <2>1. ASSUME NEW i \in 1 .. m, NEW j \in 1 .. m, s[i] = s[j] PROVE i = j
      BY <1>1, <2>0, <2>1
    <2>2. ASSUME NEW i \in 1 .. n, NEW j \in 1 .. n, t[i] = t[j] PROVE i = j
      <3>1. m + i \in 1 .. m + n /\ m + j \in 1 .. m + n /\ u[m + i] = u[m + j]
        BY <1>1, <2>2
      <3>2. m + i = m + j
        BY <2>0, <3>1
      <3>. QED BY <1>1, <3>2
    <2>3. ASSUME NEW i \in 1 .. m, NEW j \in 1 .. n PROVE s[i] # t[j]
      <3>1. i \in 1 .. m + n /\ m + j \in 1 .. m + n /\ i # m + j
        BY <1>1
      <3>. QED BY <1>1, <2>0, <3>1
    <2>. QED BY <1>1, <2>1, <2>2, <2>3 DEF IsInjective, ToSet
  <1>3. ASSUME IsInjective(s), IsInjective(t), ToSet(s) \cap ToSet(t) = {},
               NEW i \in 1 .. m + n, NEW j \in 1 .. m + n, u[i] = u[j]
        PROVE  i = j
    <2>1. \A k \in 1 .. m + n : k \in 1 .. m \/ (k - m \in 1 .. n /\ m + (k - m) = k)
      BY <1>1
    <2>2. \A k \in 1 .. m, l \in 1 .. n : s[k] # t[l]
      BY <1>1, <1>3 DEF ToSet
    <2>3. CASE i \in 1 .. m /\ j \in 1 .. m
      BY <1>1, <1>3, <2>3 DEF IsInjective
    <2>4. CASE i \in 1 .. m /\ j \notin 1 .. m
      <3>1. u[i] = s[i] /\ j - m \in 1 .. n /\ u[m + (j - m)] = u[j]
        BY <1>1, <2>1, <2>4
      <3>. QED BY <1>1, <1>3, <2>2, <2>4, <3>1
    <2>5. CASE i \notin 1 .. m /\ j \in 1 .. m
      <3>1. u[j] = s[j] /\ i - m \in 1 .. n /\ u[m + (i - m)] = u[i]
        BY <1>1, <2>1, <2>5
      <3>. QED BY <1>1, <1>3, <2>2, <2>5, <3>1
    <2>6. CASE i \notin 1 .. m /\ j \notin 1 .. m
      <3>1. /\ i - m \in 1 .. n /\ u[m + (i - m)] = u[i]
            /\ j - m \in 1 .. n /\ u[m + (j - m)] = u[j]
        BY <1>1, <2>1, <2>6
      <3>2. t[i - m] = t[j - m]
        BY <1>1, <1>3, <3>1
      <3>3. i - m = j - m
        BY <1>1, <1>3, <3>1, <3>2 DEF IsInjective
      <3>. QED BY <1>1, <3>3
    <2>. QED BY <2>3, <2>4, <2>5, <2>6
  <1>4. IsInjective(u) <=>
          IsInjective(s) /\ IsInjective(t) /\ ToSet(s) \cap ToSet(t) = {}
    BY <1>1, <1>2, <1>3 DEF IsInjective
  <1>. QED BY <1>4 DEF u

LEMMA InjectiveHeadTail ==
  ASSUME NEW S, NEW s \in Seq(S), s # <<>>, IsInjective(s)
  PROVE  IsInjective(Tail(s)) /\ Head(s) \notin ToSet(Tail(s))
  <1>1. s = <<Head(s)>> \o Tail(s) /\ <<Head(s)>> \in Seq(S) /\ Tail(s) \in Seq(S)
    OBVIOUS
  <1>2. IsInjective(<<Head(s)>> \o Tail(s))
    BY <1>1
  <1>3. IsInjective(Tail(s)) /\ ToSet(<<Head(s)>>) \cap ToSet(Tail(s)) = {}
    BY <1>1, <1>2, InjectiveConcat
  <1>4. Head(s) \in ToSet(<<Head(s)>>)
    BY DEF ToSet
  <1>. QED BY <1>3, <1>4

LEMMA InjectiveEmpty == IsInjective(<<>>)
  BY DEF IsInjective

-----------------------------------------------------------------------------
LEMMA OnceInvSuffices ==
  OnceInv => AtMostOnce /\ ("commit" \notin Faults => DeadMeansNotStored)
  BY DEF OnceInv, Injective, Apart, ListsApart, AtMostOnce, DeadMeansNotStored

LEMMA InitOnceInv == Init => OnceInv
  <1>. SUFFICES ASSUME Init PROVE OnceInv
    OBVIOUS
  <1>1. Located /\ Alone /\ Injective
    BY InjectiveEmpty DEF Init, Located, Alone, OneActiveRun, Injective
  <1>2. Apart /\ Outside
    BY ToSetEmpty DEF Init, Apart, ListsApart, HandsApart, RunsApart, Outside
  <1>. QED BY <1>1, <1>2, InitTypeOK DEF OnceInv

-----------------------------------------------------------------------------
(* Steps that move nothing, let go of something, or bring something new.    *)

LEMMA IdleKeeps ==
  ASSUME OnceInv,
         UNCHANGED <<queue, dead, rows, foreign, sent, raw, batch, landed, trim, pc>>
  PROVE  Injective' /\ Apart' /\ Outside'
  <1>1. \A e : Unpushed(e)' <=> Unpushed(e)
    BY DEF Unpushed
  <1>2. Outside'
    BY <1>1 DEF OnceInv, Outside
  <1>3. Injective' /\ Apart'
    BY DEF OnceInv, Injective, Apart, ListsApart, HandsApart, RunsApart, Landed, Left,
           PopRest
  <1>. QED BY <1>2, <1>3

LEMMA ReleaseKeeps ==
  ASSUME OnceInv, NEW r \in Runs,
         UNCHANGED <<queue, dead, rows, foreign, sent>>,
         raw' \in {raw, [raw EXCEPT ![r] = <<>>]},
         batch' \in {batch, [batch EXCEPT ![r] = <<>>]},
         landed' \in {landed, [landed EXCEPT ![r] = FALSE]},
         trim' = trim \/ (trim' = [trim EXCEPT ![r] = FALSE] /\ raw'[r] = <<>>),
         \A s \in Runs : batch'[s] # <<>> => (Landed(s)' <=> Landed(s))
  PROVE  Injective' /\ Apart' /\ Outside'
  <1>1. /\ \A s \in Runs : raw'[s] = raw[s] \/ raw'[s] = <<>>
        /\ \A s \in Runs : batch'[s] = batch[s] \/ batch'[s] = <<>>
        /\ \A s \in Runs : landed'[s] => landed[s]
        /\ \A s \in Runs : trim'[s] = trim[s] \/ raw'[s] = <<>>
    BY DEF OnceInv, TypeOK
  <1>2. PopRest' = PopRest
    BY DEF PopRest
  <1>3. /\ \A s \in Runs : ToSet(raw'[s]) \subseteq ToSet(raw[s])
        /\ \A s \in Runs : ToSet(batch'[s]) \subseteq ToSet(batch[s])
        /\ \A s \in Runs : ToSet(raw'[s]) = {} \/ Left(s)' = Left(s)
    BY <1>1, <1>2, ToSetEmpty DEF Left
  <1>4. Injective'
    BY <1>1, InjectiveEmpty DEF OnceInv, Injective
  <1>5. ListsApart'
    BY <1>1 DEF OnceInv, Apart, ListsApart
  <1>6. HandsApart'
    <2>1. ASSUME NEW s \in Runs, ~Landed(s)'
          PROVE  ToSet(batch'[s]) \cap ToSet(rows) = {}
      <3>1. CASE batch'[s] = <<>>
        BY <3>1, ToSetEmpty
      <3>2. CASE batch'[s] # <<>>
        BY <2>1, <3>2, <1>3 DEF OnceInv, Apart, HandsApart
      <3>. QED BY <3>1, <3>2
    <2>. QED BY <1>3, <2>1 DEF OnceInv, Apart, HandsApart
  <1>7. RunsApart'
    BY <1>3 DEF OnceInv, Apart, RunsApart
  <1>8. Outside'
    <2>1. \A e : Unpushed(e)' <=> Unpushed(e)
      BY DEF Unpushed
    <2>. QED BY <1>3, <2>1 DEF OnceInv, Outside
  <1>. QED BY <1>4, <1>5, <1>6, <1>7, <1>8 DEF Apart

LEMMA PushKeeps ==
  ASSUME OnceInv, NEW x \in Entries, Unpushed(x), queue' = Append(queue, x),
         UNCHANGED <<dead, rows, raw, batch, landed, trim, pc>>,
         \A e : Unpushed(e)' => Unpushed(e) /\ e # x
  PROVE  Injective' /\ Apart' /\ Outside'
  <1>0. queue \in Seq(Entries)
    BY DEF OnceInv, TypeOK
  <1>1. ToSet(queue') = ToSet(queue) \cup {x}
    BY <1>0, ToSetAppend
  <1>2. /\ x \notin ToSet(queue) \cup ToSet(rows) \cup ToSet(dead)
        /\ \A r \in Runs : x \notin ToSet(raw[r]) \cup ToSet(batch[r])
    BY DEF OnceInv, Outside
  <1>3. IsInjective(queue')
    BY <1>0, <1>2, InjectiveAppend DEF OnceInv, Injective
  <1>4. Injective'
    BY <1>3 DEF OnceInv, Injective
  <1>5. \A r \in Runs : ToSet(Left(r)') \subseteq ToSet(Left(r)) \cup {x}
    BY <1>1, RestOfQueue DEF OnceInv, Left
  <1>6. ListsApart' /\ RunsApart'
    BY <1>1, <1>2 DEF OnceInv, Apart, ListsApart, RunsApart
  <1>7. HandsApart'
    BY <1>1, <1>2, <1>5 DEF OnceInv, Apart, HandsApart, Landed
  <1>8. Outside'
    BY <1>1 DEF OnceInv, Outside
  <1>. QED BY <1>4, <1>6, <1>7, <1>8 DEF Apart

-----------------------------------------------------------------------------
(* The handlers and the other writer.                                       *)

\* What a push takes to the queue will not be pushed again.
LEMMA PushCommandTakes ==
  ASSUME TypeOK, NEW q \in Requests, PushCommand(q)
  PROVE  /\ q[sent[q] + 1] \in Entries /\ Unpushed(q[sent[q] + 1])
         /\ \A e : Unpushed(e)' => Unpushed(e) /\ e # q[sent[q] + 1]
  <1>. DEFINE k == sent[q] + 1
              x == q[k]
  <1>1. k \in 1 .. Len(q) /\ x \in Events /\ x \in Entries
    <2>1. k \in 1 .. Len(q)
      BY RequestsAssumption DEF PushCommand, TypeOK
    <2>. QED BY <2>1, EntryTypes
  <1>2. Unpushed(x)
    <2>1. k \in sent[q] + 1 .. Len(q)
      BY <1>1
    <2>. QED BY <2>1 DEF Unpushed
  <1>3. ASSUME NEW e, Unpushed(e)'
        PROVE  Unpushed(e) /\ e # x
    <2>1. CASE e \in foreign'
      <3>1. e \in foreign
        BY <2>1 DEF PushCommand
      <3>2. e # x
        BY <3>1, <1>1, EntriesAssumption DEF TypeOK
      <3>. QED BY <3>1, <3>2 DEF Unpushed
    <2>2. CASE e \notin foreign'
      <3>1. PICK p \in Requests : \E j \in sent'[p] + 1 .. Len(p) : e = p[j]
        BY <1>3, <2>2 DEF Unpushed
      <3>2. PICK j \in sent'[p] + 1 .. Len(p) : e = p[j]
        BY <3>1
      <3>3. /\ sent[p] \in Nat /\ sent'[p] >= sent[p] /\ Len(p) \in Nat
            /\ sent'[p] \in Nat /\ (p = q => sent'[p] = k)
        BY RequestsAssumption DEF PushCommand, TypeOK
      <3>4. j \in sent[p] + 1 .. Len(p) /\ j \in 1 .. Len(p)
        BY <3>3
      <3>5. ~(p = q /\ j = k)
        BY <3>3
      <3>6. e # x
        <4>1. j \in DOMAIN p /\ k \in DOMAIN q
          BY <3>4, <1>1, RequestsAssumption
        <4>. HIDE DEF k
        <4>. QED BY <3>2, <3>5, <4>1, RequestsAssumption
      <3>. QED BY <3>2, <3>4, <3>6 DEF Unpushed
    <2>. QED BY <2>1, <2>2
  <1>. QED BY <1>1, <1>2, <1>3

LEMMA PushCommandKeepsOnce ==
  ASSUME OnceInv, NEW q \in Requests, PushCommand(q)
  PROVE  Injective' /\ Apart' /\ Outside'
  <1>. DEFINE x == q[sent[q] + 1]
  <1>1. /\ queue' = Append(queue, x)
        /\ UNCHANGED <<dead, rows, raw, batch, landed, trim, pc>>
    BY DEF PushCommand, Pushed, runVars
  <1>2. /\ x \in Entries /\ Unpushed(x)
        /\ \A e : Unpushed(e)' => Unpushed(e) /\ e # x
    BY PushCommandTakes DEF OnceInv
  <1>. HIDE DEF x
  <1>. QED BY <1>1, <1>2, PushKeeps

LEMMA HandlerKeepsOnce ==
  ASSUME Separate, OnceInv, NEW q \in Requests, Handler(q)
  PROVE  Injective' /\ Apart' /\ Outside'
  <1>1. CASE PushCommand(q)
    BY <1>1, PushCommandKeepsOnce
  <1>2. CASE ~PushCommand(q)
    <2>1. UNCHANGED <<queue, dead, rows, foreign, sent, raw, batch, landed, trim, pc>>
      BY <1>2 DEF Separate, Handler, Bind, PushReply, PushError, PushAgain,
                  KillHandler, redisVars, runVars
    <2>. QED BY <2>1, IdleKeeps
  <1>. QED BY <1>1, <1>2

LEMMA ForeignPushTakes ==
  ASSUME TypeOK, NEW x \in Undecodable, ForeignPush(x)
  PROVE  /\ x \in Entries /\ Unpushed(x)
         /\ \A e : Unpushed(e)' => Unpushed(e) /\ e # x
  <1>1. x \in Entries /\ x \in foreign
    BY DEF ForeignPush, Entries
  <1>2. ASSUME NEW e, Unpushed(e)'
        PROVE  Unpushed(e) /\ e # x
    <2>1. foreign' = foreign \ {x} /\ sent' = sent
      BY DEF ForeignPush, httpVars
    <2>2. CASE e \in foreign'
      BY <2>1, <2>2 DEF Unpushed
    <2>3. CASE e \notin foreign'
      <3>1. PICK p \in Requests : \E j \in sent[p] + 1 .. Len(p) : e = p[j]
        BY <1>2, <2>1, <2>3 DEF Unpushed
      <3>2. PICK j \in sent[p] + 1 .. Len(p) : e = p[j]
        BY <3>1
      <3>3. sent[p] \in Nat /\ Len(p) \in Nat
        BY RequestsAssumption DEF TypeOK
      <3>4. j \in 1 .. Len(p)
        BY <3>3
      <3>5. e \in Events
        BY <3>2, <3>4, EntryTypes
      <3>. QED BY <3>1, <3>5, EntriesAssumption DEF Unpushed
    <2>. QED BY <2>2, <2>3
  <1>3. Unpushed(x)
    BY <1>1 DEF Unpushed
  <1>. QED BY <1>1, <1>2, <1>3

LEMMA ForeignKeepsOnce ==
  ASSUME OnceInv, NEW x \in Undecodable, ForeignPush(x)
  PROVE  Injective' /\ Apart' /\ Outside'
  <1>1. /\ queue' = Append(queue, x)
        /\ UNCHANGED <<dead, rows, raw, batch, landed, trim, pc>>
    BY DEF ForeignPush, runVars
  <1>. QED BY <1>1, ForeignPushTakes, PushKeeps DEF OnceInv

-----------------------------------------------------------------------------
(* The runs.                                                                *)

LEMMA FinishKeepsOnce ==
  ASSUME OnceInv, NEW r \in Runs, Drop(r),
         UNCHANGED <<queue, dead, rows, foreign, sent>>,
         trim' \in {trim, [trim EXCEPT ![r] = FALSE]}
  PROVE  Injective' /\ Apart' /\ Outside'
  <1>1. raw'[r] = <<>> /\ \A s \in Runs : batch'[s] # <<>> => s # r
    BY DEF Drop, OnceInv, TypeOK
  <1>2. \A s \in Runs \ {r} : pc'[s] = pc[s] /\ landed'[s] = landed[s]
    BY DEF Drop, OnceInv, TypeOK
  <1>3. \A s \in Runs : batch'[s] # <<>> => (Landed(s)' <=> Landed(s))
    BY <1>1, <1>2 DEF Landed
  <1>. QED BY <1>1, <1>3, ReleaseKeeps DEF Drop

\* While a pop may be split, the other runs hold nothing.
LEMMA OthersAreEmptyHanded ==
  ASSUME OnceInv, "split" \in Faults, NEW r \in Runs, pc[r] # "idle",
         NEW s \in Runs \ {r}
  PROVE  raw[s] = <<>> /\ batch[s] = <<>>
  BY DEF OnceInv, Alone, OneActiveRun, Located

LEMMA PopIsApart ==
  ASSUME BatchSize # 0, OnceInv
  PROVE  /\ ToSet(queue) = ToSet(PopHead) \cup ToSet(PopRest)
         /\ ToSet(PopHead) \cap ToSet(PopRest) = {}
         /\ IsInjective(PopHead) /\ IsInjective(PopRest)
         /\ queue = PopHead \o PopRest
         /\ PopHead \in Seq(Entries) /\ PopRest \in Seq(Entries)
  <1>1. queue = PopHead \o PopRest
    BY ConfigAssumption, PopSplitsList DEF OnceInv, TypeOK, PopHead, PopRest
  <1>2. PopHead \in Seq(Entries) /\ PopRest \in Seq(Entries)
    BY PopTypeOK DEF OnceInv
  <1>3. IsInjective(PopHead \o PopRest)
    BY <1>1 DEF OnceInv, Injective
  <1>. QED BY <1>1, <1>2, <1>3, ToSetConcat, InjectiveConcat

LEMMA LRangeKeepsOnce ==
  ASSUME Separate, OnceInv, NEW r \in Runs, ExecLRange(r)
  PROVE  Injective' /\ Apart' /\ Outside'
  <1>1. /\ raw' = [raw EXCEPT ![r] = PopHead] /\ pc[r] = "loop"
        /\ pc' = [pc EXCEPT ![r] = "reply"]
        /\ UNCHANGED <<dead, rows, foreign, sent, batch, landed>>
    BY DEF ExecLRange, httpVars
  <1>2. /\ ToSet(queue) = ToSet(PopHead) \cup ToSet(PopRest)
        /\ ToSet(PopHead) \cap ToSet(PopRest) = {}
        /\ IsInjective(PopHead) /\ IsInjective(PopRest)
    BY PopIsApart DEF Separate
  <1>3. raw'[r] = PopHead /\ \A s \in Runs \ {r} : raw'[s] = raw[s]
    BY <1>1 DEF OnceInv, TypeOK
  <1>4. queue' = queue \/ queue' = PopRest
    BY DEF ExecLRange
  <1>5. ToSet(queue') \subseteq ToSet(queue) /\ IsInjective(queue')
    BY <1>2, <1>4 DEF OnceInv, Injective
  <1>6. /\ \A s \in Runs \ {r} : ToSet(raw[s]) \cap ToSet(queue) = {}
        /\ \A s \in Runs \ {r} : ToSet(raw[s]) \cap ToSet(Left(s)') = {}
        /\ Left(r)' = PopRest
    <2>1. CASE "split" \in Faults
      <3>1. \A s \in Runs \ {r} : raw[s] = <<>>
        BY <1>1, <2>1, OthersAreEmptyHanded
      <3>2. queue' = queue /\ trim'[r]
        BY <2>1 DEF ExecLRange, OnceInv, TypeOK
      <3>. QED BY <3>1, <3>2, ToSetEmpty DEF Left, PopRest
    <2>2. CASE "split" \notin Faults
      <3>1. queue' = PopRest /\ trim' = trim /\ \A s \in Runs : ~trim[s]
        BY <2>2 DEF ExecLRange, OnceInv, Located
      <3>. QED BY <1>5, <3>1 DEF Left, OnceInv, Apart, HandsApart
    <2>. QED BY <2>1, <2>2
  <1>7. \A s \in Runs : Landed(s)' <=> Landed(s)
    BY <1>1 DEF Landed, OnceInv, TypeOK
  <1>8. Injective'
    BY <1>1, <1>2, <1>3, <1>5 DEF OnceInv, Injective
  <1>9. ListsApart'
    BY <1>1, <1>5 DEF OnceInv, Apart, ListsApart
  <1>10. HandsApart'
    <2>1. ASSUME NEW s \in Runs
          PROVE  /\ ToSet(raw'[s]) \cap (ToSet(Left(s)') \cup ToSet(rows) \cup ToSet(dead)) = {}
                 /\ ToSet(batch[s]) \cap (ToSet(queue') \cup ToSet(dead) \cup ToSet(raw'[s])) = {}
      <3>1. CASE s = r
        BY <1>2, <1>3, <1>5, <1>6, <3>1 DEF OnceInv, Apart, ListsApart, HandsApart
      <3>2. CASE s # r
        BY <1>3, <1>5, <1>6, <3>2 DEF OnceInv, Apart, HandsApart
      <3>. QED BY <3>1, <3>2
    <2>. QED BY <1>1, <1>7, <2>1 DEF OnceInv, Apart, HandsApart
  <1>11. RunsApart'
    <2>1. ASSUME NEW s \in Runs \ {r}
          PROVE  (ToSet(PopHead) \cup ToSet(batch[r])) \cap
                   (ToSet(raw[s]) \cup ToSet(batch[s])) = {}
      BY <1>2, <1>6 DEF OnceInv, Apart, HandsApart, RunsApart
    <2>2. ASSUME NEW s \in Runs, NEW t \in Runs, s # t
          PROVE  (ToSet(raw'[s]) \cup ToSet(batch[s])) \cap
                   (ToSet(raw'[t]) \cup ToSet(batch[t])) = {}
      <3>1. CASE s = r \/ t = r
        BY <1>3, <2>1, <2>2, <3>1
      <3>2. CASE s # r /\ t # r
        BY <1>3, <2>2, <3>2 DEF OnceInv, Apart, RunsApart
      <3>. QED BY <3>1, <3>2
    <2>. QED BY <1>1, <2>2 DEF RunsApart
  <1>12. Outside'
    <2>1. \A e : Unpushed(e)' <=> Unpushed(e)
      BY <1>1 DEF Unpushed
    <2>. QED BY <1>1, <1>2, <1>3, <1>5, <2>1 DEF OnceInv, Outside
  <1>. QED BY <1>8, <1>9, <1>10, <1>11, <1>12 DEF Apart

\* An LTRIM, however late, takes away what some run has read, or what no one has.
LEMMA LTrimKeepsOnce ==
  ASSUME Separate, OnceInv, NEW r \in Runs, ExecLTrim(r)
  PROVE  Injective' /\ Apart' /\ Outside'
  <1>1. /\ queue' = PopRest /\ trim' = [trim EXCEPT ![r] = FALSE] /\ trim[r]
        /\ UNCHANGED <<dead, rows, foreign, sent, raw, batch, landed, pc>>
    BY DEF ExecLTrim, httpVars
  <1>2. /\ ToSet(PopRest) \subseteq ToSet(queue) /\ IsInjective(PopRest)
        /\ ToSet(PopRest') \subseteq ToSet(PopRest)
    BY <1>1, PopIsApart, RestOfQueue DEF Separate, OnceInv
  <1>3. \A s \in Runs : ToSet(Left(s)') \subseteq ToSet(Left(s))
    BY <1>1, <1>2 DEF Left, OnceInv, TypeOK
  <1>4. Injective'
    BY <1>1, <1>2 DEF OnceInv, Injective
  <1>5. ListsApart' /\ RunsApart'
    BY <1>1, <1>2 DEF OnceInv, Apart, ListsApart, RunsApart
  <1>6. HandsApart'
    BY <1>1, <1>2, <1>3 DEF OnceInv, Apart, HandsApart, Landed
  <1>7. Outside'
    <2>1. \A e : Unpushed(e)' <=> Unpushed(e)
      BY <1>1 DEF Unpushed
    <2>. QED BY <1>1, <1>2, <2>1 DEF OnceInv, Outside
  <1>. QED BY <1>4, <1>5, <1>6, <1>7 DEF Apart

LEMMA DecodeKeepsOnce ==
  ASSUME OnceInv, NEW r \in Runs, DecodeEntry(r)
  PROVE  Injective' /\ Apart' /\ Outside'
  <1>. DEFINE x == Head(raw[r])
  <1>1. /\ raw[r] \in Seq(Entries) /\ raw[r] # <<>> /\ batch[r] \in Seq(Events)
        /\ raw' = [raw EXCEPT ![r] = Tail(raw[r])]
        /\ UNCHANGED <<queue, dead, rows, foreign, sent, landed, trim, pc>>
    BY DEF DecodeEntry, OnceInv, TypeOK, redisVars, httpVars
  <1>2. /\ ToSet(raw[r]) = {x} \cup ToSet(Tail(raw[r])) /\ x \notin ToSet(Tail(raw[r]))
        /\ IsInjective(Tail(raw[r])) /\ x \in Entries
    BY <1>1, ToSetHeadTail, InjectiveHeadTail DEF OnceInv, Injective
  <1>3. raw'[r] = Tail(raw[r]) /\ \A s \in Runs \ {r} : raw'[s] = raw[s]
    BY <1>1 DEF OnceInv, TypeOK
  <1>4. /\ ToSet(batch'[r]) \subseteq ToSet(batch[r]) \cup {x}
        /\ IsInjective(batch'[r]) /\ \A s \in Runs \ {r} : batch'[s] = batch[s]
    <2>1. CASE x \in Undecodable
      BY <2>1 DEF DecodeEntry, OnceInv, Injective
    <2>2. CASE x \notin Undecodable
      <3>1. x \in Events /\ x \notin ToSet(batch[r])
        BY <1>2, <2>2, EntryTypes DEF OnceInv, Apart, HandsApart
      <3>2. batch' = [batch EXCEPT ![r] = Append(@, x)]
        BY <2>2 DEF DecodeEntry
      <3>3. batch'[r] = Append(batch[r], x) /\ \A s \in Runs \ {r} : batch'[s] = batch[s]
        BY <3>2 DEF OnceInv, TypeOK
      <3>4. IsInjective(batch[r])
        BY DEF OnceInv, Injective
      <3>. QED BY <1>1, <3>1, <3>3, <3>4, ToSetAppend, InjectiveAppend
    <2>. QED BY <2>1, <2>2
  <1>5. /\ \A s \in Runs : ToSet(raw'[s]) \cup ToSet(batch'[s])
                               \subseteq ToSet(raw[s]) \cup ToSet(batch[s])
        /\ \A s \in Runs : ToSet(raw'[s]) \subseteq ToSet(raw[s])
        /\ \A s \in Runs : ToSet(raw'[s]) \cap ToSet(batch'[s]) = {}
    BY <1>2, <1>3, <1>4 DEF OnceInv, Apart, HandsApart
  <1>6. \A s \in Runs : Landed(s)' <=> Landed(s)
    BY <1>1 DEF Landed
  <1>7. Injective'
    BY <1>1, <1>2, <1>3, <1>4 DEF OnceInv, Injective
  <1>8. ListsApart' /\ RunsApart'
    BY <1>1, <1>5 DEF OnceInv, Apart, ListsApart, RunsApart
  <1>9. HandsApart'
    <2>1. ASSUME NEW s \in Runs, ~Landed(s)
          PROVE  ToSet(batch'[s]) \cap ToSet(rows) = {}
      BY <1>5, <2>1 DEF OnceInv, Apart, HandsApart
    <2>2. ~trim[r]
      BY DEF DecodeEntry, OnceInv, Located
    <2>3. ASSUME NEW s \in Runs
          PROVE  ToSet(batch'[s]) \cap (ToSet(queue) \cup ToSet(dead)) = {}
      <3>1. CASE s = r
        BY <1>2, <1>4, <2>2, <3>1 DEF OnceInv, Apart, HandsApart, Left
      <3>2. CASE s # r
        BY <1>4, <3>2 DEF OnceInv, Apart, HandsApart
      <3>. QED BY <3>1, <3>2
    <2>4. \A s \in Runs : Left(s)' = Left(s)
      BY <1>1 DEF Left, PopRest
    <2>. QED BY <1>1, <1>5, <1>6, <2>1, <2>3, <2>4 DEF OnceInv, Apart, HandsApart
  <1>10. Outside'
    <2>1. \A e : Unpushed(e)' <=> Unpushed(e)
      BY <1>1 DEF Unpushed
    <2>. QED BY <1>1, <1>5, <2>1 DEF OnceInv, Outside
  <1>. QED BY <1>7, <1>8, <1>9, <1>10 DEF Apart

\* A commit, answered or not, of a batch that is not in the table.
LEMMA StoreKeepsOnce ==
  ASSUME OnceInv, NEW r \in Runs, InsertOk(r) \/ InsertLost(r)
  PROVE  Injective' /\ Apart' /\ Outside'
  <1>1. /\ rows' = rows \o batch[r] /\ ~Landed(r) /\ pc[r] = "insert"
        /\ UNCHANGED <<queue, dead, foreign, sent, raw, trim>>
        /\ rows \in Seq(Events) /\ batch[r] \in Seq(Events)
    BY DEF InsertOk, InsertLost, Stored, KeysClash, MayInsert, Landed, OnceInv, TypeOK,
           redisVars, httpVars
  <1>2. ToSet(rows') = ToSet(rows) \cup ToSet(batch[r])
    BY <1>1, ToSetConcat
  <1>3. IsInjective(rows')
    <2>1. ToSet(rows) \cap ToSet(batch[r]) = {}
      BY <1>1 DEF OnceInv, Apart, HandsApart
    <2>2. IsInjective(rows) /\ IsInjective(batch[r])
      BY DEF OnceInv, Injective
    <2>. QED BY <1>1, <2>1, <2>2, InjectiveConcat
  <1>4. /\ \A s \in Runs : batch'[s] = batch[s] \/ batch'[s] = <<>>
        /\ batch'[r] = <<>> \/ Landed(r)'
        /\ \A s \in Runs \ {r} : batch'[s] = batch[s] /\ (Landed(s)' <=> Landed(s))
        /\ "commit" \notin Faults => landed' = landed
    <2>1. CASE InsertOk(r)
      BY <2>1 DEF InsertOk, OnceInv, TypeOK, Landed
    <2>2. CASE InsertLost(r)
      BY <1>1, <2>2 DEF InsertLost, OnceInv, TypeOK, Landed
    <2>. QED BY <2>1, <2>2
  <1>5. \A s \in Runs : ToSet(batch'[s]) \subseteq ToSet(batch[s])
    BY <1>4, ToSetEmpty
  <1>6. Injective'
    BY <1>1, <1>3, <1>4, InjectiveEmpty DEF OnceInv, Injective
  <1>7. ListsApart'
    BY <1>1, <1>2, <1>4 DEF OnceInv, Apart, ListsApart, HandsApart
  <1>8. HandsApart'
    <2>1. ASSUME NEW s \in Runs, ~Landed(s)'
          PROVE  ToSet(batch'[s]) \cap ToSet(rows') = {}
      <3>1. CASE s = r
        BY <1>4, <2>1, <3>1, ToSetEmpty
      <3>2. CASE s # r
        BY <1>2, <1>4, <2>1, <3>2 DEF OnceInv, Apart, HandsApart, RunsApart
      <3>. QED BY <3>1, <3>2
    <2>2. ASSUME NEW s \in Runs
          PROVE  ToSet(raw[s]) \cap ToSet(rows') = {}
      <3>1. CASE s = r
        BY <1>2, <3>1 DEF OnceInv, Apart, HandsApart
      <3>2. CASE s # r
        BY <1>2, <3>2 DEF OnceInv, Apart, HandsApart, RunsApart
      <3>. QED BY <3>1, <3>2
    <2>3. \A s \in Runs : Left(s)' = Left(s)
      BY <1>1 DEF Left, PopRest
    <2>. QED BY <1>1, <1>5, <2>1, <2>2, <2>3 DEF OnceInv, Apart, HandsApart
  <1>9. RunsApart'
    BY <1>1, <1>5 DEF OnceInv, Apart, RunsApart
  <1>10. Outside'
    <2>1. \A e : Unpushed(e)' <=> Unpushed(e)
      BY <1>1 DEF Unpushed
    <2>. QED BY <1>1, <1>2, <1>5, <2>1 DEF OnceInv, Outside
  <1>. QED BY <1>6, <1>7, <1>8, <1>9, <1>10 DEF Apart

LEMMA BuryKeepsOnce ==
  ASSUME OnceInv, NEW r \in Runs, Bury(r)
  PROVE  Injective' /\ Apart' /\ Outside'
  <1>. DEFINE x == Head(batch[r])
  <1>1. /\ batch[r] \in Seq(Events) /\ batch[r] # <<>> /\ dead \in Seq(Events)
        /\ batch' = [batch EXCEPT ![r] = Tail(batch[r])]
        /\ pc[r] = "bury"
        /\ pc' = [pc EXCEPT ![r] = IF Tail(batch[r]) = <<>> THEN "loop" ELSE "bury"]
        /\ UNCHANGED <<queue, rows, foreign, sent, raw, landed, trim>>
    BY DEF Bury, OnceInv, TypeOK, httpVars
  <1>2. /\ ToSet(batch[r]) = {x} \cup ToSet(Tail(batch[r]))
        /\ x \notin ToSet(Tail(batch[r])) /\ IsInjective(Tail(batch[r])) /\ x \in Events
    BY <1>1, ToSetHeadTail, InjectiveHeadTail DEF OnceInv, Injective
  <1>3. ToSet(dead') \subseteq ToSet(dead) \cup {x}
    <2>1. dead' # dead => ToSet(dead') = ToSet(dead) \cup {x}
      BY <1>1, <1>2, BuryAdds
    <2>. HIDE DEF x
    <2>. QED BY <2>1
  <1>4. batch'[r] = Tail(batch[r]) /\ \A s \in Runs \ {r} : batch'[s] = batch[s]
    BY <1>1 DEF OnceInv, TypeOK
  <1>5. /\ \A s \in Runs : ToSet(batch'[s]) \subseteq ToSet(batch[s])
        /\ \A s \in Runs : x \notin ToSet(raw[s]) \cup ToSet(batch'[s])
        /\ x \notin ToSet(queue)
    BY <1>2, <1>4 DEF OnceInv, Apart, HandsApart, RunsApart
  <1>6. \A s \in Runs : batch'[s] = <<>> \/ (Landed(s)' <=> Landed(s))
    BY <1>1, <1>4 DEF Landed, OnceInv, TypeOK
  <1>7. Injective'
    BY <1>1, <1>2, <1>4 DEF OnceInv, Injective
  <1>8. ListsApart'
    <2>1. ASSUME "commit" \notin Faults PROVE x \notin ToSet(rows)
      <3>1. ~Landed(r)
        BY <2>1 DEF OnceInv, Apart, ListsApart, Landed
      <3>. QED BY <1>2, <3>1 DEF OnceInv, Apart, HandsApart
    <2>. QED BY <1>1, <1>3, <1>5, <2>1 DEF OnceInv, Apart, ListsApart
  <1>9. HandsApart'
    <2>1. ASSUME NEW s \in Runs, ~Landed(s)'
          PROVE  ToSet(batch'[s]) \cap ToSet(rows) = {}
      <3>1. CASE batch'[s] = <<>>
        BY <3>1, ToSetEmpty
      <3>2. CASE batch'[s] # <<>>
        BY <1>5, <1>6, <2>1, <3>2 DEF OnceInv, Apart, HandsApart
      <3>. QED BY <3>1, <3>2
    <2>2. ASSUME NEW s \in Runs
          PROVE  /\ ToSet(raw[s]) \cap (ToSet(Left(s)) \cup ToSet(rows) \cup ToSet(dead')) = {}
                 /\ ToSet(batch'[s]) \cap (ToSet(queue) \cup ToSet(dead') \cup ToSet(raw[s])) = {}
      <3>. HIDE DEF x
      <3>. QED BY <1>3, <1>5 DEF OnceInv, Apart, HandsApart
    <2>3. \A s \in Runs : Left(s)' = Left(s)
      BY <1>1 DEF Left, PopRest
    <2>. QED BY <1>1, <2>1, <2>2, <2>3 DEF HandsApart
  <1>10. RunsApart'
    BY <1>1, <1>5 DEF OnceInv, Apart, RunsApart
  <1>11. Outside'
    <2>1. \A e : Unpushed(e)' <=> Unpushed(e)
      BY <1>1 DEF Unpushed
    <2>2. \A e : Unpushed(e) => e # x
      BY <1>2 DEF OnceInv, Outside
    <2>. QED BY <1>1, <1>3, <1>5, <2>1, <2>2 DEF OnceInv, Outside
  <1>. QED BY <1>7, <1>8, <1>9, <1>10, <1>11 DEF Apart

LEMMA RunStepKeepsOnce ==
  ASSUME Separate, OnceInv, NEW r \in Runs, RunStep(r)
  PROVE  Injective' /\ Apart' /\ Outside'
  <1>. USE DEF redisVars, httpVars
  <1>1. CASE QueueSize(r)
    <2>1. CASE Finish(r)
      BY <1>1, <2>1, FinishKeepsOnce DEF QueueSize, Finish
    <2>2. CASE ~Finish(r)
      BY <1>1, <2>2, ReleaseKeeps DEF QueueSize, Landed, OnceInv, TypeOK
    <2>. QED BY <2>1, <2>2
  <1>2. CASE LoopExpired(r)
    BY <1>2, FinishKeepsOnce DEF LoopExpired, Finish
  <1>3. CASE ExecLRange(r)
    BY <1>3, LRangeKeepsOnce
  <1>4. CASE ExecLTrim(r)
    BY <1>4, LTrimKeepsOnce
  <1>5. CASE PopReply(r)
    BY <1>5, ReleaseKeeps DEF PopReply, Landed, OnceInv, TypeOK
  <1>6. CASE PopError(r)
    BY <1>6, FinishKeepsOnce DEF PopError, Finish
  <1>7. CASE PopAgain(r)
    BY <1>7, ReleaseKeeps DEF PopAgain, Landed, OnceInv, TypeOK
  <1>8. CASE DecodeEntry(r)
    BY <1>8, DecodeKeepsOnce
  <1>9. CASE DecodeDone(r)
    <2>1. CASE Finish(r)
      BY <1>9, <2>1, FinishKeepsOnce DEF DecodeDone, Finish
    <2>2. CASE ~Finish(r)
      BY <1>9, <2>2, ReleaseKeeps DEF DecodeDone, Landed, OnceInv, TypeOK
    <2>. QED BY <2>1, <2>2
  <1>10. CASE InsertOk(r) \/ InsertLost(r)
    BY <1>10, StoreKeepsOnce
  <1>11. CASE InsertFail(r)
    BY <1>11, ReleaseKeeps DEF InsertFail, RolledBack, Landed, OnceInv, TypeOK
  <1>12. CASE GiveUp(r)
    BY <1>12, ReleaseKeeps DEF GiveUp, Landed, OnceInv, TypeOK
  <1>13. CASE Bury(r)
    BY <1>13, BuryKeepsOnce
  <1>. QED
    BY <1>1, <1>2, <1>3, <1>4, <1>5, <1>6, <1>7, <1>8, <1>9, <1>10, <1>11,
       <1>12, <1>13 DEF RunStep

\* What happens to a run from outside.
LEMMA EnvironmentKeepsOnce ==
  ASSUME OnceInv,
         (\E r \in Runs : Tick(r) \/ Timeout(r) \/ Kill(r)) \/ LockExpire
  PROVE  Injective' /\ Apart' /\ Outside'
  <1>. USE DEF redisVars, httpVars, runVars
  <1>1. ASSUME NEW r \in Runs, Tick(r)
        PROVE  Injective' /\ Apart' /\ Outside'
    BY <1>1, ReleaseKeeps DEF Tick, Landed, OnceInv, TypeOK
  <1>2. ASSUME NEW r \in Runs, Timeout(r)
        PROVE  Injective' /\ Apart' /\ Outside'
    BY <1>2, IdleKeeps DEF Timeout
  <1>3. ASSUME NEW r \in Runs, Kill(r)
        PROVE  Injective' /\ Apart' /\ Outside'
    BY <1>3, FinishKeepsOnce DEF Kill
  <1>4. CASE LockExpire
    BY <1>4, IdleKeeps DEF LockExpire
  <1>. QED BY <1>1, <1>2, <1>3, <1>4

LEMMA AlwaysAlone ==
  ASSUME Separate
  PROVE  Spec => []Alone
  <1>1. CASE "split" \in Faults
    <2>1. "ttl" \notin Faults
      BY <1>1 DEF Separate
    <2>2. OneActiveRun => Alone
      BY DEF Alone
    <2>. QED BY <2>1, <2>2, RunsExclude, PTL
  <1>2. CASE "split" \notin Faults
    <2>1. Alone
      BY <1>2 DEF Alone
    <2>. QED BY <2>1, PTL
  <1>. QED BY <1>1, <1>2

LEMMA OnceInvIsInvariant ==
  ASSUME Separate
  PROVE  Spec => []OnceInv
  <1>1. OnceInv /\ (TypeOK /\ Located /\ Alone)' /\ [Next]_vars => OnceInv'
    <2>. SUFFICES ASSUME OnceInv, [Next]_vars
                  PROVE  Injective' /\ Apart' /\ Outside'
      BY DEF OnceInv
    <2>1. CASE UNCHANGED vars
      BY <2>1, IdleKeeps DEF vars, redisVars, httpVars, runVars
    <2>. QED
      BY <2>1, HandlerKeepsOnce, ForeignKeepsOnce, RunStepKeepsOnce,
         EnvironmentKeepsOnce DEF Next
  <1>. QED BY <1>1, InitOnceInv, TypeCorrect, AlwaysLocated, AlwaysAlone, PTL DEF Spec

\* No event gets two rows, whatever retries, lost replies, timeouts and kills
\* there are, as long as no push is sent twice and either the runs exclude each
\* other or each pop's commands run back to back, but not necessarily both
\* (event_processor.go:123-139, base_model.go:12-17, event_buffer.go:64-68).
THEOREM StoredOnce ==
  ASSUME Separate
  PROVE  Spec => []AtMostOnce
  <1>. QED BY OnceInvIsInvariant, OnceInvSuffices, PTL

\* When every commit is answered, too, no dead letter is in the table: replaying
\* the dead-letter list would store nothing twice (event_processor.go:71-77).
THEOREM DeadLettersAreNew ==
  ASSUME Separate, "commit" \notin Faults
  PROVE  Spec => []DeadMeansNotStored
  <1>1. OnceInv => DeadMeansNotStored
    BY OnceInvSuffices
  <1>. QED BY <1>1, OnceInvIsInvariant, PTL

\* Where commits may go unanswered, a stored event becomes a dead letter only if
\* its own run has stored it and did not learn so: no other run and no earlier
\* batch is to blame (event_processor.go:71-77,126-135).
THEOREM DeadLettersClashed ==
  ASSUME Separate
  PROVE  Spec => DeadOnlyIfUnanswered
  <1>. DEFINE Blamed == \A e \in ToSet(dead') \ ToSet(dead) : e \in ToSet(rows) =>
                \E r \in Runs : landed[r] /\ batch[r] # <<>> /\ Head(batch[r]) = e
  <1>1. OnceInv /\ [Next]_vars => Blamed
    <2>. SUFFICES ASSUME OnceInv, [Next]_vars,
                         NEW e \in ToSet(dead') \ ToSet(dead), e \in ToSet(rows)
                  PROVE  \E r \in Runs : landed[r] /\ batch[r] # <<>> /\ Head(batch[r]) = e
      OBVIOUS
    <2>1. dead' # dead
      OBVIOUS
    <2>2. PICK r \in Runs : Bury(r)
      BY <2>1 DEF Next, vars, redisVars, runVars, Handler, Bind, PushCommand, PushReply,
           PushError, PushAgain, KillHandler, ForeignPush, Tick, Timeout, Kill,
           LockExpire, RunStep, QueueSize, LoopExpired, ExecLRange, ExecLTrim,
           PopReply, PopError, PopAgain, DecodeEntry, DecodeDone, InsertOk,
           InsertFail, InsertLost, GiveUp
    <2>3. /\ batch[r] \in Seq(Events) /\ batch[r] # <<>> /\ dead \in Seq(Events)
          /\ pc[r] = "bury"
      BY <2>1, <2>2 DEF Bury, OnceInv, TypeOK
    <2>4. /\ Head(batch[r]) \in Events
          /\ ToSet(batch[r]) = {Head(batch[r])} \cup ToSet(Tail(batch[r]))
      BY <2>3, ToSetHeadTail
    <2>5. e = Head(batch[r])
      BY <2>1, <2>2, <2>3, <2>4, BuryAdds
    <2>6. Landed(r)
      BY <2>4, <2>5 DEF OnceInv, Apart, HandsApart
    <2>. QED BY <2>3, <2>5, <2>6 DEF Landed
  <1>. QED BY <1>1, OnceInvIsInvariant, PTL DEF Spec, DeadOnlyIfUnanswered
=============================================================================
