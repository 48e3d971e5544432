--------------------------- MODULE DeliveryProofs ---------------------------
(* Events are stored in the order of their request, for all constants, and  *)
(* every step of the pipeline is a step of the contract with its clients.   *)
EXTENDS OnceProofs, PipelineRefinement

\* The request that carries e and f carries e before f.
Before(e, f) ==
  \E q \in Requests : \E j \in DOMAIN q : \E i \in 1 .. j - 1 : e = q[i] /\ f = q[j]

Sorted(s) == \A m, n \in DOMAIN s : Before(s[m], s[n]) => m < n

\* Nothing in back should have come before something in front.
Behind(front, back) == \A f \in front, e \in back : ~Before(e, f)

\* The table, then the batch, then what is not decoded yet, then what is not
\* popped yet: each is sorted, and all of it is, read in this sequence.
Ordered(r) ==
  /\ Sorted(raw[r]) /\ Sorted(batch[r])
  /\ Behind(ToSet(rows), ToSet(raw[r]))
  /\ ~Landed(r) => Behind(ToSet(rows), ToSet(batch[r]))
  /\ Behind(ToSet(batch[r]), ToSet(raw[r]))
  /\ Behind(ToSet(batch[r]), ToSet(queue))
  /\ Behind(ToSet(raw[r]), ToSet(Left(r)))

OrderInv ==
  /\ Sorted(queue) /\ Sorted(rows) /\ Behind(ToSet(rows), ToSet(queue))
  /\ \A r \in Runs : Ordered(r)

-----------------------------------------------------------------------------
(* Sorted sequences.                                                        *)

LEMMA SortedEmpty == Sorted(<<>>)
  BY DEF Sorted

LEMMA SortedConcat ==
  ASSUME NEW S, NEW s \in Seq(S), NEW t \in Seq(S)
  PROVE  Sorted(s \o t) <=>
           Sorted(s) /\ Sorted(t) /\ Behind(ToSet(s), ToSet(t))
  <1>. DEFINE u == s \o t
              m == Len(s)
              n == Len(t)
  <1>1. /\ m \in Nat /\ n \in Nat
        /\ DOMAIN s = 1 .. m /\ DOMAIN t = 1 .. n /\ DOMAIN u = 1 .. m + n
        /\ \A i \in 1 .. m : u[i] = s[i]
        /\ \A i \in 1 .. n : u[m + i] = t[i]
    BY ConcatElements
  <1>. HIDE DEF u, m, n
  <1>2. ASSUME Sorted(u)
        PROVE  Sorted(s) /\ Sorted(t) /\ Behind(ToSet(s), ToSet(t))
    <2>0. \A i, j \in 1 .. m + n : Before(u[i], u[j]) => i < j
      BY <1>1, <1>2 DEF Sorted
    <2>1. ASSUME NEW i \in 1 .. m, NEW j \in 1 .. m, Before(s[i], s[j]) PROVE i < j
      BY <1>1, <2>0, <2>1
    <2>2. ASSUME NEW i \in 1 .. n, NEW j \in 1 .. n, Before(t[i], t[j]) PROVE i < j
      <3>1. m + i \in 1 .. m + n /\ m + j \in 1 .. m + n /\ Before(u[m + i], u[m + j])
        BY <1>1, <2>2
      <3>2. m + i < m + j
        BY <2>0, <3>1
      <3>. QED BY <1>1, <3>2
    <2>3. ASSUME NEW i \in 1 .. m, NEW j \in 1 .. n PROVE ~Before(t[j], s[i])
      <3>1. i \in 1 .. m + n /\ m + j \in 1 .. m + n /\ ~(m + j < i)
        BY <1>1
      <3>. QED BY <1>1, <2>0, <3>1
    <2>. QED BY <1>1, <2>1, <2>2, <2>3 DEF Sorted, Behind, ToSet
  <1>3. ASSUME Sorted(s), Sorted(t), Behind(ToSet(s), ToSet(t)),
               NEW i \in 1 .. m + n, NEW j \in 1 .. m + n, Before(u[i], u[j])
        PROVE  i < j
    <2>1. \A k \in 1 .. m + n : k \in 1 .. m \/ (k - m \in 1 .. n /\ m + (k - m) = k)
      BY <1>1
    <2>2. \A k \in 1 .. m, l \in 1 .. n : ~Before(t[l], s[k])
      BY <1>1, <1>3 DEF ToSet, Behind
    <2>3. CASE i \in 1 .. m /\ j \in 1 .. m
      BY <1>1, <1>3, <2>3 DEF Sorted
    <2>4. CASE i \in 1 .. m /\ j \notin 1 .. m
      BY <1>1, <2>4
    <2>5. CASE i \notin 1 .. m /\ j \in 1 .. m
      <3>1. u[j] = s[j] /\ i - m \in 1 .. n /\ u[m + (i - m)] = u[i]
        BY <1>1, <2>1, <2>5
      <3>. QED BY <1>1, <1>3, <2>2, <2>5, <3>1
    <2>6. CASE i \notin 1 .. m /\ j \notin 1 .. m
      <3>1. /\ i - m \in 1 .. n /\ u[m + (i - m)] = u[i]
            /\ j - m \in 1 .. n /\ u[m + (j - m)] = u[j]
        BY <1>1, <2>1, <2>6
      <3>2. Before(t[i - m], t[j - m])
        BY <1>1, <1>3, <3>1
      <3>3. i - m < j - m
        BY <1>1, <1>3, <3>1, <3>2 DEF Sorted
      <3>. QED BY <1>1, <3>3
    <2>. QED BY <2>3, <2>4, <2>5, <2>6
  <1>4. Sorted(u) <=> Sorted(s) /\ Sorted(t) /\ Behind(ToSet(s), ToSet(t))
    BY <1>1, <1>2, <1>3 DEF Sorted
  <1>. QED BY <1>4 DEF u

\* An event is carried once, so it is not before itself.
LEMMA BeforeIsIrreflexive == \A e : ~Before(e, e)
  <1>. SUFFICES ASSUME NEW q \in Requests, NEW j \in DOMAIN q, NEW i \in 1 .. j - 1
                PROVE  q[i] # q[j]
    BY RequestsAssumption DEF Before
  <1>1. j \in 1 .. Len(q) /\ Len(q) \in Nat
    BY RequestsAssumption
  <1>2. i \in DOMAIN q /\ i # j
    BY <1>1, RequestsAssumption
  <1>. QED BY <1>2, RequestsAssumption

LEMMA ToSetSingle == \A e : ToSet(<<e>>) = {e}
  BY DEF ToSet

LEMMA SortedSingle == \A e : Sorted(<<e>>)
  BY BeforeIsIrreflexive DEF Sorted

LEMMA SortedAppend ==
  ASSUME NEW S, NEW s \in Seq(S), NEW e \in S, Sorted(s), Behind(ToSet(s), {e})
  PROVE  Sorted(Append(s, e))
  <1>1. Append(s, e) = s \o <<e>> /\ <<e>> \in Seq(S)
    OBVIOUS
  <1>. QED BY <1>1, SortedConcat, SortedSingle, ToSetSingle

LEMMA SortedHeadTail ==
  ASSUME NEW S, NEW s \in Seq(S), s # <<>>, Sorted(s)
  PROVE  Sorted(Tail(s)) /\ Behind({Head(s)}, ToSet(Tail(s)))
  <1>1. s = <<Head(s)>> \o Tail(s) /\ <<Head(s)>> \in Seq(S) /\ Tail(s) \in Seq(S)
    OBVIOUS
  <1>2. Sorted(<<Head(s)>> \o Tail(s))
    BY <1>1
  <1>3. Sorted(Tail(s)) /\ Behind(ToSet(<<Head(s)>>), ToSet(Tail(s)))
    BY <1>1, <1>2, SortedConcat
  <1>. QED BY <1>3, ToSetSingle

-----------------------------------------------------------------------------
(* The order of the rows.                                                   *)

LEMMA OrderInvSuffices == OnceInv /\ OrderInv => InOrder
  <1>. SUFFICES ASSUME OnceInv, OrderInv, NEW q \in Requests, NEW j \in DOMAIN q,
                       NEW i \in 1 .. j - 1, NEW n \in DOMAIN rows, rows[n] = q[j]
                PROVE  /\ q[i] \notin ToSet(queue)
                       /\ \A m \in DOMAIN rows : rows[m] = q[i] => m < n
    BY DEF InOrder
  <1>1. Before(q[i], q[j]) /\ rows[n] \in ToSet(rows)
    BY DEF Before, ToSet
  <1>. QED BY <1>1 DEF OrderInv, Sorted, Behind

LEMMA InitOrderInv == Init => OrderInv
  BY SortedEmpty, ToSetEmpty DEF Init, OrderInv, Ordered, Behind

\* What runs let go of, and what they do not touch, stays in order.
LEMMA ReleaseKeepsOrder ==
  ASSUME OnceInv, OrderInv, NEW r \in Runs,
         UNCHANGED <<queue, rows>>,
         raw' \in {raw, [raw EXCEPT ![r] = <<>>]},
         batch' \in {batch, [batch EXCEPT ![r] = <<>>]},
         trim' = trim \/ (trim' = [trim EXCEPT ![r] = FALSE] /\ raw'[r] = <<>>),
         \A s \in Runs : batch'[s] # <<>> => (Landed(s)' <=> Landed(s))
  PROVE  OrderInv'
  <1>1. /\ \A s \in Runs : raw'[s] = raw[s] \/ raw'[s] = <<>>
        /\ \A s \in Runs : batch'[s] = batch[s] \/ batch'[s] = <<>>
        /\ \A s \in Runs : trim'[s] = trim[s] \/ raw'[s] = <<>>
    BY DEF OnceInv, TypeOK
  <1>2. \A s \in Runs : ToSet(raw'[s]) = {} \/ Left(s)' = Left(s)
    BY <1>1, ToSetEmpty DEF Left, PopRest
  <1>3. ASSUME NEW s \in Runs
        PROVE  Ordered(s)'
    BY <1>1, <1>2, SortedEmpty, ToSetEmpty DEF OrderInv, Ordered, Behind
  <1>. QED BY <1>3 DEF OrderInv

\* A push brings what comes before nothing that was pushed earlier.
LEMMA PushKeepsOrder ==
  ASSUME OnceInv, OrderInv, NEW x \in Entries, queue' = Append(queue, x),
         UNCHANGED <<rows, raw, batch, landed, trim, pc>>,
         \A f : Before(x, f) => Unpushed(f)
  PROVE  OrderInv'
  <1>1. queue \in Seq(Entries) /\ ToSet(queue') = ToSet(queue) \cup {x}
    BY ToSetAppend DEF OnceInv, TypeOK
  <1>2. /\ \A f \in ToSet(queue) \cup ToSet(rows) : ~Before(x, f)
        /\ \A s \in Runs : \A f \in ToSet(raw[s]) \cup ToSet(batch[s]) : ~Before(x, f)
    BY DEF OnceInv, Outside
  <1>3. Sorted(queue')
    <2>1. Behind(ToSet(queue), {x})
      BY <1>2 DEF Behind
    <2>. QED BY <1>1, <2>1, SortedAppend DEF OrderInv
  <1>4. Behind(ToSet(rows), ToSet(queue'))
    BY <1>1, <1>2 DEF OrderInv, Behind
  <1>5. ASSUME NEW s \in Runs
        PROVE  Ordered(s)'
    <2>1. ToSet(Left(s)') \subseteq ToSet(Left(s)) \cup {x}
      BY <1>1, RestOfQueue DEF OnceInv, Left
    <2>2. Behind(ToSet(raw[s]), ToSet(Left(s)')) /\ Behind(ToSet(batch[s]), ToSet(queue'))
      BY <1>1, <1>2, <2>1 DEF OrderInv, Ordered, Behind
    <2>3. Landed(s)' <=> Landed(s)
      BY DEF Landed
    <2>. QED BY <2>2, <2>3 DEF OrderInv, Ordered
  <1>. QED BY <1>3, <1>4, <1>5 DEF OrderInv

LEMMA HandlerKeepsOrder ==
  ASSUME Separate, OnceInv, OrderInv, NEW q \in Requests, Handler(q)
  PROVE  OrderInv'
  <1>1. CASE PushCommand(q)
    <2>. DEFINE k == sent[q] + 1
                x == q[k]
    <2>1. k \in 1 .. Len(q) /\ k \in DOMAIN q /\ x \in Entries
      <3>1. k \in 1 .. Len(q) /\ k \in DOMAIN q
        BY <1>1, RequestsAssumption DEF PushCommand, OnceInv, TypeOK
      <3>. QED BY <3>1, EntryTypes
    <2>2. ASSUME NEW f, Before(x, f)
          PROVE  Unpushed(f)
      <3>1. PICK p \in Requests : \E j \in DOMAIN p : \E i \in 1 .. j - 1 : x = p[i] /\ f = p[j]
        BY <2>2 DEF Before
      <3>2. PICK j \in DOMAIN p : \E i \in 1 .. j - 1 : x = p[i] /\ f = p[j]
        BY <3>1
      <3>3. PICK i \in 1 .. j - 1 : x = p[i] /\ f = p[j]
        BY <3>2
      <3>4. j \in 1 .. Len(p) /\ Len(p) \in Nat
        BY RequestsAssumption
      <3>5. i \in DOMAIN p
        BY <3>4, RequestsAssumption
      <3>6. p = q /\ i = k
        <4>. HIDE DEF k
        <4>. QED BY <2>1, <3>3, <3>5, RequestsAssumption
      <3>7. j \in sent[q] + 1 .. Len(q)
        BY <2>1, <3>4, <3>6
      <3>. QED BY <3>3, <3>6, <3>7 DEF Unpushed
    <2>3. queue' = Append(queue, x) /\ UNCHANGED <<rows, raw, batch, landed, trim, pc>>
      BY <1>1 DEF PushCommand, Pushed, runVars
    <2>. HIDE DEF k, x
    <2>. QED BY <2>1, <2>2, <2>3, PushKeepsOrder
  <1>2. CASE ~PushCommand(q)
    <2>1. UNCHANGED <<queue, rows, raw, batch, landed, trim, pc>>
      BY <1>2 DEF Separate, Handler, Bind, PushReply, PushError, PushAgain,
                  KillHandler, redisVars, runVars
    <2>. QED BY <2>1 DEF OrderInv, Ordered, Landed, Left, PopRest
  <1>. QED BY <1>1, <1>2

LEMMA ForeignKeepsOrder ==
  ASSUME OnceInv, OrderInv, NEW x \in Undecodable, ForeignPush(x)
  PROVE  OrderInv'
  <1>1. ASSUME NEW f, Before(x, f)
        PROVE  FALSE
    <2>1. PICK q \in Requests : \E j \in DOMAIN q : \E i \in 1 .. j - 1 : x = q[i]
      BY <1>1 DEF Before
    <2>2. PICK j \in DOMAIN q : \E i \in 1 .. j - 1 : x = q[i]
      BY <2>1
    <2>3. PICK i \in 1 .. j - 1 : x = q[i]
      BY <2>2
    <2>4. i \in 1 .. Len(q)
      BY RequestsAssumption
    <2>. QED BY <2>3, <2>4, EntryTypes, EntriesAssumption
  <1>2. x \in Entries /\ queue' = Append(queue, x)
        /\ UNCHANGED <<rows, raw, batch, landed, trim, pc>>
    BY DEF ForeignPush, runVars, Entries
  <1>. QED BY <1>1, <1>2, PushKeepsOrder

\* While runs exclude each other, the others hold nothing.
LEMMA OthersHoldNothing ==
  ASSUME OnceInv, OneActiveRun, NEW r \in Runs, pc[r] # "idle", NEW s \in Runs \ {r}
  PROVE  raw[s] = <<>> /\ batch[s] = <<>>
  BY DEF OnceInv, OneActiveRun, Located

\* So a run's step is in order when what that run then holds is.
LEMMA OneRunKeepsOrder ==
  ASSUME OnceInv, OneActiveRun, NEW r \in Runs, pc[r] # "idle", Ordered(r)',
         \A s \in Runs \ {r} : raw'[s] = raw[s] /\ batch'[s] = batch[s],
         Sorted(queue'), Sorted(rows'), Behind(ToSet(rows'), ToSet(queue'))
  PROVE  OrderInv'
  <1>1. ASSUME NEW s \in Runs \ {r}
        PROVE  Ordered(s)'
    <2>1. raw'[s] = <<>> /\ batch'[s] = <<>>
      BY OthersHoldNothing
    <2>. QED BY <2>1, SortedEmpty, ToSetEmpty DEF Ordered, Behind
  <1>. QED BY <1>1 DEF OrderInv

LEMMA PopIsInOrder ==
  ASSUME BatchSize # 0, OnceInv, OrderInv
  PROVE  Sorted(PopHead) /\ Sorted(PopRest) /\ Behind(ToSet(PopHead), ToSet(PopRest))
  <1>1. queue = PopHead \o PopRest /\ PopHead \in Seq(Entries) /\ PopRest \in Seq(Entries)
    BY PopIsApart
  <1>2. Sorted(PopHead \o PopRest)
    BY <1>1 DEF OrderInv
  <1>. QED BY <1>1, <1>2, SortedConcat

LEMMA LRangeKeepsOrder ==
  ASSUME Separate, OnceInv, OrderInv, OneActiveRun, NEW r \in Runs, ExecLRange(r)
  PROVE  OrderInv'
  <1>1. /\ pc[r] = "loop" /\ rows' = rows /\ batch' = batch
        /\ raw' = [raw EXCEPT ![r] = PopHead]
    BY DEF ExecLRange
  <1>2. raw'[r] = PopHead /\ batch'[r] = <<>> /\ \A s \in Runs \ {r} : raw'[s] = raw[s]
    BY <1>1 DEF OnceInv, TypeOK, Located
  <1>3. (queue' = queue \/ queue' = PopRest) /\ Left(r)' = PopRest
    <2>1. CASE "split" \in Faults
      <3>1. queue' = queue /\ trim'[r]
        BY <2>1 DEF ExecLRange, OnceInv, TypeOK
      <3>. QED BY <3>1 DEF Left, PopRest
    <2>2. CASE "split" \notin Faults
      BY <2>2 DEF ExecLRange, OnceInv, Located, Left
    <2>. QED BY <2>1, <2>2
  <1>4. /\ ToSet(PopHead) \subseteq ToSet(queue) /\ ToSet(queue') \subseteq ToSet(queue)
        /\ Sorted(PopHead) /\ Sorted(queue') /\ Behind(ToSet(PopHead), ToSet(PopRest))
    BY <1>3, PopIsApart, PopIsInOrder DEF Separate, OrderInv
  <1>5. Ordered(r)'
    BY <1>1, <1>2, <1>3, <1>4, SortedEmpty, ToSetEmpty DEF Ordered, OrderInv, Behind
  <1>6. Behind(ToSet(rows), ToSet(queue'))
    BY <1>4 DEF OrderInv, Behind
  <1>. QED BY <1>1, <1>2, <1>4, <1>5, <1>6, OneRunKeepsOrder DEF OrderInv

LEMMA LTrimKeepsOrder ==
  ASSUME Separate, OnceInv, OrderInv, NEW r \in Runs, ExecLTrim(r)
  PROVE  OrderInv'
  <1>1. /\ queue' = PopRest /\ trim' = [trim EXCEPT ![r] = FALSE] /\ trim[r]
        /\ UNCHANGED <<rows, raw, batch, landed, pc>>
    BY DEF ExecLTrim
  <1>2. /\ ToSet(PopRest) \subseteq ToSet(queue) /\ Sorted(PopRest)
        /\ ToSet(PopRest') \subseteq ToSet(PopRest)
    BY <1>1, RestOfQueue, PopIsInOrder DEF Separate, OnceInv
  <1>3. \A s \in Runs : ToSet(Left(s)') \subseteq ToSet(Left(s))
    BY <1>1, <1>2 DEF Left, OnceInv, TypeOK
  <1>4. \A s \in Runs : Ordered(s)'
    BY <1>1, <1>2, <1>3 DEF OrderInv, Ordered, Behind, Landed
  <1>. QED BY <1>1, <1>2, <1>4 DEF OrderInv, Behind

LEMMA DecodeKeepsOrder ==
  ASSUME OnceInv, OrderInv, OneActiveRun, NEW r \in Runs, DecodeEntry(r)
  PROVE  OrderInv'
  <1>. DEFINE x == Head(raw[r])
  <1>1. /\ raw[r] \in Seq(Entries) /\ raw[r] # <<>> /\ batch[r] \in Seq(Events)
        /\ raw'[r] = Tail(raw[r]) /\ pc[r] = "decode" /\ ~trim[r]
        /\ \A s \in Runs \ {r} : raw'[s] = raw[s] /\ batch'[s] = batch[s]
        /\ UNCHANGED <<queue, rows, landed, trim, pc>>
    BY DEF DecodeEntry, OnceInv, TypeOK, Located, redisVars
  <1>2. /\ ToSet(raw[r]) = {x} \cup ToSet(Tail(raw[r]))
        /\ Sorted(Tail(raw[r])) /\ Behind({x}, ToSet(Tail(raw[r]))) /\ x \in Entries
    BY <1>1, ToSetHeadTail, SortedHeadTail DEF OrderInv, Ordered
  <1>3. ToSet(batch'[r]) \subseteq ToSet(batch[r]) \cup {x} /\ Sorted(batch'[r])
    <2>1. CASE x \in Undecodable
      BY <2>1 DEF DecodeEntry, OrderInv, Ordered
    <2>2. CASE x \notin Undecodable
      <3>1. x \in Events
        BY <1>2, <2>2, EntryTypes
      <3>2. batch' = [batch EXCEPT ![r] = Append(@, x)]
        BY <2>2 DEF DecodeEntry
      <3>3. batch'[r] = Append(batch[r], x)
        BY <3>2 DEF OnceInv, TypeOK
      <3>4. Sorted(batch[r]) /\ Behind(ToSet(batch[r]), {x})
        BY <1>2 DEF OrderInv, Ordered, Behind
      <3>. QED BY <1>1, <3>1, <3>3, <3>4, ToSetAppend, SortedAppend
    <2>. QED BY <2>1, <2>2
  <1>. HIDE DEF x
  <1>4. ~Landed(r) /\ Left(r) = queue /\ Left(r)' = queue
    BY <1>1 DEF Landed, Left
  <1>5. Ordered(r)'
    BY <1>1, <1>2, <1>3, <1>4 DEF OrderInv, Ordered, Behind
  <1>. QED BY <1>1, <1>5, OneRunKeepsOrder DEF OrderInv

\* A commit, answered or not, of a batch that is not in the table.
LEMMA StoreKeepsOrder ==
  ASSUME OnceInv, OrderInv, OneActiveRun, NEW r \in Runs, InsertOk(r) \/ InsertLost(r)
  PROVE  OrderInv'
  <1>1. /\ rows' = rows \o batch[r] /\ ~Landed(r) /\ pc[r] = "insert" /\ ~trim[r]
        /\ UNCHANGED <<queue, raw, trim>>
        /\ rows \in Seq(Events) /\ batch[r] \in Seq(Events)
    BY DEF InsertOk, InsertLost, Stored, KeysClash, MayInsert, Landed, OnceInv, TypeOK,
           Located, redisVars
  <1>2. /\ ToSet(rows') = ToSet(rows) \cup ToSet(batch[r])
        /\ Sorted(rows')
    BY <1>1, ToSetConcat, SortedConcat DEF OrderInv, Ordered
  <1>3. /\ batch'[r] = batch[r] \/ batch'[r] = <<>>
        /\ batch'[r] = <<>> \/ Landed(r)'
        /\ \A s \in Runs \ {r} : batch'[s] = batch[s]
    <2>1. CASE InsertOk(r)
      BY <2>1 DEF InsertOk, OnceInv, TypeOK
    <2>2. CASE InsertLost(r)
      BY <1>1, <2>2 DEF InsertLost, OnceInv, TypeOK, Landed
    <2>. QED BY <2>1, <2>2
  <1>4. Ordered(r)'
    <2>1. raw[r] = <<>>
      BY <1>1 DEF OnceInv, Located
    <2>2. Sorted(batch'[r]) /\ Behind(ToSet(batch'[r]), ToSet(queue))
      BY <1>3, SortedEmpty, ToSetEmpty DEF OrderInv, Ordered, Behind
    <2>3. ~Landed(r)' => Behind(ToSet(rows'), ToSet(batch'[r]))
      BY <1>3, ToSetEmpty DEF Behind
    <2>. QED BY <1>1, <2>1, <2>2, <2>3, SortedEmpty, ToSetEmpty DEF Ordered, Behind
  <1>5. Behind(ToSet(rows'), ToSet(queue))
    BY <1>2 DEF OrderInv, Ordered, Behind
  <1>. QED BY <1>1, <1>2, <1>3, <1>4, <1>5, OneRunKeepsOrder DEF OrderInv

LEMMA BuryKeepsOrder ==
  ASSUME OnceInv, OrderInv, OneActiveRun, NEW r \in Runs, Bury(r)
  PROVE  OrderInv'
  <1>1. /\ batch[r] \in Seq(Events) /\ batch[r] # <<>> /\ batch'[r] = Tail(batch[r])
        /\ \A s \in Runs \ {r} : batch'[s] = batch[s]
        /\ pc[r] = "bury" /\ (batch'[r] # <<>> => pc'[r] = "bury")
        /\ UNCHANGED <<queue, rows, raw, landed, trim>>
    BY DEF Bury, OnceInv, TypeOK
  <1>2. ToSet(batch'[r]) \subseteq ToSet(batch[r]) /\ Sorted(batch'[r])
    BY <1>1, ToSetHeadTail, SortedHeadTail DEF OrderInv, Ordered
  <1>3. Left(r)' = Left(r)
    BY <1>1 DEF Left, PopRest
  <1>4. ~Landed(r)' => Behind(ToSet(rows), ToSet(batch'[r]))
    <2>1. CASE batch'[r] = <<>>
      BY <2>1, ToSetEmpty DEF Behind
    <2>2. CASE batch'[r] # <<>>
      BY <1>1, <1>2, <2>2 DEF OrderInv, Ordered, Behind, Landed
    <2>. QED BY <2>1, <2>2
  <1>5. Ordered(r)'
    BY <1>1, <1>2, <1>3, <1>4 DEF OrderInv, Ordered, Behind
  <1>. QED BY <1>1, <1>5, OneRunKeepsOrder DEF OrderInv

LEMMA FinishKeepsOrder ==
  ASSUME OnceInv, OrderInv, NEW r \in Runs, Drop(r), UNCHANGED <<queue, rows>>,
         trim' \in {trim, [trim EXCEPT ![r] = FALSE]}
  PROVE  OrderInv'
  <1>1. raw'[r] = <<>> /\ \A s \in Runs : batch'[s] # <<>> => s # r
    BY DEF Drop, OnceInv, TypeOK
  <1>2. \A s \in Runs \ {r} : pc'[s] = pc[s] /\ landed'[s] = landed[s]
    BY DEF Drop, OnceInv, TypeOK
  <1>3. \A s \in Runs : batch'[s] # <<>> => (Landed(s)' <=> Landed(s))
    BY <1>1, <1>2 DEF Landed
  <1>. QED BY <1>1, <1>3, ReleaseKeepsOrder DEF Drop

LEMMA RunStepKeepsOrder ==
  ASSUME Separate, OnceInv, OrderInv, OneActiveRun, NEW r \in Runs, RunStep(r)
  PROVE  OrderInv'
  <1>. USE DEF redisVars
  <1>1. CASE QueueSize(r)
    <2>1. CASE Finish(r)
      BY <1>1, <2>1, FinishKeepsOrder DEF QueueSize, Finish
    <2>2. CASE ~Finish(r)
      BY <1>1, <2>2, ReleaseKeepsOrder DEF QueueSize, Landed, OnceInv, TypeOK
    <2>. QED BY <2>1, <2>2
  <1>2. CASE LoopExpired(r)
    BY <1>2, FinishKeepsOrder DEF LoopExpired, Finish
  <1>3. CASE ExecLRange(r)
    BY <1>3, LRangeKeepsOrder
  <1>4. CASE ExecLTrim(r)
    BY <1>4, LTrimKeepsOrder
  <1>5. CASE PopReply(r)
    BY <1>5, ReleaseKeepsOrder DEF PopReply, Landed, OnceInv, TypeOK
  <1>6. CASE PopError(r)
    BY <1>6, FinishKeepsOrder DEF PopError, Finish
  <1>7. CASE PopAgain(r)
    BY <1>7, ReleaseKeepsOrder DEF PopAgain, Landed, OnceInv, TypeOK
  <1>8. CASE DecodeEntry(r)
    BY <1>8, DecodeKeepsOrder
  <1>9. CASE DecodeDone(r)
    <2>1. CASE Finish(r)
      BY <1>9, <2>1, FinishKeepsOrder DEF DecodeDone, Finish
    <2>2. CASE ~Finish(r)
      BY <1>9, <2>2, ReleaseKeepsOrder DEF DecodeDone, Landed, Located, OnceInv, TypeOK
    <2>. QED BY <2>1, <2>2
  <1>10. CASE InsertOk(r) \/ InsertLost(r)
    BY <1>10, StoreKeepsOrder
  <1>11. CASE InsertFail(r)
    BY <1>11, ReleaseKeepsOrder DEF InsertFail, RolledBack, Landed, OnceInv, TypeOK
  <1>12. CASE GiveUp(r)
    BY <1>12, ReleaseKeepsOrder DEF GiveUp, Landed, OnceInv, TypeOK
  <1>13. CASE Bury(r)
    BY <1>13, BuryKeepsOrder
  <1>. QED
    BY <1>1, <1>2, <1>3, <1>4, <1>5, <1>6, <1>7, <1>8, <1>9, <1>10, <1>11,
       <1>12, <1>13 DEF RunStep

LEMMA EnvironmentKeepsOrder ==
  ASSUME OnceInv, OrderInv,
         (\E r \in Runs : Tick(r) \/ Timeout(r) \/ Kill(r)) \/ LockExpire
  PROVE  OrderInv'
  <1>. USE DEF redisVars, runVars
  <1>1. ASSUME NEW r \in Runs, Tick(r)
        PROVE  OrderInv'
    BY <1>1, ReleaseKeepsOrder DEF Tick, Landed, OnceInv, TypeOK
  <1>2. ASSUME NEW r \in Runs, Timeout(r)
        PROVE  OrderInv'
    BY <1>2, ReleaseKeepsOrder DEF Timeout, Landed
  <1>3. ASSUME NEW r \in Runs, Kill(r)
        PROVE  OrderInv'
    BY <1>3, FinishKeepsOrder DEF Kill
  <1>4. CASE LockExpire
    BY <1>4 DEF LockExpire, OrderInv, Ordered, Landed, Left, PopRest
  <1>. QED BY <1>1, <1>2, <1>3, <1>4

\* While one run holds the lock and no push is sent twice, the events of one
\* request are stored in its order, and none is stored while an earlier one is
\* still queued, whatever pops are split, inserts fail or processes die
\* (event_buffer.go:45-89, scheduler.go:28-34).
THEOREM StoredInOrder ==
  ASSUME Separate, "ttl" \notin Faults
  PROVE  Spec => []InOrder
  <1>1. OnceInv /\ OneActiveRun /\ OrderInv /\ [Next]_vars => OrderInv'
    <2>. SUFFICES ASSUME OnceInv, OneActiveRun, OrderInv, [Next]_vars
                  PROVE  OrderInv'
      OBVIOUS
    <2>1. CASE UNCHANGED vars
      BY <2>1 DEF vars, redisVars, runVars, OrderInv, Ordered, Landed, Left, PopRest
    <2>. QED
      BY <2>1, HandlerKeepsOrder, ForeignKeepsOrder, RunStepKeepsOrder,
         EnvironmentKeepsOrder DEF Next
  <1>. QED
    BY <1>1, InitOrderInv, OrderInvSuffices, OnceInvIsInvariant, RunsExclude, PTL DEF Spec

-----------------------------------------------------------------------------
(* The contract.  Under OnceInv an event has one place, and its place is    *)
(* its stage.                                                               *)

InHand(e) == \E r \in Runs : e \in ToSet(raw[r]) \cup ToSet(batch[r])

PlaceIsStage ==
  \A e \in Events :
    /\ e \in ToSet(rows)                 => Stage[e] = "stored"
    /\ e \in ToSet(dead) \ ToSet(rows)   => Stage[e] = "dead"
    /\ e \in ToSet(queue)                => Stage[e] = "buffered"
    /\ InHand(e) /\ e \notin ToSet(rows) \cup ToSet(dead) => Stage[e] = "taken"
    /\ e \notin Accounted                => Stage[e] = "absent"

LEMMA PlacesAreStages ==
  ASSUME "split" \notin Faults
  PROVE  OnceInv => PlaceIsStage
  <1>. SUFFICES ASSUME OnceInv, NEW e \in Events
                PROVE  /\ e \in ToSet(rows)               => StageOf(e) = "stored"
                       /\ e \in ToSet(dead) \ ToSet(rows) => StageOf(e) = "dead"
                       /\ e \in ToSet(queue)              => StageOf(e) = "buffered"
                       /\ InHand(e) /\ e \notin ToSet(rows) \cup ToSet(dead)
                                                          => StageOf(e) = "taken"
                       /\ e \notin Accounted              => StageOf(e) = "absent"
    BY DEF PlaceIsStage, Stage
  <1>1. e \in ToSet(queue) => e \notin ToSet(rows) \cup ToSet(dead)
    BY DEF OnceInv, Apart, ListsApart
  <1>2. e \in ToSet(queue) => ~InHand(e)
    BY DEF OnceInv, Apart, HandsApart, InHand, Left, Located
  <1>3. e \in Accounted <=> e \in ToSet(queue) \cup ToSet(rows) \cup ToSet(dead) \/ InHand(e)
    BY WhereAccounted DEF InHand
  <1>4. (\E r \in Runs : e \in Held(r) /\ e \notin ToSet(rows) \cup ToSet(dead))
          <=> InHand(e) /\ e \notin ToSet(rows) \cup ToSet(dead)
    BY DEF InHand, Held
  <1>. QED BY <1>1, <1>2, <1>3, <1>4 DEF StageOf

LEMMA SameStage ==
  ASSUME PlaceIsStage, PlaceIsStage', NEW e \in Events,
         e \in ToSet(rows') <=> e \in ToSet(rows),
         e \in ToSet(dead') <=> e \in ToSet(dead),
         e \in ToSet(queue') <=> e \in ToSet(queue),
         InHand(e)' <=> InHand(e)
  PROVE  Stage'[e] = Stage[e]
  <1>1. /\ e \in Accounted <=> e \in ToSet(queue) \cup ToSet(rows) \cup ToSet(dead) \/ InHand(e)
        /\ e \in Accounted' <=>
             e \in ToSet(queue') \cup ToSet(rows') \cup ToSet(dead') \/ InHand(e)'
    BY WhereAccounted, WhereAccountedNext DEF InHand
  <1>. QED BY <1>1 DEF PlaceIsStage

LEMMA StagesAreStable ==
  ASSUME \A e \in Events : Stage'[e] = Stage[e]
  PROVE  Stage' = Stage
  BY DEF Stage

LEMMA AdvanceStep ==
  ASSUME NEW S \in SUBSET Events, S # {}, NEW from, NEW to,
         \A e \in S : Stage[e] = from /\ Stage'[e] = to,
         \A e \in Events \ S : Stage'[e] = Stage[e], Acked' = Acked
  PROVE  Promise!Advance(S, from, to)
  <1>1. Stage' = [e \in Events |-> Stage'[e]]
    BY DEF Stage
  <1>2. Stage' = [e \in Events |-> IF e \in S THEN to ELSE Stage[e]]
    BY <1>1
  <1>. QED BY <1>2 DEF Promise!Advance

ContractStep == Promise!ContractNext \/ UNCHANGED <<Stage, Acked>>

\* Steps that move no event are not the contract's.
LEMMA StutterStep ==
  ASSUME PlaceIsStage, PlaceIsStage', UNCHANGED <<queue, dead, rows, resp>>,
         \A e \in Events : InHand(e)' <=> InHand(e)
  PROVE  ContractStep
  <1>1. \A e \in Events : Stage'[e] = Stage[e]
    BY SameStage
  <1>2. Stage' = Stage
    BY <1>1, StagesAreStable
  <1>3. Acked' = Acked
    BY DEF Acked
  <1>. QED BY <1>2, <1>3 DEF ContractStep

\* Each RPUSH is an Accept, and a 200 an Acknowledge of what was accepted.
LEMMA HandlerKeepsContract ==
  ASSUME Separate, Lossless, OnceInv, LossInv, PlaceIsStage, PlaceIsStage',
         NEW q \in Requests, Handler(q)
  PROVE  ContractStep
  <1>. USE DEF redisVars, runVars
  <1>1. CASE PushCommand(q)
    <2>. DEFINE k == sent[q] + 1
                x == q[k]
    <2>1. k \in 1 .. Len(q) /\ x \in Events
      <3>1. k \in 1 .. Len(q)
        BY <1>1, RequestsAssumption DEF PushCommand, OnceInv, TypeOK
      <3>. QED BY <3>1, EntryTypes
    <2>2. queue' = Append(queue, x) /\ UNCHANGED <<dead, rows, raw, batch, resp>>
      BY <1>1 DEF PushCommand, Pushed
    <2>3. Unpushed(x)
      <3>1. k \in sent[q] + 1 .. Len(q)
        BY <2>1
      <3>. QED BY <3>1 DEF Unpushed
    <2>. HIDE DEF x
    <2>4. ToSet(queue') = ToSet(queue) \cup {x}
      BY <2>1, <2>2, EntryTypes, ToSetAppend DEF OnceInv, TypeOK
    <2>5. x \notin ToSet(queue) \cup ToSet(rows) \cup ToSet(dead) /\ ~InHand(x)
      BY <2>3 DEF OnceInv, Outside, InHand
    <2>6. Stage[x] = "absent" /\ Stage'[x] = "buffered"
      BY <2>1, <2>4, <2>5, WhereAccounted DEF PlaceIsStage, InHand
    <2>7. \A e \in Events \ {x} : Stage'[e] = Stage[e]
      BY <2>2, <2>4, SameStage DEF InHand
    <2>8. Acked' = Acked
      BY <2>2 DEF Acked
    <2>9. Promise!Advance({x}, "absent", "buffered")
      BY <2>1, <2>6, <2>7, <2>8, AdvanceStep
    <2>. QED BY <2>1, <2>9 DEF ContractStep, Promise!ContractNext, Promise!Accept
  <1>2. CASE PushReply(q)
    <2>1. /\ sent[q] = Len(q) /\ resp' = [resp EXCEPT ![q] = "200"]
          /\ UNCHANGED <<queue, dead, rows, raw, batch>>
      BY <1>2 DEF PushReply, MayAnswer
    <2>2. \A e \in Events : Stage'[e] = Stage[e]
      BY <2>1, SameStage DEF InHand
    <2>3. Stage' = Stage
      BY <2>2, StagesAreStable
    <2>4. Acked' = Acked \cup ToSet(q)
      <3>1. {p \in Requests : resp'[p] = "200"} = {p \in Requests : resp[p] = "200"} \cup {q}
        BY <2>1 DEF OnceInv, TypeOK
      <3>. QED BY <3>1, Zenon DEF Acked
    <2>5. ASSUME NEW e \in ToSet(q)
          PROVE  e \in Events /\ Stage[e] # "absent"
      <3>1. e \in Events
        BY DEF Events
      <3>2. e \in Accounted
        <4>1. PICK i \in 1 .. Len(q) : e = q[i]
          BY RequestsAssumption DEF ToSet
        <4>. QED BY <2>1, <4>1 DEF LossInv, Pushes
      <3>. QED BY <3>1, <3>2, WhereAccounted DEF PlaceIsStage, InHand
    <2>6. Promise!Acknowledge(ToSet(q)) /\ ToSet(q) \in SUBSET Events
      BY <2>3, <2>4, <2>5 DEF Promise!Acknowledge
    <2>. QED BY <2>6 DEF ContractStep, Promise!ContractNext
  <1>3. CASE Bind(q)
    <2>1. /\ UNCHANGED <<queue, dead, rows, raw, batch>>
          /\ \A p \in Requests : resp'[p] = "200" <=> resp[p] = "200"
      BY <1>3 DEF Bind, OnceInv, TypeOK
    <2>2. \A e \in Events : Stage'[e] = Stage[e]
      BY <2>1, SameStage DEF InHand
    <2>3. Stage' = Stage /\ Acked' = Acked
      BY <2>1, <2>2, StagesAreStable DEF Acked
    <2>. QED BY <2>3 DEF ContractStep
  <1>. QED
    BY <1>1, <1>2, <1>3
       DEF Handler, PushError, PushAgain, KillHandler, Separate, Lossless

LEMMA ForeignKeepsContract ==
  ASSUME OnceInv, PlaceIsStage, PlaceIsStage', NEW x \in Undecodable, ForeignPush(x)
  PROVE  ContractStep
  <1>1. x \notin Events /\ x \in Entries /\ queue' = Append(queue, x)
        /\ UNCHANGED <<dead, rows, raw, batch, resp>>
    BY EntriesAssumption DEF ForeignPush, Entries, runVars, httpVars
  <1>2. ToSet(queue') = ToSet(queue) \cup {x}
    BY <1>1, ToSetAppend DEF OnceInv, TypeOK
  <1>3. \A e \in Events : Stage'[e] = Stage[e]
    BY <1>1, <1>2, SameStage DEF InHand
  <1>4. Stage' = Stage /\ Acked' = Acked
    BY <1>1, <1>3, StagesAreStable DEF Acked
  <1>. QED BY <1>4 DEF ContractStep

\* A pop is a Take of the events it returns, if it returns any.
LEMMA LRangeKeepsContract ==
  ASSUME Separate, Lossless, OnceInv, PlaceIsStage, PlaceIsStage',
         NEW r \in Runs, ExecLRange(r)
  PROVE  ContractStep
  <1>. DEFINE S == ToSet(PopHead) \cap Events
  <1>1. /\ queue' = PopRest /\ raw'[r] = PopHead /\ raw[r] = <<>>
        /\ \A s \in Runs \ {r} : raw'[s] = raw[s]
        /\ UNCHANGED <<dead, rows, batch, resp>>
    BY DEF ExecLRange, Lossless, OnceInv, TypeOK, Located, httpVars
  <1>2. /\ ToSet(queue) = ToSet(PopHead) \cup ToSet(PopRest)
        /\ ToSet(PopHead) \cap ToSet(PopRest) = {}
    BY PopIsApart DEF Separate
  <1>3. ASSUME NEW e \in S
        PROVE  Stage[e] = "buffered" /\ Stage'[e] = "taken"
    <2>1. e \in ToSet(queue) /\ e \notin ToSet(rows) \cup ToSet(dead)
      BY <1>2 DEF OnceInv, Apart, ListsApart
    <2>2. InHand(e)'
      BY <1>1 DEF InHand
    <2>. QED BY <1>1, <2>1, <2>2 DEF PlaceIsStage
  <1>4. ASSUME NEW e \in Events \ S
        PROVE  Stage'[e] = Stage[e]
    <2>1. e \in ToSet(queue') <=> e \in ToSet(queue)
      BY <1>1, <1>2
    <2>2. InHand(e)' <=> InHand(e)
      BY <1>1, ToSetEmpty DEF InHand
    <2>. QED BY <1>1, <2>1, <2>2, SameStage
  <1>5. Acked' = Acked
    BY <1>1 DEF Acked
  <1>. HIDE DEF S
  <1>6. CASE S = {}
    BY <1>4, <1>5, <1>6, StagesAreStable DEF ContractStep
  <1>7. CASE S # {}
    <2>1. S \in SUBSET Events
      BY DEF S
    <2>2. Promise!Advance(S, "buffered", "taken")
      BY <1>3, <1>4, <1>5, <1>7, <2>1, AdvanceStep
    <2>. QED BY <2>1, <2>2 DEF ContractStep, Promise!ContractNext, Promise!Take
  <1>. QED BY <1>6, <1>7

\* A commit is a Store of the whole batch, and so is one that goes unanswered.
LEMMA StoreKeepsContract ==
  ASSUME OnceInv, PlaceIsStage, PlaceIsStage',
         NEW r \in Runs, InsertOk(r) \/ InsertLost(r)
  PROVE  ContractStep
  <1>. DEFINE S == ToSet(batch[r])
  <1>1. /\ rows' = rows \o batch[r] /\ ~Landed(r) /\ pc[r] = "insert"
        /\ UNCHANGED <<queue, dead, raw, resp>>
        /\ rows \in Seq(Events) /\ batch[r] \in Seq(Events) /\ batch[r] # <<>>
    BY DEF InsertOk, InsertLost, Stored, KeysClash, MayInsert, Landed, OnceInv, TypeOK,
           redisVars, httpVars
  <1>2. ToSet(rows') = ToSet(rows) \cup S
    BY <1>1, ToSetConcat
  <1>3. /\ batch'[r] = batch[r] \/ batch'[r] = <<>>
        /\ \A s \in Runs \ {r} : batch'[s] = batch[s]
    BY DEF InsertOk, InsertLost, OnceInv, TypeOK
  <1>4. ASSUME NEW e \in S
        PROVE  e \in Events /\ Stage[e] = "taken" /\ Stage'[e] = "stored"
    <2>1. e \in Events
      BY <1>1 DEF ToSet
    <2>2. InHand(e) /\ e \notin ToSet(rows) \cup ToSet(dead)
      BY <1>1 DEF InHand, OnceInv, Apart, HandsApart
    <2>. QED BY <1>2, <2>1, <2>2 DEF PlaceIsStage
  <1>5. ASSUME NEW e \in Events \ S
        PROVE  Stage'[e] = Stage[e]
    <2>1. InHand(e)' <=> InHand(e)
      BY <1>1, <1>3, ToSetEmpty DEF InHand
    <2>. QED BY <1>1, <1>2, <2>1, SameStage
  <1>6. S # {} /\ S \in SUBSET Events /\ Acked' = Acked
    <2>1. S # {}
      BY <1>1, ToSetHeadTail
    <2>. QED BY <1>1, <1>4, <2>1 DEF Acked
  <1>. HIDE DEF S
  <1>7. Promise!Advance(S, "taken", "stored")
    BY <1>4, <1>5, <1>6, AdvanceStep
  <1>. QED BY <1>6, <1>7 DEF ContractStep, Promise!ContractNext, Promise!Store

\* A dead letter is a Bury, unless its event is in the table already.
LEMMA BuryKeepsContract ==
  ASSUME Lossless, OnceInv, PlaceIsStage, PlaceIsStage', NEW r \in Runs, Bury(r)
  PROVE  ContractStep
  <1>. DEFINE x == Head(batch[r])
  <1>1. /\ batch[r] \in Seq(Events) /\ batch[r] # <<>> /\ dead \in Seq(Events)
        /\ batch'[r] = Tail(batch[r])
        /\ \A s \in Runs \ {r} : batch'[s] = batch[s]
        /\ UNCHANGED <<queue, rows, raw, resp>>
    BY DEF Bury, Lossless, OnceInv, TypeOK, httpVars
  <1>2. ToSet(batch[r]) = {x} \cup ToSet(Tail(batch[r])) /\ x \in Events
    BY <1>1, ToSetHeadTail
  <1>3. ToSet(dead') = ToSet(dead) \cup {x}
    <2>1. dead' # dead
      BY <1>1, <1>2, BuryLengthens DEF Lossless
    <2>. QED BY <1>1, <1>2, <2>1, BuryAdds
  <1>. HIDE DEF x
  <1>4. x \notin ToSet(dead) /\ InHand(x)
    BY <1>2 DEF OnceInv, Apart, HandsApart, InHand
  <1>5. ASSUME NEW e \in Events \ {x}
        PROVE  Stage'[e] = Stage[e]
    <2>1. InHand(e)' <=> InHand(e)
      BY <1>1, <1>2 DEF InHand
    <2>. QED BY <1>1, <1>3, <2>1, SameStage
  <1>6. Acked' = Acked
    BY <1>1 DEF Acked
  <1>7. CASE x \in ToSet(rows)
    <2>1. Stage'[x] = Stage[x]
      BY <1>1, <1>2, <1>7 DEF PlaceIsStage
    <2>2. \A e \in Events : Stage'[e] = Stage[e]
      BY <1>5, <2>1
    <2>. QED BY <1>6, <2>2, StagesAreStable DEF ContractStep
  <1>8. CASE x \notin ToSet(rows)
    <2>1. Stage[x] = "taken" /\ Stage'[x] = "dead"
      BY <1>1, <1>2, <1>3, <1>4, <1>8 DEF PlaceIsStage
    <2>2. Promise!Advance({x}, "taken", "dead")
      BY <1>2, <1>5, <1>6, <2>1, AdvanceStep
    <2>. QED BY <1>2, <2>2 DEF ContractStep, Promise!ContractNext, Promise!Bury
  <1>. QED BY <1>7, <1>8

LEMMA DecodeKeepsContract ==
  ASSUME OnceInv, PlaceIsStage, PlaceIsStage', NEW r \in Runs, DecodeEntry(r)
  PROVE  ContractStep
  <1>. DEFINE x == Head(raw[r])
  <1>1. /\ raw[r] \in Seq(Entries) /\ raw[r] # <<>> /\ batch[r] \in Seq(Events)
        /\ raw'[r] = Tail(raw[r])
        /\ \A s \in Runs \ {r} : raw'[s] = raw[s] /\ batch'[s] = batch[s]
        /\ UNCHANGED <<queue, dead, rows, resp>>
    BY DEF DecodeEntry, OnceInv, TypeOK, redisVars, httpVars
  <1>2. ToSet(raw[r]) = {x} \cup ToSet(Tail(raw[r])) /\ x \in Entries
    BY <1>1, ToSetHeadTail
  <1>3. \/ x \notin Events /\ batch'[r] = batch[r]
        \/ x \in Events /\ ToSet(batch'[r]) = ToSet(batch[r]) \cup {x}
    <2>1. CASE x \in Undecodable
      BY <2>1, EntriesAssumption DEF DecodeEntry
    <2>2. CASE x \notin Undecodable
      <3>1. x \in Events
        BY <1>2, <2>2, EntryTypes
      <3>2. batch' = [batch EXCEPT ![r] = Append(@, x)]
        BY <2>2 DEF DecodeEntry
      <3>3. batch'[r] = Append(batch[r], x)
        BY <3>2 DEF OnceInv, TypeOK
      <3>. QED BY <1>1, <3>1, <3>3, ToSetAppend
    <2>. QED BY <2>1, <2>2
  <1>. HIDE DEF x
  <1>4. ASSUME NEW e \in Events
        PROVE  InHand(e)' <=> InHand(e)
    BY <1>1, <1>2, <1>3 DEF InHand
  <1>. QED BY <1>1, <1>4, StutterStep

LEMMA RunStepKeepsContract ==
  ASSUME Separate, Lossless, OnceInv, PlaceIsStage, PlaceIsStage',
         NEW r \in Runs, RunStep(r)
  PROVE  ContractStep
  <1>. USE DEF redisVars, httpVars
  <1>1. CASE /\ \/ QueueSize(r) \/ LoopExpired(r) \/ PopReply(r) \/ DecodeDone(r)
                \/ InsertFail(r) \/ GiveUp(r)
             /\ raw' = raw /\ batch' = batch
    <2>1. UNCHANGED <<queue, dead, rows, resp, raw, batch>>
      BY <1>1 DEF QueueSize, LoopExpired, PopReply, DecodeDone, InsertFail, RolledBack, GiveUp
    <2>. QED BY <2>1, StutterStep DEF InHand
  <1>2. CASE QueueSize(r) \/ LoopExpired(r)
    <2>1. raw[r] = <<>> /\ batch[r] = <<>>
      BY <1>2 DEF QueueSize, LoopExpired, OnceInv, Located
    <2>. QED BY <1>1, <1>2, <2>1, FinishEmptyHanded DEF QueueSize, LoopExpired, OnceInv
  <1>3. CASE ExecLRange(r)
    BY <1>3, LRangeKeepsContract
  <1>4. CASE PopReply(r) \/ InsertFail(r)
    BY <1>1, <1>4 DEF PopReply, InsertFail
  <1>5. CASE DecodeEntry(r)
    BY <1>5, DecodeKeepsContract
  <1>6. CASE DecodeDone(r)
    BY <1>1, <1>6, FinishEmptyHanded DEF DecodeDone, NothingDecoded, OnceInv
  <1>7. CASE InsertOk(r) \/ InsertLost(r)
    BY <1>7, StoreKeepsContract
  <1>8. CASE GiveUp(r)
    <2>1. Failed(r)
      BY <1>8, ConfigAssumption DEF GiveUp, Failed, Lossless, OnceInv, TypeOK
    <2>. QED BY <1>1, <1>8, <2>1 DEF GiveUp
  <1>9. CASE Bury(r)
    BY <1>9, BuryKeepsContract
  <1>10. ~ExecLTrim(r) /\ ~PopError(r) /\ ~PopAgain(r)
    BY DEF ExecLTrim, PopError, PopAgain, Lossless, OnceInv, Located
  <1>. QED
    BY <1>2, <1>3, <1>4, <1>5, <1>6, <1>7, <1>8, <1>9, <1>10 DEF RunStep

\* Where nothing can be lost and nothing is pushed twice, every step of the
\* pipeline is one the contract allows, or moves no event: accepted events are
\* taken out once, a taken event is stored or dead-lettered, a stored one is never
\* anything else again, and only accepted events are acknowledged
\* (event_buffer.go:45-89, event_processor.go:53-81).
THEOREM ContractStepsAreKept ==
  ASSUME Separate, Lossless
  PROVE  Spec => Promise!ContractSteps
  <1>1. Init => Promise!ContractInit
    <2>. SUFFICES ASSUME Init PROVE Promise!ContractInit
      OBVIOUS
    <2>1. OnceInv /\ Acked = {}
      BY InitOnceInv DEF Init, Acked
    <2>2. \A e : e \notin Accounted
      BY WhereAccounted, ToSetEmpty DEF Init
    <2>3. \A e \in Events : Stage[e] = "absent"
      BY <2>1, <2>2, PlacesAreStages DEF PlaceIsStage, Lossless
    <2>. QED BY <2>1, <2>3 DEF Promise!ContractInit, Stage
  <1>2. OnceInv => PlaceIsStage
    BY PlacesAreStages DEF Lossless
  <1>3. OnceInv /\ LossInv /\ PlaceIsStage /\ PlaceIsStage' /\ [Next]_vars
          => [Promise!ContractNext]_<<Stage, Acked>>
    <2>. SUFFICES ASSUME OnceInv, LossInv, PlaceIsStage, PlaceIsStage', [Next]_vars
                  PROVE  ContractStep
      BY DEF ContractStep
    <2>. USE DEF redisVars, runVars, httpVars
    <2>1. CASE UNCHANGED vars
      BY <2>1, StutterStep DEF vars, InHand
    <2>2. ASSUME NEW r \in Runs, Tick(r) \/ Timeout(r)
          PROVE  ContractStep
      <3>1. UNCHANGED <<queue, dead, rows, resp, raw, batch>>
        BY <2>2 DEF Tick, Timeout
      <3>. QED BY <3>1, StutterStep DEF InHand
    <2>3. CASE LockExpire
      BY <2>3, StutterStep DEF LockExpire, InHand
    <2>4. \A r \in Runs : ~Kill(r)
      BY DEF Kill, Lossless
    <2>. QED
      BY <2>1, <2>2, <2>3, <2>4, HandlerKeepsContract, ForeignKeepsContract,
         RunStepKeepsContract DEF Next
  <1>. QED
    BY <1>1, <1>2, <1>3, OnceInvIsInvariant, AlwaysLossInv, PTL
       DEF Spec, Promise!ContractSteps, Promise!contractVars
=============================================================================
