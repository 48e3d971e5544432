------------------------ MODULE EventPipelineProofs ------------------------
(* Theorems about EventPipeline, for all values of its constants. *)
EXTENDS EventPipeline, TLAPS, SequenceTheorems, FiniteSetTheorems

-----------------------------------------------------------------------------
(* The list commands, for every list and every pair of indices.            *)

\* LRANGE and LTRIM return a contiguous part of the list, or nothing.
LEMMA LRangeIsPart ==
  ASSUME NEW S, NEW list \in Seq(S), NEW start \in Int, NEW stop \in Int
  PROVE  \/ LRange(list, start, stop) = <<>>
         \/ \E m \in 1 .. Len(list) : \E n \in m .. Len(list) :
              LRange(list, start, stop) = SubSeq(list, m, n)
  <1>. DEFINE len   == Len(list)
              first == IF FromLeft(start, len) < 0 THEN 0 ELSE FromLeft(start, len)
              last  == IF FromLeft(stop, len) < len THEN FromLeft(stop, len) ELSE len - 1
  <1>1. len \in Nat /\ first \in Nat /\ last \in Int /\ last < len
    BY DEF FromLeft
  <1>2. LRange(list, start, stop)
          = IF first > last THEN <<>> ELSE SubSeq(list, first + 1, last + 1)
    BY DEF LRange
  <1>3. CASE first > last
    BY <1>2, <1>3
  <1>4. CASE ~(first > last)
    <2>1. first + 1 \in 1 .. len /\ last + 1 \in first + 1 .. len
      BY <1>1, <1>4
    <2>. HIDE DEF len, first, last
    <2>. QED BY <1>2, <1>4, <2>1 DEF len
  <1>. QED BY <1>3, <1>4

\* They return a list of elements of the list.
LEMMA LRangeType ==
  ASSUME NEW S, NEW list \in Seq(S), NEW start \in Int, NEW stop \in Int
  PROVE  LRange(list, start, stop) \in Seq(S)
  <1>1. \A m \in 1 .. Len(list) : \A n \in m .. Len(list) :
          SubSeq(list, m, n) \in Seq(S)
    BY SubSeqProperties
  <1>2. <<>> \in Seq(S)
    OBVIOUS
  <1>3. \/ LRange(list, start, stop) = <<>>
        \/ \E m \in 1 .. Len(list) : \E n \in m .. Len(list) :
             LRange(list, start, stop) = SubSeq(list, m, n)
    BY LRangeIsPart
  <1>. QED BY <1>1, <1>2, <1>3, Zenon

\* PopBatch's two commands cut the list in two: for every batch size but 0,
\* what LRANGE 0 size-1 returns and what LTRIM size -1 keeps make up the list,
\* a negative size included (event_buffer.go:65-66).
THEOREM PopSplitsList ==
  ASSUME NEW S, NEW list \in Seq(S), NEW size \in Int \ {0}
  PROVE  list = LRange(list, 0, size - 1) \o LTrim(list, size, -1)
  <1>. DEFINE len == Len(list)
  <1>1. len \in Nat
    OBVIOUS
  <1>5. FromLeft(-1, len) = len - 1 /\ FromLeft(0, len) = 0
    BY DEF FromLeft
  <1>2. CASE list = <<>>
    <2>1. LRange(list, 0, size - 1) = <<>> /\ LTrim(list, size, -1) = <<>>
      BY <1>2 DEF LRange, LTrim, FromLeft
    <2>. QED BY <1>2, <2>1
  <1>3. CASE list # <<>> /\ (size >= len \/ (size < 0 /\ len + size <= 0))
    <2>0. len > 0
      BY <1>3
    <2>1. CASE size >= len
      <3>1. LRange(list, 0, size - 1) = SubSeq(list, 1, len)
        BY <2>0, <2>1 DEF LRange, FromLeft
      <3>2. LTrim(list, size, -1) = <<>>
        <4>1. FromLeft(size, len) = size
          BY <2>0, <2>1 DEF FromLeft
        <4>. QED BY <1>5, <2>0, <2>1, <4>1 DEF LRange, LTrim
      <3>3. SubSeq(list, 1, len) = list
        BY SubSeqFull
      <3>. QED BY <3>1, <3>2, <3>3, ConcatEmptySeq
    <2>2. CASE size < 0 /\ len + size <= 0
      <3>1. LRange(list, 0, size - 1) = <<>>
        BY <2>0, <2>2 DEF LRange, FromLeft
      <3>2. LTrim(list, size, -1) = SubSeq(list, 1, len)
        <4>1. FromLeft(size, len) = len + size
          BY <2>2 DEF FromLeft
        <4>. QED BY <1>5, <2>0, <2>2, <4>1 DEF LRange, LTrim
      <3>3. SubSeq(list, 1, len) = list
        BY SubSeqFull
      <3>. QED BY <3>1, <3>2, <3>3, ConcatEmptySeq
    <2>. QED BY <1>3, <2>1, <2>2
  <1>4. CASE list # <<>> /\ ~(size >= len \/ (size < 0 /\ len + size <= 0))
    <2>. DEFINE cut == IF size < 0 THEN len + size ELSE size
    <2>1. cut \in 1 .. len - 1
      BY <1>4
    <2>2. LRange(list, 0, size - 1) = SubSeq(list, 1, cut)
      BY <1>4 DEF LRange, FromLeft
    <2>3. LTrim(list, size, -1) = SubSeq(list, cut + 1, len)
      <3>1. FromLeft(size, len) = cut
        BY <1>4 DEF FromLeft
      <3>2. cut + 1 <= len /\ len - 1 + 1 = len /\ ~(len - 1 < cut) /\ ~(cut < 0)
        BY <2>1
      <3>. HIDE DEF cut
      <3>. QED BY <1>5, <2>1, <3>1, <3>2 DEF LRange, LTrim
    <2>4. SubSeq(list, 1, cut) \o SubSeq(list, cut + 1, len) = list
      <3>. HIDE DEF cut
      <3>. QED BY <2>1
    <2>. HIDE DEF cut
    <2>. QED BY <2>2, <2>3, <2>4
  <1>. QED BY <1>2, <1>3, <1>4

\* At batch size 0 the pop reads the whole list and removes nothing of it: the
\* run would insert the same events again (event_buffer.go:65-66).
THEOREM PopOfSizeZeroRemovesNothing ==
  ASSUME NEW S, NEW list \in Seq(S)
  PROVE  LRange(list, 0, 0 - 1) = list /\ LTrim(list, 0, -1) = list
  <1>1. CASE list = <<>>
    BY <1>1 DEF LRange, LTrim, FromLeft
  <1>2. CASE list # <<>>
    <2>1. SubSeq(list, 1, Len(list)) = list
      BY SubSeqFull
    <2>2. LRange(list, 0, -1) = SubSeq(list, 1, Len(list))
      BY <1>2 DEF LRange, FromLeft
    <2>. QED BY <2>1, <2>2 DEF LTrim
  <1>. QED BY <1>1, <1>2

-----------------------------------------------------------------------------
(* Type correctness.                                                        *)

LEMMA EntryTypes ==
  /\ \A q \in Requests : \A i \in 1 .. Len(q) : q[i] \in Events
  /\ Events \subseteq Entries
  /\ \A x \in Entries : x \notin Undecodable => x \in Events
  <1>1. ASSUME NEW q \in Requests, NEW i \in 1 .. Len(q)  PROVE q[i] \in Events
    BY RequestsAssumption
  <1>. QED BY <1>1 DEF Entries

\* The dead-letter list after a push, as often as it is sent.
LEMMA BuryAppends ==
  ASSUME NEW S, dead \in Seq(S), NEW r \in Runs, Bury(r), Head(batch[r]) \in S
  PROVE  dead' = dead \/ \E t \in Seq(S) :
           dead' = Append(dead, Head(batch[r])) \o t /\ \A i \in DOMAIN t : t[i] = Head(batch[r])
  <1>. DEFINE x == Head(batch[r])
  <1>1. CASE dead' = Append(dead, x)
    <2>1. Append(dead, x) = Append(dead, x) \o <<>> /\ <<>> \in Seq(S) /\ DOMAIN <<>> = {}
      <3>1. \A s \in Seq(S) : s \o <<>> = s
        OBVIOUS
      <3>2. Append(dead, x) \in Seq(S)
        OBVIOUS
      <3>. QED BY <3>1, <3>2
    <2>. QED BY <1>1, <2>1
  <1>2. CASE \E n \in 1 .. MaxResends : dead' = Append(dead, x) \o Copies(x, n)
    <2>1. PICK n \in 1 .. MaxResends : dead' = Append(dead, x) \o Copies(x, n)
      BY <1>2
    <2>2. Copies(x, n) \in Seq(S) /\ \A i \in DOMAIN Copies(x, n) : Copies(x, n)[i] = x
      BY DEF Copies
    <2>. QED BY <2>1, <2>2
  <1>. QED BY <1>1, <1>2 DEF Bury

LEMMA InitTypeOK == Init => TypeOK
  <1>. SUFFICES ASSUME Init PROVE TypeOK
    OBVIOUS
  <1>1. \A q \in Requests : Len(q) \in Nat
    BY RequestsAssumption
  <1>. QED BY <1>1, ConfigAssumption DEF Init, TypeOK

LEMMA HandlerTypeOK ==
  ASSUME TypeOK, NEW q \in Requests, Handler(q)
  PROVE  TypeOK'
  <1>. USE DEF TypeOK, redisVars, httpVars, runVars
  <1>0. Len(q) \in Nat
    BY RequestsAssumption
  <1>1. CASE Bind(q)
    BY <1>1 DEF Bind
  <1>2. CASE PushCommand(q)
    <2>1. sent[q] + 1 \in 1 .. Len(q)
      BY <1>0, <1>2 DEF PushCommand
    <2>2. q[sent[q] + 1] \in Entries
      BY <2>1, EntryTypes
    <2>3. queue' \in Seq(Entries)
      BY <1>2, <2>2 DEF PushCommand, Pushed
    <2>4. sent' \in [Requests -> Nat] /\ \A p \in Requests : sent'[p] <= Len(p)
      BY <1>0, <1>2, <2>1 DEF PushCommand
    <2>. QED BY <1>2, <2>3, <2>4 DEF PushCommand
  <1>3. CASE PushReply(q)
    BY <1>3 DEF PushReply
  <1>4. CASE PushError(q)
    BY <1>4 DEF PushError
  <1>5. CASE PushAgain(q)
    BY <1>0, <1>5, ConfigAssumption DEF PushAgain
  <1>6. CASE KillHandler(q)
    BY <1>6 DEF KillHandler
  <1>. QED BY <1>1, <1>2, <1>3, <1>4, <1>5, <1>6 DEF Handler

LEMMA FinishTypeOK ==
  ASSUME TypeOK, NEW r \in Runs, Finish(r)
  PROVE  /\ pc' \in [Runs -> {"idle", "size", "loop", "reply", "decode", "insert", "bury"}]
         /\ raw' \in [Runs -> Seq(Entries)]
         /\ batch' \in [Runs -> Seq(Events)]
         /\ \A s \in Runs : pc'[s] \in {"insert", "bury"} => batch'[s] # <<>>
         /\ attempt' \in [Runs -> Nat \ {0}]
         /\ landed' \in [Runs -> BOOLEAN]
         /\ expired' \in [Runs -> BOOLEAN]
         /\ lock' \in Runs \cup {NoRun, Orphan}
  <1>1. lock' \in Runs \cup {NoRun, Orphan}
    BY DEF TypeOK, Finish, Unlock
  <1>2. <<>> \in Seq(Entries) /\ <<>> \in Seq(Events)
    OBVIOUS
  <1>. QED BY <1>1, <1>2 DEF TypeOK, Finish, Drop

LEMMA PopTypeOK ==
  ASSUME TypeOK
  PROVE  PopHead \in Seq(Entries) /\ PopRest \in Seq(Entries)
  <1>. QED BY LRangeType, ConfigAssumption DEF TypeOK, PopHead, PopRest, LTrim

LEMMA RunStepTypeOK ==
  ASSUME TypeOK, NEW r \in Runs, RunStep(r)
  PROVE  TypeOK'
  <1>. USE DEF TypeOK, redisVars, httpVars, runVars
  <1>1. CASE QueueSize(r)
    BY <1>1, FinishTypeOK DEF QueueSize
  <1>2. CASE LoopExpired(r)
    BY <1>2, FinishTypeOK DEF LoopExpired
  <1>3. CASE ExecLRange(r)
    BY <1>3, PopTypeOK DEF ExecLRange
  <1>4. CASE ExecLTrim(r)
    BY <1>4, PopTypeOK DEF ExecLTrim
  <1>5. CASE PopReply(r)
    BY <1>5 DEF PopReply
  <1>6. CASE PopError(r)
    BY <1>6, FinishTypeOK DEF PopError
  <1>7. CASE DecodeEntry(r)
    <2>1. Head(raw[r]) \in Entries /\ Tail(raw[r]) \in Seq(Entries)
      BY <1>7 DEF DecodeEntry
    <2>2. batch' \in [Runs -> Seq(Events)]
      BY <1>7, <2>1, EntryTypes DEF DecodeEntry
    <2>. QED BY <1>7, <2>1, <2>2 DEF DecodeEntry
  <1>8. CASE DecodeDone(r)
    <2>1. CASE Finish(r)
      BY <1>8, <2>1, FinishTypeOK DEF DecodeDone
    <2>2. CASE ~Finish(r)
      <3>1. /\ batch[r] # <<>> /\ batch' = batch /\ lock' = lock /\ raw' = raw
            /\ pc' = [pc EXCEPT ![r] = "insert"]
            /\ attempt' = [attempt EXCEPT ![r] = 1]
            /\ landed' = [landed EXCEPT ![r] = FALSE]
            /\ expired' = expired
        BY <1>8, <2>2 DEF DecodeDone, NothingDecoded
      <3>2. \A s \in Runs : pc'[s] \in {"insert", "bury"} => batch'[s] # <<>>
        BY <3>1
      <3>3. attempt' \in [Runs -> Nat \ {0}] /\ landed' \in [Runs -> BOOLEAN]
        BY <3>1
      <3>. QED BY <1>8, <3>1, <3>2, <3>3 DEF DecodeDone
    <2>. QED BY <2>1, <2>2
  <1>9. CASE InsertOk(r)
    BY <1>9 DEF InsertOk, MayInsert, Stored
  <1>10. CASE InsertFail(r)
    BY <1>10 DEF InsertFail, MayInsert, RolledBack, NextAttempt
  <1>11. CASE InsertLost(r)
    BY <1>11 DEF InsertLost, MayInsert, Stored, NextAttempt
  <1>12. CASE GiveUp(r)
    <2>1. CASE Failed(r)
      BY <1>12, <2>1 DEF GiveUp
    <2>2. CASE ~Failed(r)
      <3>1. batch' = [batch EXCEPT ![r] = <<>>] /\ pc' = [pc EXCEPT ![r] = "loop"]
        BY <1>12, <2>2 DEF GiveUp
      <3>2. batch' \in [Runs -> Seq(Events)]
        BY <3>1
      <3>3. \A s \in Runs : pc'[s] \in {"insert", "bury"} => batch'[s] # <<>>
        BY <3>1
      <3>. QED BY <1>12, <3>1, <3>2, <3>3 DEF GiveUp
    <2>. QED BY <2>1, <2>2
  <1>13. CASE Bury(r)
    <2>1. batch[r] \in Seq(Events) /\ batch[r] # <<>>
      BY <1>13 DEF Bury
    <2>2. Head(batch[r]) \in Events /\ Tail(batch[r]) \in Seq(Events)
      BY <2>1
    <2>3. dead' \in Seq(Events)
      <3>1. \A e \in Events, t \in Seq(Events) : Append(dead, e) \o t \in Seq(Events)
        OBVIOUS
      <3>2. dead' = dead \/ \E t \in Seq(Events) : dead' = Append(dead, Head(batch[r])) \o t
        BY <1>13, <2>2, BuryAppends
      <3>. HIDE DEF TypeOK
      <3>. QED BY <2>2, <3>1, <3>2 DEF TypeOK
    <2>4. batch' \in [Runs -> Seq(Events)]
      BY <1>13, <2>2 DEF Bury
    <2>5. ASSUME NEW s \in Runs, pc'[s] \in {"insert", "bury"}
          PROVE  batch'[s] # <<>>
      <3>1. CASE s = r
        BY <1>13, <2>1, <2>5, <3>1 DEF Bury
      <3>2. CASE s # r
        BY <1>13, <2>5, <3>2 DEF Bury
      <3>. QED BY <3>1, <3>2
    <2>. QED BY <1>13, <2>3, <2>4, <2>5 DEF Bury
  <1>14. CASE PopAgain(r)
    <2>1. raw' \in [Runs -> Seq(Entries)]
      <3>1. raw' = [raw EXCEPT ![r] = <<>>] /\ <<>> \in Seq(Entries)
        BY <1>14 DEF PopAgain
      <3>. QED BY <3>1
    <2>2. trim' \in [Runs -> BOOLEAN]
      BY <1>14 DEF PopAgain
    <2>3. UNCHANGED <<redisVars, rows, httpVars, batch, attempt, landed, expired>>
      BY <1>14 DEF PopAgain
    <2>4. pc' = [pc EXCEPT ![r] = "loop"]
      BY <1>14 DEF PopAgain
    <2>. QED BY <2>1, <2>2, <2>3, <2>4
  <1>. HIDE DEF TypeOK, redisVars, httpVars, runVars
  <1>. QED
    BY <1>1, <1>2, <1>3, <1>4, <1>5, <1>6, <1>7, <1>8, <1>9, <1>10, <1>11,
       <1>12, <1>13, <1>14 DEF RunStep

LEMMA EnvironmentTypeOK ==
  ASSUME TypeOK,
         \/ \E x \in Undecodable : ForeignPush(x)
         \/ \E r \in Runs : Tick(r) \/ Timeout(r) \/ Kill(r)
         \/ LockExpire
  PROVE  TypeOK'
  <1>. USE DEF TypeOK, redisVars, httpVars, runVars
  <1>1. ASSUME NEW x \in Undecodable, ForeignPush(x)
        PROVE  TypeOK'
    BY <1>1 DEF ForeignPush, Entries
  <1>2. ASSUME NEW r \in Runs, Tick(r)
        PROVE  TypeOK'
    BY <1>2 DEF Tick
  <1>3. ASSUME NEW r \in Runs, Timeout(r)
        PROVE  TypeOK'
    BY <1>3 DEF Timeout
  <1>4. ASSUME NEW r \in Runs, Kill(r)
        PROVE  TypeOK'
    BY <1>4 DEF Kill, Drop
  <1>5. CASE LockExpire
    BY <1>5 DEF LockExpire
  <1>. QED BY <1>1, <1>2, <1>3, <1>4, <1>5

\* In every reachable state the variables have their types; a run that inserts
\* or buries holds a batch that is not empty (event_processor.go:53-81).
THEOREM TypeCorrect == Spec => []TypeOK
  <1>1. TypeOK /\ [Next]_vars => TypeOK'
    <2>1. CASE UNCHANGED vars
      BY <2>1 DEF TypeOK, vars, redisVars, httpVars, runVars
    <2>. QED
      BY <2>1, HandlerTypeOK, RunStepTypeOK, EnvironmentTypeOK DEF Next
  <1>. QED BY <1>1, InitTypeOK, PTL DEF Spec

-----------------------------------------------------------------------------
(* Sequences as sets.                                                       *)

LEMMA ToSetAppend ==
  ASSUME NEW S, NEW s \in Seq(S), NEW e \in S
  PROVE  ToSet(Append(s, e)) = ToSet(s) \cup {e}
  <1>1. \A i \in 1 .. Len(s) : Append(s, e)[i] = s[i]
    OBVIOUS
  <1>2. Append(s, e)[Len(s) + 1] = e /\ Len(s) \in Nat
    OBVIOUS
  <1>3. DOMAIN s = 1 .. Len(s) /\ DOMAIN Append(s, e) = 1 .. Len(s) + 1
    OBVIOUS
  <1>. QED BY <1>1, <1>2, <1>3, Z3 DEF ToSet

LEMMA ToSetConcat ==
  ASSUME NEW S, NEW s \in Seq(S), NEW t \in Seq(S)
  PROVE  ToSet(s \o t) = ToSet(s) \cup ToSet(t)
  <1>1. ToSet(s) = Range(s) /\ ToSet(t) = Range(t) /\ ToSet(s \o t) = Range(s \o t)
    BY DEF ToSet, Range
  <1>. QED BY <1>1, RangeConcatenation

\* However often it is sent, a dead letter adds its event to the list; only a
\* failing Redis keeps it away.
LEMMA BuryAdds ==
  ASSUME NEW S, dead \in Seq(S), NEW r \in Runs, Bury(r), Head(batch[r]) \in S,
         dead' # dead
  PROVE  ToSet(dead') = ToSet(dead) \cup {Head(batch[r])}
  <1>. DEFINE x == Head(batch[r])
              d == Append(dead, x)
  <1>1. PICK t \in Seq(S) : dead' = d \o t /\ \A i \in DOMAIN t : t[i] = x
    BY BuryAppends
  <1>2. ToSet(t) \subseteq {x}
    BY <1>1 DEF ToSet
  <1>3. ToSet(d) = ToSet(dead) \cup {x} /\ d \in Seq(S)
    BY ToSetAppend
  <1>. HIDE DEF d
  <1>4. ToSet(d \o t) = ToSet(d) \cup ToSet(t)
    BY <1>3, ToSetConcat
  <1>. QED BY <1>1, <1>2, <1>3, <1>4

LEMMA BuryLengthens ==
  ASSUME NEW S, dead \in Seq(S), NEW r \in Runs, Bury(r), Head(batch[r]) \in S,
         "redis" \notin Faults
  PROVE  dead' # dead
  <1>. DEFINE x == Head(batch[r])
  <1>1. Len(Append(dead, x)) = Len(dead) + 1 /\ Len(dead) \in Nat
    OBVIOUS
  <1>2. \A n \in 1 .. MaxResends :
          Len(Append(dead, x) \o Copies(x, n)) = Len(dead) + 1 + n
    <2>. TAKE n \in 1 .. MaxResends
    <2>1. Copies(x, n) \in Seq(S) /\ Len(Copies(x, n)) = n /\ Append(dead, x) \in Seq(S)
      BY DEF Copies
    <2>. HIDE DEF x
    <2>. QED BY <1>1, <2>1
  <1>. QED BY <1>1, <1>2 DEF Bury

LEMMA ToSetEmpty == ToSet(<<>>) = {}
  BY DEF ToSet

LEMMA ToSetHeadTail ==
  ASSUME NEW S, NEW s \in Seq(S), s # <<>>
  PROVE  ToSet(s) = {Head(s)} \cup ToSet(Tail(s))
  <1>1. /\ s = <<Head(s)>> \o Tail(s)
        /\ <<Head(s)>> \in Seq(S) /\ Tail(s) \in Seq(S)
    OBVIOUS
  <1>2. ToSet(<<Head(s)>>) = {Head(s)}
    BY DEF ToSet
  <1>3. ToSet(<<Head(s)>> \o Tail(s)) = ToSet(<<Head(s)>>) \cup ToSet(Tail(s))
    BY <1>1, ToSetConcat
  <1>. QED BY <1>1, <1>2, <1>3, Zenon

\* How many elements LTRIM size -1 takes off a list of the given length.
Cut(len, size) ==
  IF size >= 0 THEN size ELSE IF len + size > 0 THEN len + size ELSE 0

LEMMA LTrimElements ==
  ASSUME NEW S, NEW list \in Seq(S), NEW size \in Int, NEW e
  PROVE  e \in ToSet(LTrim(list, size, -1))
           <=> \E i \in Cut(Len(list), size) + 1 .. Len(list) : e = list[i]
  <1>. DEFINE len == Len(list)
              cut == Cut(len, size)
  <1>1. len \in Nat /\ cut \in Nat
    BY DEF Cut
  <1>2. LTrim(list, size, -1)
          = IF cut > len - 1 THEN <<>> ELSE SubSeq(list, cut + 1, len)
    <2>1. FromLeft(-1, len) = len - 1
      BY DEF FromLeft
    <2>2. (IF FromLeft(size, len) < 0 THEN 0 ELSE FromLeft(size, len)) = cut
      BY DEF FromLeft, Cut
    <2>3. len - 1 < len /\ len - 1 + 1 = len
      BY <1>1
    <2>. HIDE DEF cut
    <2>. QED BY <1>1, <2>1, <2>2, <2>3 DEF LTrim, LRange
  <1>3. CASE cut > len - 1
    <2>1. LTrim(list, size, -1) = <<>>
      BY <1>2, <1>3
    <2>2. ~\E i \in cut + 1 .. len : e = list[i]
      <3>. HIDE DEF cut, len
      <3>. QED BY <1>1, <1>3
    <2>. QED BY <2>1, <2>2 DEF ToSet
  <1>4. CASE ~(cut > len - 1)
    <2>1. LTrim(list, size, -1) = SubSeq(list, cut + 1, len)
      BY <1>2, <1>4
    <2>. DEFINE rest == SubSeq(list, cut + 1, len)
    <2>2. e \in ToSet(rest) <=> \E i \in cut + 1 .. len : e = list[i]
      <3>. HIDE DEF cut
      <3>1. cut + 1 \in 1 .. len
        BY <1>1, <1>4
      <3>2. /\ DOMAIN rest = 1 .. len - cut
            /\ \A i \in 1 .. len - cut : rest[i] = list[cut + i]
        BY <1>1, <3>1
      <3>3. \A i \in cut + 1 .. len : i - cut \in 1 .. len - cut /\ cut + (i - cut) = i
        BY <1>1
      <3>4. \A i \in 1 .. len - cut : cut + i \in cut + 1 .. len
        BY <1>1
      <3>. HIDE DEF len, rest
      <3>5. e \in ToSet(rest) <=> \E i \in 1 .. len - cut : e = rest[i]
        BY <3>2 DEF ToSet
      <3>. QED BY <3>2, <3>3, <3>4, <3>5
    <2>. QED BY <2>1, <2>2
  <1>. QED BY <1>3, <1>4

\* What a push adds to a list that is about to be trimmed is at most itself, and a
\* trim brings nothing new.
LEMMA LTrimOfLonger ==
  ASSUME NEW S, NEW list \in Seq(S), NEW size \in Int, NEW x \in S
  PROVE  /\ ToSet(LTrim(Append(list, x), size, -1)) \subseteq ToSet(LTrim(list, size, -1)) \cup {x}
         /\ ToSet(LTrim(list, size, -1)) \subseteq ToSet(list)
  <1>. DEFINE long == Append(list, x)
  <1>1. /\ Len(list) \in Nat /\ long \in Seq(S) /\ Len(long) = Len(list) + 1
        /\ \A i \in 1 .. Len(list) : long[i] = list[i]
        /\ long[Len(list) + 1] = x
    OBVIOUS
  <1>2. /\ Cut(Len(list), size) \in Nat
        /\ Cut(Len(list) + 1, size) \in Nat
        /\ Cut(Len(list), size) <= Cut(Len(list) + 1, size)
    BY <1>1 DEF Cut
  <1>. HIDE DEF long
  <1>3. ASSUME NEW e \in ToSet(LTrim(long, size, -1)), e # x
        PROVE  e \in ToSet(LTrim(list, size, -1))
    <2>1. PICK i \in Cut(Len(list) + 1, size) + 1 .. Len(list) + 1 : e = long[i]
      BY <1>1, <1>3, LTrimElements
    <2>2. i \in Cut(Len(list), size) + 1 .. Len(list) /\ long[i] = list[i]
      BY <1>1, <1>2, <1>3, <2>1
    <2>. QED BY <2>1, <2>2, LTrimElements
  <1>4. ASSUME NEW e \in ToSet(LTrim(list, size, -1))
        PROVE  e \in ToSet(list)
    <2>1. PICK i \in Cut(Len(list), size) + 1 .. Len(list) : e = list[i]
      BY LTrimElements
    <2>2. i \in DOMAIN list
      BY <1>1, <1>2
    <2>. QED BY <2>1, <2>2 DEF ToSet
  <1>. QED BY <1>3, <1>4 DEF long

LEMMA RestOfQueue ==
  ASSUME TypeOK
  PROVE  /\ ToSet(PopRest) \subseteq ToSet(queue)
         /\ queue' = PopRest => ToSet(PopRest') \subseteq ToSet(PopRest)
         /\ \A x \in Entries : queue' = Append(queue, x) =>
              ToSet(PopRest') \subseteq ToSet(PopRest) \cup {x}
  <1>1. queue \in Seq(Entries) /\ PopRest \in Seq(Entries) /\ BatchSize \in Int
    BY PopTypeOK, ConfigAssumption DEF TypeOK
  <1>2. PopRest = LTrim(queue, BatchSize, -1) /\ PopRest' = LTrim(queue', BatchSize, -1)
    BY DEF PopRest
  <1>3. ASSUME NEW list \in Seq(Entries)
        PROVE  /\ ToSet(LTrim(list, BatchSize, -1)) \subseteq ToSet(list)
               /\ \A x \in Entries : ToSet(LTrim(Append(list, x), BatchSize, -1))
                     \subseteq ToSet(LTrim(list, BatchSize, -1)) \cup {x}
    <2>1. ASSUME NEW e \in ToSet(LTrim(list, BatchSize, -1))
          PROVE  e \in ToSet(list)
      <3>1. PICK i \in Cut(Len(list), BatchSize) + 1 .. Len(list) : e = list[i]
        BY <1>1, LTrimElements
      <3>2. i \in DOMAIN list
        BY <1>1 DEF Cut
      <3>. QED BY <3>1, <3>2 DEF ToSet
    <2>. QED BY <1>1, <2>1, LTrimOfLonger
  <1>. QED BY <1>1, <1>2, <1>3

\* A pop hands over or leaves behind every element, whatever the batch size.
LEMMA PopKeepsElements ==
  ASSUME TypeOK
  PROVE  ToSet(queue) \subseteq ToSet(PopHead) \cup ToSet(PopRest)
  <1>1. CASE BatchSize = 0
    BY <1>1, PopOfSizeZeroRemovesNothing DEF TypeOK, PopHead
  <1>2. CASE BatchSize # 0
    <2>1. queue = PopHead \o PopRest
      BY <1>2, ConfigAssumption, PopSplitsList DEF TypeOK, PopHead, PopRest
    <2>. QED BY <2>1, PopTypeOK, ToSetConcat
  <1>. QED BY <1>1, <1>2

-----------------------------------------------------------------------------
(* In which states a run holds something, whatever the environment does.    *)

Located ==
  \A r \in Runs :
    /\ raw[r] # <<>> => pc[r] \in {"reply", "decode"}
    /\ batch[r] # <<>> => pc[r] \in {"decode", "insert", "bury"}
    /\ trim[r] => pc[r] \in {"idle", "loop", "reply"} /\ "split" \in Faults

\* The run's variables are gone, and its LTRIM is not more on its way than before.
LEMMA DropKeepsLocated ==
  ASSUME TypeOK, Located, NEW r \in Runs, Drop(r),
         trim' \in {trim, [trim EXCEPT ![r] = FALSE]}
  PROVE  Located'
  <1>1. \A s \in Runs : trim'[s] => trim[s]
    BY DEF TypeOK
  <1>2. pc'[r] = "idle" /\ raw'[r] = <<>> /\ batch'[r] = <<>>
    BY DEF TypeOK, Drop
  <1>3. \A s \in Runs \ {r} : pc'[s] = pc[s] /\ raw'[s] = raw[s] /\ batch'[s] = batch[s]
    BY DEF TypeOK, Drop
  <1>. QED BY <1>1, <1>2, <1>3 DEF Located

LEMMA RunStepLocated ==
  ASSUME TypeOK, Located, NEW r \in Runs, RunStep(r)
  PROVE  Located'
  <1>. USE DEF TypeOK, Located
  <1>1. CASE QueueSize(r)
    BY <1>1, DropKeepsLocated DEF QueueSize, Finish
  <1>2. CASE LoopExpired(r)
    BY <1>2, DropKeepsLocated DEF LoopExpired, Finish
  <1>3. CASE ExecLRange(r)
    BY <1>3 DEF ExecLRange
  <1>4. CASE ExecLTrim(r)
    BY <1>4 DEF ExecLTrim
  <1>5. CASE PopReply(r)
    BY <1>5 DEF PopReply
  <1>6. CASE PopError(r)
    BY <1>6, DropKeepsLocated DEF PopError, Finish
  <1>7. CASE DecodeEntry(r)
    BY <1>7 DEF DecodeEntry
  <1>8. CASE DecodeDone(r)
    BY <1>8, DropKeepsLocated DEF DecodeDone, Finish
  <1>9. CASE InsertOk(r)
    BY <1>9 DEF InsertOk, MayInsert
  <1>10. CASE InsertFail(r)
    BY <1>10 DEF InsertFail, MayInsert
  <1>11. CASE InsertLost(r)
    BY <1>11 DEF InsertLost, MayInsert
  <1>12. CASE GiveUp(r)
    <2>1. CASE Failed(r)
      BY <1>12, <2>1 DEF GiveUp
    <2>2. CASE ~Failed(r)
      BY <1>12, <2>2 DEF GiveUp
    <2>. QED BY <2>1, <2>2
  <1>13. CASE Bury(r)
    BY <1>13 DEF Bury
  <1>14. CASE PopAgain(r)
    BY <1>14 DEF PopAgain
  <1>. QED
    BY <1>1, <1>2, <1>3, <1>4, <1>5, <1>6, <1>7, <1>8, <1>9, <1>10, <1>11,
       <1>12, <1>13, <1>14 DEF RunStep

LEMMA AlwaysLocated == Spec => []Located
  <1>1. Init => Located
    BY DEF Init, Located
  <1>2. ASSUME TypeOK, Located, [Next]_vars
        PROVE  Located'
    <2>. USE <1>2 DEF redisVars, httpVars, runVars
    <2>1. CASE UNCHANGED <<pc, raw, batch, trim>>
      BY <2>1 DEF Located
    <2>2. ASSUME NEW r \in Runs, Tick(r)
          PROVE  Located'
      BY <2>2 DEF Tick, TypeOK, Located
    <2>3. ASSUME NEW r \in Runs, Kill(r)
          PROVE  Located'
      BY <2>3, DropKeepsLocated DEF Kill
    <2>. QED
      BY <2>1, <2>2, <2>3, RunStepLocated
         DEF Next, vars, Handler, Bind, PushCommand, PushReply, PushError, PushAgain,
             KillHandler, ForeignPush, Timeout, LockExpire
  <1>. QED BY <1>1, <1>2, TypeCorrect, PTL DEF Spec

-----------------------------------------------------------------------------
(* Nothing acknowledged is lost.  NoLoss is not inductive: an answer of 200 *)
(* says nothing of where the events are.  The strengthening follows every  *)
(* executed RPUSH instead.                                                  *)

AnsweredWhole == \A q \in Requests : resp[q] = "200" => sent[q] = Len(q)

LossInv == TypeOK /\ Located /\ AnsweredWhole /\ Pushes \subseteq Accounted

LEMMA LossInvSuffices == LossInv => NoLoss
  <1>. SUFFICES ASSUME LossInv, NEW q \in Requests, resp[q] = "200",
                       NEW e \in ToSet(q)
                PROVE  e \in Accounted
    BY DEF NoLoss, Acked
  <1>1. PICK i \in 1 .. Len(q) : e = q[i]
    BY RequestsAssumption DEF ToSet
  <1>2. sent[q] = Len(q)
    BY DEF LossInv, AnsweredWhole
  <1>. QED BY <1>1, <1>2 DEF LossInv, Pushes

LEMMA InitLossInv == Init => LossInv
  <1>. SUFFICES ASSUME Init PROVE LossInv
    OBVIOUS
  <1>1. Located /\ AnsweredWhole
    BY DEF Init, Located, AnsweredWhole
  <1>2. Pushes = {}
    BY DEF Init, Pushes
  <1>. QED BY <1>1, <1>2, InitTypeOK DEF LossInv

\* A run that returns with empty hands changes neither raw nor batch.
LEMMA FinishEmptyHanded ==
  ASSUME TypeOK, NEW r \in Runs, Finish(r), raw[r] = <<>>, batch[r] = <<>>
  PROVE  raw' = raw /\ batch' = batch
  BY DEF TypeOK, Finish, Drop

\* Accounted, place by place, before and after a step.
LEMMA WhereAccounted ==
  \A e : e \in Accounted <=>
    \/ e \in ToSet(queue) \cup ToSet(rows) \cup ToSet(dead)
    \/ \E s \in Runs : e \in ToSet(raw[s]) \cup ToSet(batch[s])
  <1>1. \A e : e \in UNION {Held(s) : s \in Runs}
              <=> \E s \in Runs : e \in ToSet(raw[s]) \cup ToSet(batch[s])
    BY Zenon DEF Held
  <1>2. Accounted = (ToSet(queue) \cup (UNION {Held(s) : s \in Runs}))
                      \cup ToSet(rows) \cup ToSet(dead)
    BY DEF Accounted
  <1>. QED BY <1>1, <1>2, Zenon

LEMMA WhereAccountedNext ==
  \A e : e \in Accounted' <=>
    \/ e \in ToSet(queue') \cup ToSet(rows') \cup ToSet(dead')
    \/ \E s \in Runs : e \in ToSet(raw'[s]) \cup ToSet(batch'[s])
  <1>1. \A e : e \in UNION {Held(s)' : s \in Runs}
              <=> \E s \in Runs : e \in ToSet(raw'[s]) \cup ToSet(batch'[s])
    BY Zenon DEF Held
  <1>2. Accounted' = (ToSet(queue') \cup (UNION {Held(s)' : s \in Runs}))
                       \cup ToSet(rows') \cup ToSet(dead')
    BY DEF Accounted
  <1>. QED BY <1>1, <1>2, Zenon

\* An event leaves one place only for another, whatever a run does.
LEMMA RunStepKeepsEvents ==
  ASSUME Lossless, TypeOK, Located, NEW r \in Runs, RunStep(r),
         NEW e \in Events, e \in Accounted
  PROVE  e \in Accounted'
  <1>. USE DEF redisVars, httpVars
  <1>a. \/ e \in ToSet(queue) \cup ToSet(rows) \cup ToSet(dead)
        \/ \E s \in Runs : e \in ToSet(raw[s]) \cup ToSet(batch[s])
    BY WhereAccounted
  <1>b. /\ e \in ToSet(queue') \cup ToSet(rows') \cup ToSet(dead') => e \in Accounted'
        /\ \A s \in Runs : e \in ToSet(raw'[s]) \cup ToSet(batch'[s]) => e \in Accounted'
    BY WhereAccountedNext
  <1>0. /\ raw[r] \in Seq(Entries) /\ batch[r] \in Seq(Events)
        /\ rows \in Seq(Events) /\ dead \in Seq(Events)
    BY DEF TypeOK
  <1>1. ASSUME Finish(r), raw[r] = <<>>, batch[r] = <<>>,
               UNCHANGED <<queue, dead, rows>>
        PROVE  e \in Accounted'
    BY <1>1, FinishEmptyHanded, <1>a, <1>b
  <1>2. CASE QueueSize(r)
    <2>1. raw[r] = <<>> /\ batch[r] = <<>>
      BY <1>2 DEF QueueSize, Located
    <2>2. CASE Finish(r)
      BY <1>1, <1>2, <2>1, <2>2 DEF QueueSize
    <2>3. CASE ~Finish(r)
      BY <1>2, <1>a, <1>b, <2>3 DEF QueueSize
    <2>. QED BY <2>2, <2>3
  <1>3. CASE LoopExpired(r)
    <2>1. raw[r] = <<>> /\ batch[r] = <<>>
      BY <1>3 DEF LoopExpired, Located
    <2>. QED BY <1>1, <1>3, <2>1 DEF LoopExpired
  <1>4. CASE ExecLRange(r)
    <2>1. raw[r] = <<>> /\ queue' = PopRest /\ raw'[r] = PopHead
      BY <1>4 DEF ExecLRange, Located, Lossless, TypeOK
    <2>2. \A s \in Runs \ {r} : raw'[s] = raw[s]
      BY <1>4 DEF ExecLRange, TypeOK
    <2>3. ToSet(raw[r]) = {}
      BY <2>1, ToSetEmpty
    <2>4. ToSet(queue) \subseteq ToSet(raw'[r]) \cup ToSet(queue')
      BY <2>1, PopKeepsElements
    <2>5. batch' = batch /\ rows' = rows /\ dead' = dead
      BY <1>4 DEF ExecLRange
    <2>. QED BY <2>2, <2>3, <2>4, <2>5, <1>a, <1>b, Zenon
  <1>5. CASE PopReply(r) \/ InsertFail(r)
    BY <1>5, <1>a, <1>b DEF PopReply, InsertFail, RolledBack
  <1>6. CASE DecodeEntry(r)
    <2>1. ToSet(raw[r]) = {Head(raw[r])} \cup ToSet(Tail(raw[r]))
      BY <1>0, <1>6, ToSetHeadTail DEF DecodeEntry
    <2>2. raw'[r] = Tail(raw[r]) /\ \A s \in Runs \ {r} : raw'[s] = raw[s]
      BY <1>6 DEF DecodeEntry, TypeOK
    <2>3. \A s \in Runs \ {r} : batch'[s] = batch[s]
      BY <1>6 DEF DecodeEntry, TypeOK
    <2>4. queue' = queue /\ rows' = rows /\ dead' = dead
      BY <1>6 DEF DecodeEntry
    <2>5. CASE Head(raw[r]) \in Undecodable
      <3>1. batch' = batch /\ e # Head(raw[r])
        BY <1>6, <2>5, EntriesAssumption DEF DecodeEntry
      <3>. QED BY <2>1, <2>2, <2>4, <3>1, <1>a, <1>b, Zenon
    <2>6. CASE Head(raw[r]) \notin Undecodable
      <3>1. Head(raw[r]) \in Events
        BY <1>0, <1>6, <2>6, EntryTypes DEF DecodeEntry
      <3>2. batch'[r] = Append(batch[r], Head(raw[r]))
        BY <1>6, <2>6 DEF DecodeEntry, TypeOK
      <3>3. ToSet(batch'[r]) = ToSet(batch[r]) \cup {Head(raw[r])}
        BY <1>0, <3>1, <3>2, ToSetAppend
      <3>. QED BY <2>1, <2>2, <2>3, <2>4, <3>3, <1>a, <1>b, Zenon
    <2>. QED BY <2>5, <2>6
  <1>7. CASE DecodeDone(r)
    <2>1. CASE NothingDecoded(r) /\ Finish(r)
      <3>1. raw[r] = <<>> /\ batch[r] = <<>>
        BY <1>7, <2>1 DEF DecodeDone, NothingDecoded
      <3>. QED BY <1>1, <1>7, <2>1, <3>1 DEF DecodeDone
    <2>2. CASE ~(NothingDecoded(r) /\ Finish(r))
      BY <1>7, <1>a, <1>b, <2>2 DEF DecodeDone
    <2>. QED BY <2>1, <2>2
  <1>8. CASE InsertOk(r)
    <2>1. ToSet(rows') = ToSet(rows) \cup ToSet(batch[r])
      BY <1>0, <1>8, ToSetConcat DEF InsertOk, Stored
    <2>2. \A s \in Runs \ {r} : batch'[s] = batch[s]
      BY <1>8 DEF InsertOk, TypeOK
    <2>3. queue' = queue /\ dead' = dead /\ raw' = raw
      BY <1>8 DEF InsertOk
    <2>. QED BY <2>1, <2>2, <2>3, <1>a, <1>b, Zenon
  <1>9. CASE InsertLost(r)
    <2>1. ToSet(rows') = ToSet(rows) \cup ToSet(batch[r])
      BY <1>0, <1>9, ToSetConcat DEF InsertLost, Stored
    <2>2. queue' = queue /\ dead' = dead /\ raw' = raw /\ batch' = batch
      BY <1>9 DEF InsertLost
    <2>. QED BY <2>1, <2>2, <1>a, <1>b, Zenon
  <1>10. CASE GiveUp(r)
    <2>1. Failed(r)
      BY <1>10, ConfigAssumption DEF GiveUp, Failed, Lossless, TypeOK
    <2>. QED BY <1>10, <1>a, <1>b, <2>1 DEF GiveUp
  <1>11. CASE Bury(r)
    <2>1. batch[r] # <<>>
      BY <1>11 DEF Bury, TypeOK
    <2>2. ToSet(batch[r]) = {Head(batch[r])} \cup ToSet(Tail(batch[r]))
      BY <1>0, <2>1, ToSetHeadTail
    <2>3. Head(batch[r]) \in Events
      BY <1>0, <2>1
    <2>4. dead' # dead
      <3>. HIDE DEF TypeOK
      <3>. QED BY <1>11, <1>0, <2>3, BuryLengthens DEF Lossless
    <2>5. ToSet(dead') = ToSet(dead) \cup {Head(batch[r])}
      BY <1>0, <1>11, <2>3, <2>4, BuryAdds
    <2>6. batch'[r] = Tail(batch[r]) /\ \A s \in Runs \ {r} : batch'[s] = batch[s]
      BY <1>11 DEF Bury, TypeOK
    <2>7. queue' = queue /\ rows' = rows /\ raw' = raw
      BY <1>11 DEF Bury
    <2>. QED BY <2>2, <2>5, <2>6, <2>7, <1>a, <1>b, Zenon
  <1>12. ~ExecLTrim(r) /\ ~PopError(r) /\ ~PopAgain(r)
    BY DEF ExecLTrim, PopError, PopAgain, Located, Lossless
  <1>. QED
    BY <1>2, <1>3, <1>4, <1>5, <1>6, <1>7, <1>8, <1>9, <1>10, <1>11, <1>12
       DEF RunStep

\* Handlers, the other writer, ticks, timeouts and the lock's expiry touch no
\* event that is already in the pipeline.
LEMMA OthersKeepEvents ==
  ASSUME Lossless, TypeOK, Located,
         \/ \E q \in Requests : Handler(q)
         \/ \E x \in Undecodable : ForeignPush(x)
         \/ \E r \in Runs : Tick(r) \/ Timeout(r) \/ Kill(r)
         \/ LockExpire
  PROVE  Accounted \subseteq Accounted'
  <1>. USE DEF redisVars, httpVars, runVars
  <1>1. UNCHANGED <<rows, dead, raw, batch, trim>>
    BY DEF Handler, Bind, PushCommand, PushReply, PushError, PushAgain,
           KillHandler, ForeignPush, Tick, Timeout, Kill, LockExpire, Lossless
  <1>2. ToSet(queue) \subseteq ToSet(queue')
    <2>1. queue' = queue \/ \E x \in Entries : queue' = Append(queue, x)
      <3>1. ASSUME NEW q \in Requests, PushCommand(q)
            PROVE  \E x \in Entries : queue' = Append(queue, x)
        <4>1. sent[q] + 1 \in 1 .. Len(q)
          BY <3>1, RequestsAssumption DEF PushCommand, TypeOK
        <4>2. q[sent[q] + 1] \in Entries
          BY <4>1, EntryTypes
        <4>. QED BY <3>1, <4>2 DEF PushCommand, Pushed
      <3>2. ASSUME NEW x \in Undecodable, ForeignPush(x)
            PROVE  \E y \in Entries : queue' = Append(queue, y)
        BY <3>2 DEF ForeignPush, Entries
      <3>. QED
        BY <3>1, <3>2 DEF Handler, Bind, PushReply, PushError, PushAgain,
                          KillHandler, Tick, Timeout, Kill, LockExpire
    <2>2. queue \in Seq(Entries)
      BY DEF TypeOK
    <2>3. \A x \in Entries : ToSet(Append(queue, x)) = ToSet(queue) \cup {x}
      BY <2>2, ToSetAppend
    <2>. QED BY <2>1, <2>3, Zenon
  <1>3. ASSUME NEW e \in Accounted
        PROVE  e \in Accounted'
    BY <1>1, <1>2, WhereAccounted, WhereAccountedNext, Zenon
  <1>. QED BY <1>3

LEMMA HandlerAnswersWhole ==
  ASSUME TypeOK, AnsweredWhole, NEW q \in Requests, Handler(q)
  PROVE  AnsweredWhole'
  <1>. USE DEF TypeOK, AnsweredWhole
  <1>1. CASE Bind(q)
    BY <1>1 DEF Bind
  <1>2. CASE PushCommand(q)
    BY <1>2 DEF PushCommand
  <1>3. CASE PushReply(q)
    BY <1>3 DEF PushReply, MayAnswer
  <1>4. CASE PushError(q) \/ PushAgain(q) \/ KillHandler(q)
    BY <1>4 DEF PushError, PushAgain, KillHandler
  <1>. QED BY <1>1, <1>2, <1>3, <1>4 DEF Handler

\* Only PushCommand adds an event to Pushes, and it puts it into the queue.
LEMMA NewPushIsQueued ==
  ASSUME TypeOK, [Next]_vars, NEW e \in Pushes', e \notin Pushes
  PROVE  e \in ToSet(queue')
  <1>1. PICK q \in Requests : \E j \in 1 .. sent'[q] : e = q[j]
    BY DEF Pushes
  <1>2. \A j \in 1 .. sent[q] : e # q[j]
    BY DEF Pushes
  <1>9. PICK i \in 1 .. sent'[q] : e = q[i]
    BY <1>1
  <1>3. sent'[q] # sent[q]
    BY <1>1, <1>2
  <1>4. PushCommand(q)
    <2>1. UNCHANGED sent \/ \E p \in Requests : PushCommand(p) \/ PushAgain(p)
      BY DEF Next, vars, httpVars, Handler, Bind, PushReply, PushError,
             PushAgain, KillHandler, ForeignPush, Tick, Timeout, Kill, LockExpire, RunStep,
             QueueSize, LoopExpired, ExecLRange, ExecLTrim, PopReply, PopError,
             PopAgain,
             DecodeEntry, DecodeDone, InsertOk, InsertFail, InsertLost, GiveUp,
             Bury
    <2>2. PushCommand(q) \/ PushAgain(q)
      BY <1>3, <2>1 DEF PushCommand, PushAgain, TypeOK
    <2>3. sent'[q] # 0
      BY <1>9
    <2>. QED BY <2>2, <2>3 DEF PushAgain, TypeOK
  <1>5. sent[q] + 1 \in 1 .. Len(q)
    BY <1>4, RequestsAssumption DEF PushCommand, TypeOK
  <1>6. sent'[q] = sent[q] + 1
    BY <1>4 DEF PushCommand, TypeOK
  <1>7. i = sent[q] + 1
    BY <1>2, <1>6, <1>9 DEF TypeOK
  <1>8. q[i] \in Entries
    BY <1>5, <1>7, EntryTypes
  <1>. QED BY <1>4, <1>7, <1>8, <1>9, ToSetAppend DEF PushCommand, Pushed, TypeOK

LEMMA StepKeepsLossInv ==
  ASSUME Lossless, LossInv, TypeOK', Located', [Next]_vars
  PROVE  LossInv'
  <1>. USE DEF LossInv
  <1>1. CASE UNCHANGED vars
    <2>1. UNCHANGED <<queue, dead, rows, resp, sent, pc, raw, batch, trim>>
      BY <1>1 DEF vars, redisVars, httpVars, runVars
    <2>2. AnsweredWhole'
      BY <2>1 DEF AnsweredWhole
    <2>3. Pushes' = Pushes /\ Accounted' = Accounted
      BY <2>1 DEF Pushes, Accounted, Held
    <2>. QED BY <2>2, <2>3
  <1>2. CASE Next
    <2>1. AnsweredWhole'
      <3>1. UNCHANGED <<resp, sent>> \/ \E q \in Requests : Handler(q)
        BY <1>2 DEF Next, httpVars, ForeignPush, Tick, Timeout, Kill, LockExpire,
             RunStep, QueueSize, LoopExpired, ExecLRange, ExecLTrim, PopReply,
             PopError, PopAgain, DecodeEntry, DecodeDone, InsertOk, InsertFail,
             InsertLost,
             GiveUp, Bury
      <3>. QED BY <3>1, HandlerAnswersWhole DEF AnsweredWhole
    <2>2. ASSUME NEW e \in Pushes'
          PROVE  e \in Accounted'
      <3>1. CASE e \notin Pushes
        BY <2>2, <3>1, NewPushIsQueued, WhereAccountedNext
      <3>2. CASE e \in Pushes
        <4>1. e \in Accounted
          BY <3>2
        <4>2. e \in Events
          <5>1. PICK q \in Requests : \E i \in 1 .. sent[q] : e = q[i]
            BY <3>2 DEF Pushes
          <5>2. sent[q] \in Nat /\ Len(q) \in Nat /\ sent[q] <= Len(q)
            BY RequestsAssumption DEF TypeOK
          <5>. QED BY <5>1, <5>2, EntryTypes
        <4>. QED BY <1>2, <4>1, <4>2, RunStepKeepsEvents, OthersKeepEvents DEF Next
      <3>. QED BY <3>1, <3>2
    <2>. QED BY <2>1, <2>2
  <1>. QED BY <1>1, <1>2

LEMMA AlwaysLossInv ==
  ASSUME Lossless
  PROVE  Spec => []LossInv
  <1>1. LossInv /\ TypeOK' /\ Located' /\ [Next]_vars => LossInv'
    BY StepKeepsLossInv
  <1>. QED BY <1>1, InitLossInv, TypeCorrect, AlwaysLocated, PTL DEF Spec

\* No acknowledged event is ever lost, for any requests, any number of
\* overlapping runs and any batch size, as long as the environment is Lossless:
\* inserts may fail, commits go unanswered, runs time out and locks expire early
\* (event_buffer.go:63-89, event_processor.go:53-81).
THEOREM NothingLost ==
  ASSUME Lossless
  PROVE  Spec => []NoLoss
  <1>. QED BY AlwaysLossInv, LossInvSuffices, PTL

-----------------------------------------------------------------------------
(* Mutual exclusion of the runs.                                            *)

LEMMA FinishKeepsOneRun ==
  ASSUME TypeOK, OneActiveRun, NEW r \in Runs, pc[r] # "idle", Finish(r)
  PROVE  OneActiveRun'
  BY LockAssumption DEF TypeOK, OneActiveRun, Finish, Drop, Unlock

LEMMA RunStepKeepsOneRun ==
  ASSUME TypeOK, OneActiveRun, NEW r \in Runs, RunStep(r)
  PROVE  OneActiveRun'
  <1>. USE DEF TypeOK, OneActiveRun, redisVars
  <1>1. CASE pc[r] # "idle" /\ Finish(r)
    BY <1>1, FinishKeepsOneRun
  <1>2. CASE ExecLTrim(r)
    BY <1>2 DEF ExecLTrim
  <1>3. CASE ~(pc[r] # "idle" /\ Finish(r)) /\ ~ExecLTrim(r)
    <2>1. pc[r] # "idle" /\ lock' = lock
      BY <1>3 DEF RunStep, QueueSize, LoopExpired, ExecLRange, PopReply,
           PopError, PopAgain, DecodeEntry, DecodeDone, InsertOk, InsertFail,
             InsertLost,
           MayInsert, GiveUp, Bury
    <2>2. \A s \in Runs \ {r} : pc'[s] = pc[s]
      BY <1>3 DEF RunStep, QueueSize, LoopExpired, ExecLRange, PopReply,
           PopError, PopAgain, DecodeEntry, DecodeDone, InsertOk, InsertFail,
             InsertLost,
           GiveUp, Bury
    <2>. QED BY <2>1, <2>2
  <1>. QED BY <1>1, <1>2, <1>3

\* At any time at most one run is between its start and its end, and it owns
\* the lock key, provided the key outlives the run: Redis errors, kills, orphaned
\* keys and timeouts included (scheduler.go:28-34).
THEOREM RunsExclude ==
  ASSUME "ttl" \notin Faults
  PROVE  Spec => []OneActiveRun
  <1>1. Init => OneActiveRun
    BY DEF Init, OneActiveRun
  <1>2. ASSUME TypeOK, OneActiveRun, [Next]_vars
        PROVE  OneActiveRun'
    <2>. USE <1>2 DEF OneActiveRun, redisVars, httpVars, runVars
    <2>1. CASE UNCHANGED <<lock, pc>>
      BY <2>1
    <2>2. ASSUME NEW r \in Runs, Tick(r)
          PROVE  OneActiveRun'
      <3>1. \A s \in Runs : pc[s] = "idle"
        BY <2>2, LockAssumption DEF Tick, MayStart
      <3>. QED BY <2>2, <3>1 DEF Tick, TypeOK
    <2>3. ASSUME NEW r \in Runs, RunStep(r)
          PROVE  OneActiveRun'
      BY <2>3, RunStepKeepsOneRun
    <2>4. ASSUME NEW r \in Runs, Kill(r)
          PROVE  OneActiveRun'
      BY <2>4, LockAssumption DEF Kill, Drop, TypeOK
    <2>5. CASE LockExpire
      BY <2>5, LockAssumption DEF LockExpire
    <2>6. ASSUME NEW q \in Requests, Handler(q)
          PROVE  UNCHANGED <<lock, pc>>
      BY <2>6 DEF Handler, Bind, PushCommand, PushReply, PushError, PushAgain,
                       KillHandler
    <2>. QED
      BY <2>1, <2>2, <2>3, <2>4, <2>5, <2>6 DEF Next, vars, ForeignPush, Timeout
  <1>. QED BY <1>1, <1>2, TypeCorrect, PTL DEF Spec

-----------------------------------------------------------------------------
(* A request that is refused leaves nothing behind.                        *)

\* What a request that passes the validator may bring in, and other writers'
\* entries.
Welcome == {e \in Entries : \A q \in Requests : BindingFails(q) => e \notin ToSet(q)}

\* The lists, the table and the runs' hands hold only elements of W.
Within(W) ==
  /\ queue \in Seq(W) /\ dead \in Seq(W) /\ rows \in Seq(W)
  /\ raw \in [Runs -> Seq(W)]
  /\ batch \in [Runs -> Seq(W)]

Validated ==
  \A q \in Requests : resp[q] \in {"push", "200", "500", "reset"} => ~BindingFails(q)

RefuseInv == TypeOK /\ Validated /\ Within(Welcome)

-----------------------------------------------------------------------------
\* The events of a request that passes belong to no request that fails.
LEMMA ValidRequestIsWelcome ==
  ASSUME NEW q \in Requests, ~BindingFails(q), NEW i \in 1 .. Len(q)
  PROVE  q[i] \in Welcome
  <1>1. q[i] \in Entries
    BY EntryTypes
  <1>2. ASSUME NEW p \in Requests, BindingFails(p), q[i] \in ToSet(p)
        PROVE  FALSE
    <2>1. PICK j \in DOMAIN p : p[j] = q[i]
      BY <1>2, RequestsAssumption DEF ToSet
    <2>2. i \in DOMAIN q
      BY RequestsAssumption
    <2>3. p = q
      BY <2>1, <2>2, RequestsAssumption, Zenon
    <2>. QED BY <1>2, <2>3
  <1>. QED BY <1>1, <1>2 DEF Welcome

LEMMA ForeignIsWelcome == Undecodable \subseteq Welcome
  <1>. SUFFICES ASSUME NEW x \in Undecodable, NEW q \in Requests, x \in ToSet(q)
                PROVE  FALSE
    BY DEF Welcome, Entries
  <1>1. x \in Events
    BY DEF Events
  <1>. QED BY <1>1, EntriesAssumption

LEMMA RefuseInvSuffices == RefuseInv => RefusedWhole
  <1>. SUFFICES ASSUME RefuseInv, NEW q \in Requests,
                       Len(q) > MaxEvents \/ ToSet(q) \cap InvalidEvents # {},
                       NEW e \in ToSet(q)
                PROVE  e \notin Accounted /\ e \notin Acked
    BY DEF RefusedWhole
  <1>1. BindingFails(q)
    <2>1. CASE Len(q) > MaxEvents
      BY <2>1, RequestsAssumption, ConfigAssumption DEF BindingFails
    <2>2. CASE ToSet(q) \cap InvalidEvents # {}
      BY <2>2 DEF BindingFails, ToSet
    <2>. QED BY <2>1, <2>2
  <1>2. e \notin Welcome
    BY <1>1 DEF Welcome
  <1>3. \A s \in Seq(Welcome) : e \notin ToSet(s)
    BY <1>2 DEF ToSet
  <1>4. e \notin Accounted
    <2>1. e \notin ToSet(queue) \cup ToSet(rows) \cup ToSet(dead)
      BY <1>3 DEF RefuseInv, Within
    <2>2. \A r \in Runs : e \notin ToSet(raw[r]) \cup ToSet(batch[r])
      BY <1>3 DEF RefuseInv, Within
    <2>. QED BY <2>1, <2>2, WhereAccounted
  <1>5. e \notin Acked
    <2>1. SUFFICES ASSUME NEW p \in Requests, resp[p] = "200", e \in ToSet(p)
                   PROVE  FALSE
      BY DEF Acked
    <2>2. ~BindingFails(p)
      BY <2>1 DEF RefuseInv, Validated
    <2>3. PICK i \in 1 .. Len(p) : e = p[i]
      BY <2>1, RequestsAssumption DEF ToSet
    <2>. QED BY <1>2, <2>2, <2>3, ValidRequestIsWelcome
  <1>. QED BY <1>4, <1>5

LEMMA InitRefuseInv == Init => RefuseInv
  <1>. SUFFICES ASSUME Init PROVE RefuseInv
    OBVIOUS
  <1>1. <<>> \in Seq(Welcome)
    OBVIOUS
  <1>. QED BY <1>1, InitTypeOK DEF Init, RefuseInv, Validated, Within

-----------------------------------------------------------------------------
LEMMA FinishKeepsWithin ==
  ASSUME NEW W, TypeOK, Within(W), NEW r \in Runs, Drop(r)
  PROVE  raw' \in [Runs -> Seq(W)] /\ batch' \in [Runs -> Seq(W)]
  <1>1. <<>> \in Seq(W)
    OBVIOUS
  <1>. QED BY <1>1 DEF Within, Drop

LEMMA PopIsWithin ==
  ASSUME NEW W, Within(W)
  PROVE  PopHead \in Seq(W) /\ PopRest \in Seq(W)
  BY LRangeType, ConfigAssumption DEF Within, PopHead, PopRest, LTrim

LEMMA RunStepKeepsWithin ==
  ASSUME NEW W, TypeOK, Within(W), NEW r \in Runs, RunStep(r)
  PROVE  Within(W)'
  <1>. USE DEF Within, redisVars, runVars
  <1>1. CASE QueueSize(r)
    BY <1>1, FinishKeepsWithin DEF QueueSize, Finish
  <1>2. CASE LoopExpired(r)
    BY <1>2, FinishKeepsWithin DEF LoopExpired, Finish
  <1>3. CASE ExecLRange(r)
    BY <1>3, PopIsWithin DEF ExecLRange
  <1>4. CASE ExecLTrim(r)
    BY <1>4, PopIsWithin DEF ExecLTrim
  <1>5. CASE PopReply(r)
    BY <1>5 DEF PopReply
  <1>6. CASE PopError(r)
    BY <1>6, FinishKeepsWithin DEF PopError, Finish
  <1>7. CASE DecodeEntry(r)
    <2>1. Head(raw[r]) \in W /\ Tail(raw[r]) \in Seq(W)
      BY <1>7 DEF DecodeEntry
    <2>. QED BY <1>7, <2>1 DEF DecodeEntry
  <1>8. CASE DecodeDone(r)
    BY <1>8, FinishKeepsWithin DEF DecodeDone, Finish
  <1>9. CASE InsertOk(r)
    BY <1>9 DEF InsertOk, Stored
  <1>10. CASE InsertFail(r)
    BY <1>10 DEF InsertFail, RolledBack, NextAttempt
  <1>11. CASE InsertLost(r)
    BY <1>11 DEF InsertLost, Stored, NextAttempt
  <1>12. CASE GiveUp(r)
    <2>1. batch' = batch \/ batch' = [batch EXCEPT ![r] = <<>>]
      BY <1>12 DEF GiveUp
    <2>2. batch' \in [Runs -> Seq(W)]
      <3>1. <<>> \in Seq(W)
        OBVIOUS
      <3>2. CASE batch' = batch
        BY <3>2
      <3>3. CASE batch' = [batch EXCEPT ![r] = <<>>]
        BY <3>1, <3>3
      <3>. QED BY <2>1, <3>2, <3>3
    <2>. QED BY <1>12, <2>2 DEF GiveUp
  <1>13. CASE Bury(r)
    <2>1. batch[r] \in Seq(W) /\ batch[r] # <<>>
      BY <1>13 DEF TypeOK, Bury
    <2>2. Head(batch[r]) \in W /\ Tail(batch[r]) \in Seq(W)
      BY <2>1
    <2>3. batch' \in [Runs -> Seq(W)]
      BY <1>13, <2>2 DEF Bury
    <2>4. dead' = dead \/ \E t \in Seq(W) : dead' = Append(dead, Head(batch[r])) \o t
      BY <1>13, <2>2, BuryAppends
    <2>5. dead' \in Seq(W)
      <3>1. \A e \in W, t \in Seq(W) : Append(dead, e) \o t \in Seq(W)
        OBVIOUS
      <3>2. dead \in Seq(W)
        OBVIOUS
      <3>. HIDE DEF Within
      <3>. QED BY <2>2, <2>4, <3>1, <3>2, Zenon
    <2>. QED BY <1>13, <2>3, <2>5 DEF Bury
  <1>14. CASE PopAgain(r)
    <2>1. raw' = [raw EXCEPT ![r] = <<>>] /\ <<>> \in Seq(W)
      BY <1>14 DEF PopAgain
    <2>. QED BY <1>14, <2>1 DEF PopAgain
  <1>. QED
    BY <1>1, <1>2, <1>3, <1>4, <1>5, <1>6, <1>7, <1>8, <1>9, <1>10, <1>11,
       <1>12, <1>13, <1>14 DEF RunStep

LEMMA EnvironmentKeepsWithin ==
  ASSUME NEW W, TypeOK, Within(W), NEW r \in Runs, Tick(r) \/ Timeout(r) \/ Kill(r)
  PROVE  Within(W)'
  <1>1. CASE UNCHANGED <<queue, dead, rows, raw, batch>>
    BY <1>1 DEF Within
  <1>2. CASE Kill(r)
    BY <1>2, FinishKeepsWithin DEF Kill, Within
  <1>. QED BY <1>1, <1>2 DEF Tick, Timeout, redisVars

\* Nothing but a push brings anything in.
LEMMA StepKeepsWithin ==
  ASSUME NEW W, TypeOK, Within(W), [Next]_vars,
         \A q \in Requests : PushCommand(q) => q[sent[q] + 1] \in W,
         \A x \in Undecodable : ForeignPush(x) => x \in W
  PROVE  Within(W)'
  <1>. USE DEF redisVars, httpVars, runVars
  <1>1. CASE UNCHANGED <<queue, dead, rows, raw, batch>>
    BY <1>1 DEF Within
  <1>2. ASSUME NEW x \in W, queue' = Append(queue, x), UNCHANGED <<dead, rows, raw, batch>>
        PROVE  Within(W)'
    BY <1>2 DEF Within
  <1>3. ASSUME NEW q \in Requests, Handler(q)
        PROVE  Within(W)'
    <2>1. PushCommand(q) => Within(W)'
      BY <1>2 DEF PushCommand, Pushed
    <2>. QED
      BY <1>1, <1>3, <2>1 DEF Handler, Bind, PushReply, PushError, PushAgain, KillHandler
  <1>4. ASSUME NEW x \in Undecodable, ForeignPush(x)
        PROVE  Within(W)'
    BY <1>2, <1>4 DEF ForeignPush
  <1>. QED
    BY <1>1, <1>3, <1>4, RunStepKeepsWithin, EnvironmentKeepsWithin
       DEF Next, vars, LockExpire

LEMMA StepKeepsValidated ==
  ASSUME TypeOK, Validated, [Next]_vars
  PROVE  Validated'
  <1>. USE DEF Validated, redisVars, httpVars, runVars
  <1>1. CASE resp' = resp
    BY <1>1
  <1>2. ASSUME NEW q \in Requests, Handler(q)
        PROVE  Validated'
    BY <1>1, <1>2 DEF Handler, Bind, PushCommand, PushReply, PushError, PushAgain,
                      KillHandler, TypeOK
  <1>3. ASSUME NEW r \in Runs, RunStep(r)
        PROVE  resp' = resp
    BY <1>3 DEF RunStep, QueueSize, LoopExpired, ExecLRange, ExecLTrim, PopReply,
                PopError, PopAgain, DecodeEntry, DecodeDone, InsertOk, InsertFail,
                InsertLost, GiveUp, Bury
  <1>. QED
    BY <1>1, <1>2, <1>3 DEF Next, vars, ForeignPush, Tick, Timeout, Kill, LockExpire

\* No event of a request that is too long or has an invalid event ever is in a
\* list, in the hands of a run or in the table, nor is one acknowledged, whatever
\* fails and however the steps interleave (tracking_event_handler.go:57-62).
THEOREM RefusalIsWhole == Spec => []RefusedWhole
  <1>1. RefuseInv /\ TypeOK' /\ [Next]_vars => RefuseInv'
    <2>. SUFFICES ASSUME RefuseInv, [Next]_vars
                  PROVE  Validated' /\ Within(Welcome)'
      BY DEF RefuseInv
    <2>1. ASSUME NEW q \in Requests, PushCommand(q)
          PROVE  q[sent[q] + 1] \in Welcome
      <3>1. sent[q] + 1 \in 1 .. Len(q) /\ ~BindingFails(q)
        BY <2>1, RequestsAssumption DEF PushCommand, RefuseInv, TypeOK, Validated
      <3>. QED BY <3>1, ValidRequestIsWelcome
    <2>. QED
      BY <2>1, ForeignIsWelcome, StepKeepsWithin, StepKeepsValidated DEF RefuseInv
  <1>. QED
    BY <1>1, InitRefuseInv, RefuseInvSuffices, TypeCorrect, PTL DEF Spec

-----------------------------------------------------------------------------
(* How much one step can lose.                                              *)

Unread(r)  == Len(raw[r])
Decoded(r) == Len(batch[r])

\* A run never has more in hand than one pop returned.
Handful ==
  \A r \in Runs : /\ Unread(r) + Decoded(r) <= BatchSize
                  /\ batch[r] # <<>> => pc[r] \in {"decode", "insert", "bury"}

\* What one step loses is in one sequence that is no longer than a batch.
Bounded(lost) == \E s \in Seq(Entries) : Len(s) <= BatchSize /\ lost \subseteq ToSet(s)

-----------------------------------------------------------------------------
(* Sequences and their elements.                                            *)

LEMMA SequenceIsSmall ==
  ASSUME NEW S, NEW s \in Seq(S)
  PROVE  IsFiniteSet(ToSet(s)) /\ Cardinality(ToSet(s)) <= Len(s)
  <1>1. Len(s) \in Nat /\ DOMAIN s = 1 .. Len(s)
    OBVIOUS
  <1>2. IsFiniteSet(1 .. Len(s)) /\ Cardinality(1 .. Len(s)) = Len(s)
    BY <1>1, FS_Interval
  <1>3. s \in Surjection(1 .. Len(s), ToSet(s))
    BY <1>1 DEF Surjection, ToSet
  <1>. QED BY <1>2, <1>3, FS_Surjection

LEMMA BoundedIsSmall ==
  ASSUME BatchSize > 0, NEW lost, Bounded(lost)
  PROVE  Cardinality(lost) <= BatchSize
  <1>1. PICK s \in Seq(Entries) : Len(s) <= BatchSize /\ lost \subseteq ToSet(s)
    BY DEF Bounded
  <1>2. IsFiniteSet(ToSet(s)) /\ Cardinality(ToSet(s)) <= Len(s)
    BY SequenceIsSmall
  <1>3. IsFiniteSet(lost) /\ Cardinality(lost) <= Cardinality(ToSet(s))
    BY <1>1, <1>2, FS_Subset
  <1>4. Cardinality(lost) \in Nat /\ Cardinality(ToSet(s)) \in Nat
    BY <1>2, <1>3, FS_CardinalityType
  <1>5. Len(s) \in Nat
    OBVIOUS
  <1>. QED BY <1>1, <1>2, <1>3, <1>4, <1>5, ConfigAssumption

LEMMA NothingIsBounded ==
  ASSUME BatchSize > 0
  PROVE  Bounded({})
  <1>1. <<>> \in Seq(Entries) /\ Len(<<>>) <= BatchSize
    BY ConfigAssumption
  <1>. QED BY <1>1 DEF Bounded

LEMMA SubsetIsBounded ==
  ASSUME NEW big, Bounded(big), NEW small, small \subseteq big
  PROVE  Bounded(small)
  BY DEF Bounded

\* LRANGE 0 BatchSize-1 returns at most a batch.
LEMMA PopIsBatch ==
  ASSUME BatchSize > 0, TypeOK
  PROVE  PopHead \in Seq(Entries) /\ Len(PopHead) <= BatchSize
  <1>1. PopHead \in Seq(Entries)
    BY PopTypeOK
  <1>2. queue \in Seq(Entries) /\ Len(queue) \in Nat /\ BatchSize \in Int
    BY ConfigAssumption DEF TypeOK
  <1>3. PICK m \in Int : PopHead = <<>> \/ (m < BatchSize /\ PopHead = SubSeq(queue, 1, m + 1)
                                           /\ 0 <= m /\ m < Len(queue))
    <2>. DEFINE m == IF BatchSize - 1 < Len(queue) THEN BatchSize - 1 ELSE Len(queue) - 1
    <2>1. PopHead = IF 0 > m THEN <<>> ELSE SubSeq(queue, 0 + 1, m + 1)
      BY <1>2 DEF PopHead, LRange, FromLeft
    <2>2. m \in Int /\ m < BatchSize /\ m < Len(queue)
      BY <1>2
    <2>. HIDE DEF m
    <2>. QED BY <2>1, <2>2
  <1>4. CASE PopHead = <<>>
    BY <1>1, <1>2, <1>4
  <1>5. CASE PopHead # <<>>
    <2>1. \A i \in 1 .. m + 1 : queue[i] \in Entries
      BY <1>2, <1>3, <1>5
    <2>2. Len(SubSeq(queue, 1, m + 1)) = IF 1 <= m + 1 THEN m + 1 - 1 + 1 ELSE 0
      BY <2>1, SubSeqProperties
    <2>. QED BY <1>1, <1>2, <1>3, <1>5, <2>2
  <1>. QED BY <1>4, <1>5

LEMMA HandsAreBounded ==
  ASSUME TypeOK, Handful, NEW r \in Runs
  PROVE  Bounded(ToSet(raw[r]) \cup ToSet(batch[r]))
  <1>1. raw[r] \in Seq(Entries) /\ batch[r] \in Seq(Entries)
    <2>1. batch[r] \in Seq(Events)
      BY DEF TypeOK
    <2>2. Events \subseteq Entries
      BY DEF Entries
    <2>. QED BY <2>1, <2>2 DEF TypeOK
  <1>2. /\ raw[r] \o batch[r] \in Seq(Entries)
        /\ Len(raw[r] \o batch[r]) = Unread(r) + Decoded(r)
    BY <1>1 DEF Unread, Decoded
  <1>3. ToSet(raw[r] \o batch[r]) = ToSet(raw[r]) \cup ToSet(batch[r])
    BY <1>1, ToSetConcat
  <1>. QED BY <1>2, <1>3 DEF Bounded, Handful

-----------------------------------------------------------------------------
(* Handful is inductive.                                                    *)

LEMMA LengthTypes ==
  ASSUME TypeOK, NEW r \in Runs
  PROVE  Unread(r) \in Nat /\ Decoded(r) \in Nat
  BY DEF TypeOK, Unread, Decoded

\* Hands that hold no more than before still hold no more than a batch.
LEMMA OneHandKeepsHandful ==
  ASSUME TypeOK, Handful, NEW r \in Runs,
         \A s \in Runs \ {r} : raw'[s] = raw[s] /\ batch'[s] = batch[s] /\ pc'[s] = pc[s],
         Unread(r)' + Decoded(r)' <= BatchSize,
         batch'[r] # <<>> => pc'[r] \in {"decode", "insert", "bury"}
  PROVE  Handful'
  <1>1. \A s \in Runs \ {r} : Unread(s)' = Unread(s) /\ Decoded(s)' = Decoded(s)
    BY DEF Unread, Decoded
  <1>. QED BY <1>1 DEF Handful

LEMMA StillFits ==
  ASSUME BatchSize > 0, TypeOK, Handful, NEW r \in Runs,
         NEW c \in Int, NEW d \in Int,
         \/ c <= Unread(r) /\ d <= Decoded(r)
         \/ c = Unread(r) - 1 /\ d <= Decoded(r) + 1
  PROVE  c + d <= BatchSize
  BY LengthTypes, ConfigAssumption DEF Handful

LEMMA DropKeepsHandful ==
  ASSUME BatchSize > 0, TypeOK, Handful, NEW r \in Runs, Drop(r)
  PROVE  Handful'
  <1>1. raw'[r] = <<>> /\ batch'[r] = <<>>
    BY DEF Drop, TypeOK
  <1>2. Unread(r)' = 0 /\ Decoded(r)' = 0
    BY <1>1 DEF Unread, Decoded
  <1>3. Unread(r)' + Decoded(r)' <= BatchSize
    BY <1>2, ConfigAssumption
  <1>4. \A s \in Runs \ {r} : raw'[s] = raw[s] /\ batch'[s] = batch[s] /\ pc'[s] = pc[s]
    BY DEF Drop, TypeOK
  <1>. QED BY <1>1, <1>3, <1>4, OneHandKeepsHandful

LEMMA PopStepsKeepHandful ==
  ASSUME BatchSize > 0, TypeOK, Handful, NEW r \in Runs,
         ExecLRange(r) \/ ExecLTrim(r) \/ PopReply(r) \/ PopAgain(r)
  PROVE  Handful'
  <1>1. CASE ExecLRange(r)
    <2>1. batch[r] = <<>> /\ raw'[r] = PopHead /\ batch' = batch
      BY <1>1 DEF ExecLRange, Handful, TypeOK
    <2>2. Unread(r)' = Len(PopHead) /\ Decoded(r)' = 0 /\ Len(PopHead) \in Nat
      BY <2>1, PopIsBatch DEF Unread, Decoded
    <2>3. Unread(r)' + Decoded(r)' <= BatchSize
      BY <2>2, PopIsBatch, ConfigAssumption
    <2>4. \A s \in Runs \ {r} : raw'[s] = raw[s] /\ batch'[s] = batch[s] /\ pc'[s] = pc[s]
      BY <1>1 DEF ExecLRange, TypeOK
    <2>. QED BY <2>1, <2>3, <2>4, OneHandKeepsHandful
  <1>2. CASE ExecLTrim(r)
    BY <1>2 DEF ExecLTrim, Handful, Unread, Decoded
  <1>3. CASE PopReply(r)
    <2>1. raw' = raw /\ batch' = batch
      BY <1>3 DEF PopReply
    <2>2. \A s \in Runs : batch[s] # <<>> => pc'[s] \in {"decode", "insert", "bury"}
      BY <1>3 DEF PopReply, Handful, TypeOK
    <2>. QED BY <2>1, <2>2 DEF Handful, Unread, Decoded
  <1>4. CASE PopAgain(r)
    <2>1. raw'[r] = <<>> /\ batch' = batch /\ batch[r] = <<>>
      BY <1>4 DEF PopAgain, Handful, TypeOK
    <2>2. Unread(r)' = 0 /\ Decoded(r)' = 0
      BY <2>1 DEF Unread, Decoded
    <2>3. Unread(r)' + Decoded(r)' <= BatchSize
      BY <2>2, ConfigAssumption
    <2>4. \A s \in Runs \ {r} : raw'[s] = raw[s] /\ batch'[s] = batch[s] /\ pc'[s] = pc[s]
      BY <1>4 DEF PopAgain, TypeOK
    <2>. QED BY <2>1, <2>3, <2>4, OneHandKeepsHandful
  <1>. QED BY <1>1, <1>2, <1>3, <1>4

LEMMA DecodeEntryKeepsHandful ==
  ASSUME BatchSize > 0, TypeOK, Handful, NEW r \in Runs, DecodeEntry(r)
  PROVE  Handful'
  <1>1. /\ raw[r] # <<>> /\ raw'[r] = Tail(raw[r]) /\ pc' = pc /\ pc[r] = "decode"
        /\ \A s \in Runs \ {r} : raw'[s] = raw[s] /\ batch'[s] = batch[s]
        /\ raw[r] \in Seq(Entries) /\ batch[r] \in Seq(Events)
    BY DEF DecodeEntry, TypeOK
  <1>2. Unread(r)' = Unread(r) - 1 /\ Unread(r)' \in Int
    BY <1>1 DEF Unread
  <1>3. Decoded(r)' \in Int /\ Decoded(r)' <= Decoded(r) + 1
    <2>1. CASE Head(raw[r]) \in Undecodable
      BY <1>1, <2>1 DEF DecodeEntry, Decoded
    <2>2. CASE Head(raw[r]) \notin Undecodable
      <3>1. Head(raw[r]) \in Events
        BY <1>1, <2>2, EntryTypes
      <3>2. batch'[r] = Append(batch[r], Head(raw[r]))
        BY <2>2 DEF DecodeEntry, TypeOK
      <3>3. Len(Append(batch[r], Head(raw[r]))) = Len(batch[r]) + 1 /\ Len(batch[r]) \in Nat
        BY <1>1, <3>1
      <3>. QED BY <3>2, <3>3 DEF Decoded
    <2>. QED BY <2>1, <2>2
  <1>4. Unread(r)' + Decoded(r)' <= BatchSize
    BY <1>2, <1>3, StillFits
  <1>. QED BY <1>1, <1>4, OneHandKeepsHandful

LEMMA BatchStepsKeepHandful ==
  ASSUME BatchSize > 0, TypeOK, Handful, NEW r \in Runs,
         InsertOk(r) \/ GiveUp(r) \/ Bury(r)
  PROVE  Handful'
  <1>1. raw' = raw /\ \A s \in Runs \ {r} : batch'[s] = batch[s] /\ pc'[s] = pc[s]
    BY DEF InsertOk, GiveUp, Bury, TypeOK
  <1>2. /\ batch'[r] = <<>> \/ batch'[r] = batch[r] \/ batch'[r] = Tail(batch[r])
        /\ batch'[r] # <<>> => pc'[r] = "bury"
        /\ batch[r] # <<>> /\ batch[r] \in Seq(Events)
    BY DEF InsertOk, GiveUp, Bury, MayInsert, TypeOK
  <1>3. Decoded(r)' \in Int /\ Decoded(r)' <= Decoded(r)
    <2>1. /\ Len(batch[r]) \in Nat /\ Len(Tail(batch[r])) = Len(batch[r]) - 1
          /\ Len(<<>>) = 0
      BY <1>2
    <2>2. Decoded(r)' \in {0, Decoded(r), Decoded(r) - 1}
      BY <1>2, <2>1 DEF Decoded
    <2>. QED BY <2>2, LengthTypes
  <1>4. Unread(r)' = Unread(r) /\ Unread(r)' \in Int
    BY <1>1, LengthTypes DEF Unread
  <1>5. Unread(r)' + Decoded(r)' <= BatchSize
    BY <1>3, <1>4, StillFits
  <1>. QED BY <1>1, <1>2, <1>5, OneHandKeepsHandful

LEMMA RunStepKeepsHandful ==
  ASSUME BatchSize > 0, TypeOK, Handful, NEW r \in Runs, RunStep(r)
  PROVE  Handful'
  <1>1. CASE Drop(r)
    BY <1>1, DropKeepsHandful
  <1>2. CASE ~Drop(r) /\ (QueueSize(r) \/ DecodeDone(r) \/ InsertFail(r) \/ InsertLost(r))
    <2>1. raw' = raw /\ batch' = batch
      BY <1>2 DEF QueueSize, DecodeDone, InsertFail, InsertLost, Finish
    <2>2. \A s \in Runs : batch[s] # <<>> => pc'[s] \in {"decode", "insert", "bury"}
      BY <1>2 DEF QueueSize, DecodeDone, InsertFail, InsertLost, Finish, Handful, TypeOK
    <2>. QED BY <2>1, <2>2 DEF Handful, Unread, Decoded
  <1>3. LoopExpired(r) \/ PopError(r) => Drop(r)
    BY DEF LoopExpired, PopError, Finish
  <1>. QED
    BY <1>1, <1>2, <1>3, PopStepsKeepHandful, DecodeEntryKeepsHandful,
       BatchStepsKeepHandful DEF RunStep

LEMMA StepKeepsHandful ==
  ASSUME BatchSize > 0, TypeOK, Handful, [Next]_vars
  PROVE  Handful'
  <1>. USE DEF redisVars, httpVars, runVars
  <1>1. CASE UNCHANGED <<raw, batch, pc>>
    BY <1>1 DEF Handful, Unread, Decoded
  <1>2. ASSUME NEW r \in Runs, Tick(r)
        PROVE  Handful'
    <2>1. UNCHANGED <<raw, batch>> /\ \A s \in Runs : pc'[s] = pc[s] \/ pc[s] = "idle"
      BY <1>2 DEF Tick, TypeOK
    <2>. QED BY <2>1 DEF Handful, Unread, Decoded
  <1>3. ASSUME NEW r \in Runs, Kill(r)
        PROVE  Handful'
    BY <1>3, DropKeepsHandful DEF Kill
  <1>. QED
    BY <1>1, <1>2, <1>3, RunStepKeepsHandful
       DEF Next, vars, Handler, Bind, PushCommand, PushReply, PushError, PushAgain,
           KillHandler, ForeignPush, Timeout, LockExpire

-----------------------------------------------------------------------------
(* What a step loses.                                                       *)

\* A step that only adds to the lists and the table, and leaves the other runs
\* alone, can lose what run r has in hand and no more.
LEMMA LosesAHandful ==
  ASSUME TypeOK, Handful, NEW r \in Runs,
         ToSet(queue) \subseteq ToSet(queue') \cup ToSet(raw'[r]),
         ToSet(rows) \subseteq ToSet(rows'), ToSet(dead) \subseteq ToSet(dead'),
         \A s \in Runs \ {r} : raw'[s] = raw[s] /\ batch'[s] = batch[s]
  PROVE  Bounded(Accounted \ Accounted')
  <1>1. ASSUME NEW e \in Accounted, e \notin Accounted'
        PROVE  e \in ToSet(raw[r]) \cup ToSet(batch[r])
    <2>1. /\ e \notin ToSet(queue') \cup ToSet(rows') \cup ToSet(dead')
          /\ \A s \in Runs : e \notin ToSet(raw'[s]) \cup ToSet(batch'[s])
      BY <1>1, WhereAccountedNext
    <2>2. e \notin ToSet(queue) \cup ToSet(rows) \cup ToSet(dead)
      BY <2>1
    <2>3. PICK s \in Runs : e \in ToSet(raw[s]) \cup ToSet(batch[s])
      BY <1>1, <2>2, WhereAccounted
    <2>. QED BY <2>1, <2>3
  <1>. QED BY <1>1, HandsAreBounded, SubsetIsBounded

\* So does a step that touches no run's hands and only adds to the lists.
LEMMA LosesNothing ==
  ASSUME BatchSize > 0,
         ToSet(queue) \subseteq ToSet(queue'), UNCHANGED <<rows, dead, raw, batch>>
  PROVE  Bounded(Accounted \ Accounted')
  <1>1. ASSUME NEW e \in Accounted
        PROVE  e \in Accounted'
    BY WhereAccounted, WhereAccountedNext, Zenon
  <1>2. Accounted \ Accounted' = {}
    BY <1>1
  <1>. QED BY <1>2, NothingIsBounded

LEMMA AppendAdds ==
  ASSUME NEW S, NEW s \in Seq(S), NEW e \in S
  PROVE  ToSet(s) \subseteq ToSet(Append(s, e))
  BY ToSetAppend

LEMMA PopLoss ==
  ASSUME BatchSize > 0, TypeOK, Handful, NEW r \in Runs, ExecLRange(r) \/ ExecLTrim(r)
  PROVE  Bounded(Accounted \ Accounted')
  <1>1. ToSet(queue) \subseteq ToSet(PopHead) \cup ToSet(PopRest)
    BY PopKeepsElements
  <1>2. CASE ExecLRange(r)
    <2>1. raw'[r] = PopHead /\ (queue' = queue \/ queue' = PopRest)
      BY <1>2 DEF ExecLRange, TypeOK
    <2>2. UNCHANGED <<rows, dead, batch>> /\ \A s \in Runs \ {r} : raw'[s] = raw[s]
      BY <1>2 DEF ExecLRange, TypeOK
    <2>3. ToSet(queue) \subseteq ToSet(queue') \cup ToSet(raw'[r])
      BY <1>1, <2>1
    <2>. QED BY <2>2, <2>3, LosesAHandful
  <1>3. CASE ExecLTrim(r)
    <2>1. queue' = PopRest /\ UNCHANGED <<rows, dead, raw, batch>>
      BY <1>3 DEF ExecLTrim
    <2>2. ASSUME NEW e \in Accounted, e \notin Accounted'
          PROVE  e \in ToSet(PopHead)
      BY <1>1, <2>1, <2>2, WhereAccounted, WhereAccountedNext, Zenon
    <2>3. Bounded(ToSet(PopHead))
      BY PopIsBatch DEF Bounded
    <2>. QED BY <2>2, <2>3, SubsetIsBounded
  <1>. QED BY <1>2, <1>3

LEMMA RunStepLoss ==
  ASSUME BatchSize > 0, TypeOK, Handful, NEW r \in Runs, RunStep(r)
  PROVE  Bounded(Accounted \ Accounted')
  <1>1. CASE ExecLRange(r) \/ ExecLTrim(r)
    BY <1>1, PopLoss
  <1>2. CASE ~ExecLRange(r) /\ ~ExecLTrim(r)
    <2>1. queue' = queue
      BY <1>2 DEF RunStep, QueueSize, LoopExpired, PopReply, PopError, PopAgain,
           DecodeEntry, DecodeDone, InsertOk, InsertFail, InsertLost, GiveUp, Bury,
           redisVars
    <2>2. \A s \in Runs \ {r} : raw'[s] = raw[s] /\ batch'[s] = batch[s]
      BY <1>2 DEF RunStep, QueueSize, LoopExpired, PopReply, PopError, PopAgain,
           DecodeEntry, DecodeDone, InsertOk, InsertFail, InsertLost, GiveUp, Bury,
           Finish, Drop, TypeOK
    <2>3. ToSet(rows) \subseteq ToSet(rows')
      <3>1. rows \in Seq(Events) /\ batch[r] \in Seq(Events)
        BY DEF TypeOK
      <3>2. rows' = rows \/ rows' = rows \o batch[r]
        BY <1>2 DEF RunStep, QueueSize, LoopExpired, PopReply, PopError, PopAgain,
             DecodeEntry, DecodeDone, InsertOk, InsertFail, InsertLost, GiveUp, Bury,
             RolledBack, Stored
      <3>3. ToSet(rows \o batch[r]) = ToSet(rows) \cup ToSet(batch[r])
        BY <3>1, ToSetConcat
      <3>. QED BY <3>2, <3>3, Zenon
    <2>4. ToSet(dead) \subseteq ToSet(dead')
      <3>1. CASE Bury(r)
        <4>1. dead \in Seq(Events) /\ batch[r] \in Seq(Events) /\ batch[r] # <<>>
          BY <3>1 DEF Bury, TypeOK
        <4>2. Head(batch[r]) \in Events
          BY <4>1
        <4>. QED BY <3>1, <4>1, <4>2, BuryAdds
      <3>2. CASE ~Bury(r)
        BY <1>2, <3>2 DEF RunStep, QueueSize, LoopExpired, PopReply, PopError, PopAgain,
             DecodeEntry, DecodeDone, InsertOk, InsertFail, InsertLost, GiveUp, redisVars
      <3>. QED BY <3>1, <3>2
    <2>. QED BY <2>1, <2>2, <2>3, <2>4, LosesAHandful
  <1>. QED BY <1>1, <1>2

LEMMA PushLoss ==
  ASSUME BatchSize > 0, TypeOK,
         (\E q \in Requests : Handler(q)) \/ (\E x \in Undecodable : ForeignPush(x))
  PROVE  Bounded(Accounted \ Accounted')
  <1>1. UNCHANGED <<rows, dead, raw, batch>>
    BY DEF Handler, Bind, PushCommand, PushReply, PushError, PushAgain, KillHandler,
           ForeignPush, redisVars, runVars
  <1>2. queue' = queue \/ \E x \in Entries : queue' = Append(queue, x)
    <2>1. ASSUME NEW q \in Requests, PushCommand(q)
          PROVE  \E x \in Entries : queue' = Append(queue, x)
      <3>1. sent[q] + 1 \in 1 .. Len(q)
        BY <2>1, RequestsAssumption DEF PushCommand, TypeOK
      <3>2. q[sent[q] + 1] \in Entries
        BY <3>1, EntryTypes
      <3>. QED BY <2>1, <3>2 DEF PushCommand, Pushed
    <2>2. ASSUME NEW x \in Undecodable, ForeignPush(x)
          PROVE  \E y \in Entries : queue' = Append(queue, y)
      BY <2>2 DEF ForeignPush, Entries
    <2>. QED
      BY <2>1, <2>2 DEF Handler, Bind, PushReply, PushError, PushAgain, KillHandler,
                        redisVars
  <1>3. \A x \in Entries : ToSet(queue) \subseteq ToSet(Append(queue, x))
    BY AppendAdds DEF TypeOK
  <1>4. ToSet(queue) \subseteq ToSet(queue')
    BY <1>2, <1>3
  <1>. QED BY <1>1, <1>4, LosesNothing

LEMMA StepLoss ==
  ASSUME BatchSize > 0, TypeOK, Handful, [Next]_vars
  PROVE  Bounded(Accounted \ Accounted')
  <1>. USE DEF redisVars, httpVars, runVars
  <1>1. CASE UNCHANGED <<queue, rows, dead, raw, batch>>
    BY <1>1, LosesNothing
  <1>2. ASSUME NEW r \in Runs, Kill(r)
        PROVE  Bounded(Accounted \ Accounted')
    <2>1. \A s \in Runs \ {r} : raw'[s] = raw[s] /\ batch'[s] = batch[s]
      BY <1>2 DEF Kill, Drop, TypeOK
    <2>2. UNCHANGED <<queue, rows, dead>>
      BY <1>2 DEF Kill
    <2>. QED BY <2>1, <2>2, LosesAHandful
  <1>. QED
    BY <1>1, <1>2, RunStepLoss, PushLoss
       DEF Next, vars, Tick, Timeout, LockExpire

\* A run that goes on from "bury" with another batch has buried an event.
LEMMA BuryingIsBury ==
  ASSUME TypeOK, [Next]_vars, NEW r \in Runs,
         pc[r] = "bury", pc'[r] # "idle", batch'[r] # batch[r]
  PROVE  Bury(r)
  <1>. USE DEF redisVars, httpVars, runVars
  <1>1. ~UNCHANGED batch
    OBVIOUS
  <1>2. PICK s \in Runs : RunStep(s) \/ Kill(s)
    BY <1>1 DEF Next, vars, Handler, Bind, PushCommand, PushReply, PushError,
       PushAgain, KillHandler, ForeignPush, Tick, Timeout, LockExpire
  <1>3. CASE s # r
    <2>1. batch'[r] = batch[r]
      BY <1>2, <1>3 DEF RunStep, QueueSize, LoopExpired, ExecLRange, ExecLTrim,
         PopReply, PopError, PopAgain, DecodeEntry, DecodeDone, InsertOk, InsertFail,
         InsertLost, GiveUp, Bury, Finish, Drop, Kill, TypeOK
    <2>. QED BY <2>1
  <1>4. CASE s = r
    <2>1. ~Drop(r)
      BY DEF Drop, TypeOK
    <2>. QED
      BY <1>1, <1>2, <1>4, <2>1 DEF RunStep, QueueSize, LoopExpired, ExecLRange,
         ExecLTrim, PopReply, PopError, PopAgain, DecodeEntry, DecodeDone, InsertOk,
         InsertFail, InsertLost, MayInsert, GiveUp, Finish, Kill
  <1>. QED BY <1>3, <1>4

LEMMA BuryLoss ==
  ASSUME TypeOK, NEW r \in Runs, Bury(r)
  PROVE  Accounted \ Accounted' \subseteq {Head(batch[r])}
  <1>1. dead \in Seq(Events) /\ batch[r] \in Seq(Events) /\ batch[r] # <<>>
    BY DEF Bury, TypeOK
  <1>2. Head(batch[r]) \in Events
    BY <1>1
  <1>3. ToSet(dead) \subseteq ToSet(dead')
    BY <1>1, <1>2, BuryAdds
  <1>4. ToSet(batch[r]) = {Head(batch[r])} \cup ToSet(batch'[r])
    BY <1>1, ToSetHeadTail DEF Bury, TypeOK
  <1>5. /\ UNCHANGED <<queue, rows, raw>>
        /\ \A s \in Runs \ {r} : batch'[s] = batch[s]
    BY DEF Bury, TypeOK
  <1>6. ASSUME NEW e \in Accounted, e # Head(batch[r])
        PROVE  e \in Accounted'
    <2>1. CASE e \in ToSet(queue) \cup ToSet(rows) \cup ToSet(dead)
      BY <1>3, <1>5, <2>1, WhereAccountedNext
    <2>2. CASE \E s \in Runs : e \in ToSet(raw[s]) \cup ToSet(batch[s])
      <3>1. PICK s \in Runs : e \in ToSet(raw[s]) \cup ToSet(batch[s])
        BY <2>2
      <3>2. e \in ToSet(raw'[s]) \cup ToSet(batch'[s])
        BY <1>4, <1>5, <1>6, <3>1
      <3>. QED BY <3>2, WhereAccountedNext
    <2>. QED BY <2>1, <2>2, WhereAccounted, Zenon
  <1>. QED BY <1>6

\* Whatever goes wrong, one step of the pipeline loses no more than one batch: a
\* pop whose reply is lost, a pop cut in two, a run killed with its hands full,
\* overlapping runs and kills included; and a dead letter that cannot be pushed
\* loses that event only (event_buffer.go:63-89, event_processor.go:140-151).
THEOREM OneStepLosesOneBatch ==
  ASSUME BatchSize > 0
  PROVE  Spec => LossIsOneBatch
  <1>1. Init => Handful
    <2>1. ASSUME Init PROVE \A r \in Runs : Unread(r) = 0 /\ Decoded(r) = 0 /\ batch[r] = <<>>
      BY <2>1 DEF Init, Unread, Decoded
    <2>. QED BY <2>1, ConfigAssumption DEF Handful
  <1>2. TypeOK /\ Handful /\ [Next]_vars => Handful'
    BY StepKeepsHandful
  <1>3. TypeOK /\ Handful /\ [Next]_vars => Cardinality(Accounted \ Accounted') <= BatchSize
    BY StepLoss, BoundedIsSmall
  <1>4. TypeOK /\ [Next]_vars =>
          \A r \in Runs : pc[r] = "bury" /\ pc'[r] # "idle" /\ batch'[r] # batch[r]
            => Accounted \ Accounted' \subseteq {Head(batch[r])}
    BY BuryingIsBury, BuryLoss, Zenon
  <1>. QED BY <1>1, <1>2, <1>3, <1>4, TypeCorrect, PTL DEF Spec, LossIsOneBatch

-----------------------------------------------------------------------------
(* After a full batch LTRIM removes what LRANGE returned.                   *)

\* Redis answers and no process dies, so no LTRIM outlives its run; two runs may
\* overlap or a pop's two commands be split, but not both.
Orderly ==
  Faults \cap {"redis", "kill"} = {} /\ ~({"split", "ttl"} \subseteq Faults)

Excluded == "split" \in Faults => OneActiveRun

\* The run whose LTRIM is on its way waits for it, and a full batch it has read is
\* still what the queue begins with.
Waits  == \A r \in Runs : trim[r] => pc[r] = "reply"
Begins ==
  \A r \in Runs : trim[r] /\ Len(raw[r]) = BatchSize =>
    /\ BatchSize <= Len(queue)
    /\ \A i \in 1 .. BatchSize : queue[i] = raw[r][i]

FullInv == TypeOK /\ Located /\ Excluded /\ Waits /\ Begins

LEMMA FullPopIsPrefix ==
  ASSUME TypeOK, Len(PopHead) = BatchSize
  PROVE  /\ BatchSize <= Len(queue)
         /\ \A i \in 1 .. BatchSize : queue[i] = PopHead[i]
  <1>1. /\ queue \in Seq(Entries) /\ BatchSize \in Int
        /\ PopHead \in Seq(Entries) /\ PopRest \in Seq(Entries)
    BY PopTypeOK, ConfigAssumption DEF TypeOK
  <1>2. BatchSize \in Nat
    BY <1>1
  <1>3. CASE BatchSize = 0
    BY <1>1, <1>3
  <1>4. CASE BatchSize # 0
    <2>1. queue = PopHead \o PopRest
      BY <1>1, <1>4, PopSplitsList DEF PopHead, PopRest
    <2>2. /\ Len(PopHead \o PopRest) = Len(PopHead) + Len(PopRest)
          /\ \A i \in 1 .. Len(PopHead) : (PopHead \o PopRest)[i] = PopHead[i]
      BY <1>1
    <2>3. Len(PopRest) \in Nat
      BY <1>1
    <2>. QED BY <1>1, <2>1, <2>2, <2>3
  <1>. QED BY <1>3, <1>4

\* What LTRIM takes away stood among the first BatchSize entries.
LEMMA TrimmedWasFirst ==
  ASSUME TypeOK, BatchSize \in Nat, NEW e \in ToSet(queue), e \notin ToSet(PopRest)
  PROVE  \E i \in 1 .. BatchSize : i <= Len(queue) /\ e = queue[i]
  <1>1. queue \in Seq(Entries) /\ BatchSize \in Int
    BY ConfigAssumption DEF TypeOK
  <1>2. PICK i \in 1 .. Len(queue) : e = queue[i]
    BY <1>1 DEF ToSet
  <1>3. Cut(Len(queue), BatchSize) \in Nat /\ Cut(Len(queue), BatchSize) <= BatchSize
    BY <1>1 DEF Cut
  <1>4. i \notin Cut(Len(queue), BatchSize) + 1 .. Len(queue)
    BY <1>1, <1>2, LTrimElements DEF PopRest
  <1>. QED BY <1>1, <1>2, <1>3, <1>4

LEMMA FullBatchIsRead ==
  ASSUME FullInv, NEW r \in Runs, ExecLTrim(r), Len(raw[r]) = BatchSize
  PROVE  ToSet(queue) \ ToSet(queue') \subseteq ToSet(raw[r])
  <1>1. trim[r] /\ queue' = PopRest /\ raw[r] \in Seq(Entries) /\ Len(raw[r]) \in Nat
    BY DEF ExecLTrim, FullInv, TypeOK
  <1>2. ASSUME NEW e \in ToSet(queue), e \notin ToSet(queue')
        PROVE  e \in ToSet(raw[r])
    <2>1. PICK i \in 1 .. BatchSize : e = queue[i]
      BY <1>1, <1>2, TrimmedWasFirst DEF FullInv
    <2>2. e = raw[r][i]
      BY <1>1, <2>1 DEF FullInv, Begins
    <2>. QED BY <1>1, <2>2 DEF ToSet
  <1>. QED BY <1>2

\* A run that is not the one the LTRIM is waited for by does not move.
LEMMA OnlyTheWaitingMoves ==
  ASSUME FullInv, NEW r \in Runs, trim[r], NEW s \in Runs, pc[s] # "idle"
  PROVE  s = r
  BY DEF FullInv, Located, Excluded, Waits, OneActiveRun

\* A step leaves an LTRIM that stays on its way, and its run, as they were.
LEMMA WaitingIsKept ==
  ASSUME Orderly, FullInv, [Next]_vars, NEW r \in Runs, trim[r], trim'[r]
  PROVE  /\ pc'[r] = pc[r] /\ raw'[r] = raw[r]
         /\ queue' = queue \/ \E x \in Entries : queue' = Append(queue, x)
  <1>. USE DEF redisVars, httpVars, runVars
  <1>1. pc[r] = "reply" /\ TypeOK
    BY DEF FullInv, Waits
  <1>2. CASE UNCHANGED vars
    BY <1>2 DEF vars
  <1>3. ASSUME NEW s \in Runs, RunStep(s)
        PROVE  pc'[r] = pc[r] /\ raw'[r] = raw[r] /\ queue' = queue
    <2>1. pc[s] # "idle" \/ trim[s]
      BY <1>3 DEF RunStep, QueueSize, LoopExpired, ExecLRange, ExecLTrim, PopReply,
           PopError, PopAgain, DecodeEntry, DecodeDone, InsertOk, InsertFail,
           InsertLost, MayInsert, GiveUp, Bury
    <2>2. s = r
      BY <2>1, OnlyTheWaitingMoves DEF FullInv, Waits
    <2>3. ~ExecLTrim(r) /\ ~PopError(r) /\ ~PopAgain(r)
      BY <1>1 DEF ExecLTrim, PopError, PopAgain, Orderly, TypeOK
    <2>. QED
      BY <1>1, <1>3, <2>2, <2>3 DEF RunStep, QueueSize, LoopExpired, ExecLRange,
         PopReply, DecodeEntry, DecodeDone, InsertOk, InsertFail, InsertLost,
         MayInsert, GiveUp, Bury
  <1>4. ASSUME NEW q \in Requests, PushCommand(q)
        PROVE  /\ pc' = pc /\ raw' = raw
               /\ \E x \in Entries : queue' = Append(queue, x)
    <2>1. sent[q] + 1 \in 1 .. Len(q)
      BY <1>1, <1>4, RequestsAssumption DEF PushCommand, TypeOK
    <2>2. q[sent[q] + 1] \in Entries
      BY <2>1, EntryTypes
    <2>. QED BY <1>4, <2>2 DEF PushCommand, Pushed
  <1>5. ASSUME NEW q \in Requests, Handler(q), ~PushCommand(q)
        PROVE  pc' = pc /\ raw' = raw /\ queue' = queue
    BY <1>5 DEF Handler, Bind, PushReply, PushError, PushAgain, KillHandler
  <1>6. ASSUME NEW x \in Undecodable, ForeignPush(x)
        PROVE  /\ pc' = pc /\ raw' = raw
               /\ \E y \in Entries : queue' = Append(queue, y)
    BY <1>6 DEF ForeignPush, Entries
  <1>7. ASSUME NEW s \in Runs, Tick(s) \/ Timeout(s)
        PROVE  pc'[r] = pc[r] /\ raw' = raw /\ queue' = queue
    BY <1>1, <1>7 DEF Tick, Timeout, TypeOK
  <1>8. ASSUME NEW s \in Runs
        PROVE  ~Kill(s)
    BY DEF Kill, Orderly
  <1>9. CASE LockExpire
    BY <1>9 DEF LockExpire
  <1>. QED BY <1>2, <1>3, <1>4, <1>5, <1>6, <1>7, <1>8, <1>9 DEF Next

\* An LTRIM comes on its way with the LRANGE before it.
LEMMA TrimIsSentByPop ==
  ASSUME TypeOK, [Next]_vars, NEW r \in Runs, ~trim[r], trim'[r]
  PROVE  /\ pc'[r] = "reply" /\ raw'[r] = PopHead /\ queue' = queue
  <1>. USE DEF redisVars, httpVars, runVars
  <1>1. CASE trim' = trim
    BY <1>1
  <1>2. PICK s \in Runs : ExecLRange(s) \/ ExecLTrim(s) \/ PopError(s) \/ PopAgain(s)
    <2>. SUFFICES ASSUME trim' # trim
                  PROVE  \E s \in Runs : ExecLRange(s) \/ ExecLTrim(s) \/ PopError(s)
                                           \/ PopAgain(s)
      BY <1>1
    <2>1. ASSUME NEW s \in Runs, RunStep(s)
          PROVE  ExecLRange(s) \/ ExecLTrim(s) \/ PopError(s) \/ PopAgain(s)
      BY <2>1 DEF RunStep, QueueSize, LoopExpired, PopReply, DecodeEntry, DecodeDone,
           InsertOk, InsertFail, InsertLost, GiveUp, Bury
    <2>. QED
      BY <2>1 DEF Next, vars, Handler, Bind, PushCommand, PushReply, PushError,
           PushAgain, KillHandler, ForeignPush, Tick, Timeout, Kill, LockExpire
  <1>3. ExecLRange(s) /\ s = r
    BY <1>2 DEF ExecLRange, ExecLTrim, PopError, PopAgain, TypeOK
  <1>. QED BY <1>3 DEF ExecLRange, TypeOK

LEMMA StepKeepsFull ==
  ASSUME Orderly, FullInv, TypeOK', [Next]_vars
  PROVE  Waits' /\ Begins'
  <1>0. TypeOK
    BY DEF FullInv
  <1>1. ASSUME NEW r \in Runs, trim'[r]
        PROVE  /\ pc'[r] = "reply"
               /\ Len(raw'[r]) = BatchSize =>
                    /\ BatchSize <= Len(queue')
                    /\ \A i \in 1 .. BatchSize : queue'[i] = raw'[r][i]
    <2>1. CASE ~trim[r]
      BY <1>0, <1>1, <2>1, TrimIsSentByPop, FullPopIsPrefix
    <2>2. CASE trim[r]
      <3>1. /\ pc'[r] = "reply" /\ raw'[r] = raw[r]
            /\ queue' = queue \/ \E x \in Entries : queue' = Append(queue, x)
        BY <1>1, <2>2, WaitingIsKept DEF FullInv, Waits
      <3>2. Len(raw[r]) = BatchSize =>
              /\ BatchSize <= Len(queue)
              /\ \A i \in 1 .. BatchSize : queue[i] = raw[r][i]
        BY <2>2 DEF FullInv, Begins
      <3>3. queue \in Seq(Entries) /\ Len(queue) \in Nat /\ BatchSize \in Int
        BY <1>0, ConfigAssumption DEF TypeOK
      <3>4. Len(queue) <= Len(queue') /\ \A i \in 1 .. Len(queue) : queue'[i] = queue[i]
        BY <3>1, <3>3
      <3>5. Len(queue') \in Nat
        BY DEF TypeOK
      <3>. QED BY <3>1, <3>2, <3>3, <3>4, <3>5
    <2>. QED BY <2>1, <2>2
  <1>. QED BY <1>1 DEF Waits, Begins

\* A trimmed queue is an executed LTRIM.
LEMMA TrimStep ==
  ASSUME Orderly, TypeOK, [Next]_vars, NEW r \in Runs, trim[r], ~trim'[r]
  PROVE  ExecLTrim(r)
  <1>. USE DEF redisVars, httpVars, runVars
  <1>1. ASSUME NEW s \in Runs, RunStep(s)
        PROVE  trim' = trim \/ ExecLRange(s) \/ ExecLTrim(s)
    BY <1>1 DEF RunStep, QueueSize, LoopExpired, PopReply, PopError, PopAgain,
         DecodeEntry, DecodeDone, InsertOk, InsertFail, InsertLost, GiveUp, Bury, Orderly
  <1>2. PICK s \in Runs : ExecLRange(s) \/ ExecLTrim(s)
    BY <1>1 DEF Next, vars, Handler, Bind, PushCommand, PushReply, PushError,
         PushAgain, KillHandler, ForeignPush, Tick, Timeout, Kill, LockExpire
  <1>3. ExecLTrim(s) /\ s = r
    BY <1>2 DEF ExecLRange, ExecLTrim, TypeOK
  <1>. QED BY <1>3

\* After a full batch LTRIM takes away nothing the run has not read, whatever was
\* pushed between the two commands, for any batch size and any number of runs
\* (event_buffer.go:64-68).
THEOREM FullBatchIsSafe ==
  ASSUME Orderly
  PROVE  Spec => FullBatchLosesNothing
  <1>1. Init => Waits /\ Begins
    BY DEF Init, Waits, Begins
  <1>2. FullInv /\ TypeOK' /\ [Next]_vars => Waits' /\ Begins'
    BY StepKeepsFull
  <1>3. FullInv /\ [Next]_vars =>
          \A r \in Runs : trim[r] /\ ~trim'[r] /\ pc[r] = "reply" /\ Len(raw[r]) = BatchSize
            => ToSet(queue) \ ToSet(queue') \subseteq ToSet(raw[r])
    BY TrimStep, FullBatchIsRead DEF FullInv
  <1>4. Spec => []Excluded
    <2>1. CASE "split" \notin Faults
      <3>1. Excluded
        BY <2>1 DEF Excluded
      <3>. QED BY <3>1, PTL
    <2>2. CASE "split" \in Faults
      <3>1. "ttl" \notin Faults
        BY <2>2 DEF Orderly
      <3>2. Spec => []OneActiveRun
        BY <3>1, RunsExclude
      <3>3. OneActiveRun => Excluded
        BY DEF Excluded
      <3>. QED BY <3>2, <3>3, PTL
    <2>. QED BY <2>1, <2>2
  <1>5. FullInv <=> TypeOK /\ Located /\ Excluded /\ Waits /\ Begins
    BY DEF FullInv
  <1>. QED
    BY <1>1, <1>2, <1>3, <1>4, <1>5, TypeCorrect, AlwaysLocated, PTL
       DEF Spec, FullBatchLosesNothing
=============================================================================
