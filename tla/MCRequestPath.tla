--------------------------- MODULE MCRequestPath ---------------------------
(* A small instance of RequestPath for TLC: float64 is exact up to 8 and an *)
(* id has at most 40.                                                       *)
EXTENDS RequestPath

MCExact    == 8
MCMaxInt64 == 40
MCNames    == {"score", "password", "nothing", "answer", "length", "token", "build",
               "ip", "user_agent"}
MCDates    == "2026-03-15T10:00:00Z" :> 1

Str(s) == [str |-> s]
Num(n) == [num |-> n]
Obj(f) == [obj |-> f]

Minimal == [event |-> Str("click"), user_id |-> Num(11)]

\* Odd numbers beyond Exact on both levels and in both maps, ids that are odd as
\* well, sensitive names on both levels, and an address the client made up.
Full ==
  [event       |-> Str("submit"),
   user_id     |-> Num(-13),
   batch_id    |-> Num(15),
   occurred_at |-> Str("2026-03-15T10:00:00Z"),
   properties  |-> Obj([score    |-> Num(9),
                        password |-> Str("p"),
                        nothing  |-> Null,
                        answer   |-> Obj([password |-> Str("q"), length |-> Num(-11)])]),
   meta_data   |-> Obj([ip |-> Str("made up"), build |-> Num(15)])]

Nulls ==
  [event |-> Str("click"), user_id |-> Num(1), batch_id |-> Null,
   properties |-> Null, meta_data |-> Null, occurred_at |-> Null, more |-> Num(1)]

\* What is stripped leaves nothing, and the date does not parse.
Stripped ==
  [event |-> Str("click"), user_id |-> Num(40), occurred_at |-> Str("not-a-date"),
   properties |-> Obj([token |-> Str("t")])]

\* Longer than varchar(100).
LongName == [event |-> Str("very long"), user_id |-> Num(2)]

Refused == {
  [user_id |-> Num(3)],
  [event |-> Null, user_id |-> Num(3)],
  [event |-> Str("click"), user_id |-> Num(0)],
  [event |-> Str("click"), user_id |-> Num(41)],
  [event |-> Str("click"), user_id |-> Str("3")],
  [event |-> Str("click"), user_id |-> Num(3), properties |-> Num(1)]}

Valid   == {Minimal, Full, Nulls, Stripped, LongName}
MCTexts == Valid \cup Refused

MCBatches ==
  {<<>>, <<Minimal, Minimal, Minimal>>}
    \cup {<<t>> : t \in MCTexts}
    \cup {<<t, u>> : t \in Valid, u \in MCTexts}
=============================================================================
