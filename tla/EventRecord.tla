---------------------------- MODULE EventRecord ----------------------------
(***************************************************************************)
(* What becomes of the data of one event: the JSON object of the request,  *)
(* the Go struct dtos.CreateTrackingEventRequest, the JSON text in the     *)
(* list, the struct again, models.TrackingEvent and the row.               *)
(*                                                                         *)
(* A JSON object is a function from names to values.  A value is           *)
(* [num |-> n], [str |-> s], [obj |-> f] or Null; the objects nested in    *)
(* properties hold no further ones here.  The field screen has the tags    *)
(* and the column type of event and goes the same way.                     *)
(***************************************************************************)
EXTENDS Integers, SequencesExt

CONSTANTS
  Names,      \* names of the members of properties and meta_data
  Sensitive,  \* config.DefaultSensitiveFields
  Exact,      \* 2^53: beyond it float64 holds only every second integer
  MaxInt64,   \* the largest user_id and batch_id
  Dates,      \* what time.Parse(RFC3339) makes of the strings it accepts
  Oversized,  \* strings that varchar(100) refuses
  Null        \* JSON's null, Go's nil pointer, SQL's NULL

ASSUME ExactAssumption == Exact \in Nat /\ Exact % 2 = 0
ASSUME Int64Assumption == MaxInt64 \in Nat
ASSUME EmptyAssumption == "" \notin Oversized
ASSUME NamesAssumption == {"ip", "user_agent"} \subseteq Names
ASSUME DatesAssumption == DOMAIN Dates \subseteq STRING \ {""}

\* Numbers that are not ids stay within the range Float64 is defined for.
Leaves  == [{"num"} -> -2 * Exact .. 2 * Exact] \cup [{"str"} -> STRING] \cup {Null}
Nested  == UNION {[N -> Leaves] : N \in SUBSET Names}
Objects == UNION {[N -> Leaves \cup [{"obj"} -> Nested]] : N \in SUBSET Names}

ASSUME NullAssumption ==
  /\ Null \notin Int \cup STRING
  /\ Null \notin [{"num"} -> Int] \cup [{"str"} -> STRING] \cup [{"obj"} -> Objects]

-----------------------------------------------------------------------------
(* Numbers of an interface{} are float64: the nearest one, and of two the   *)
(* one whose last bit is zero.  Defined for integers up to 2 * Exact.       *)

Float64(n) ==
  LET size == IF n < 0 THEN -n ELSE n
      sign == IF n < 0 THEN -1 ELSE 1
  IN  IF size <= Exact \/ size % 2 = 0 THEN n
      ELSE sign * (IF size % 4 = 1 THEN size - 1 ELSE size + 1)

Has(v, kind) == v # Null /\ kind \in DOMAIN v

IsNested(f) == DOMAIN f \subseteq Names /\ \A k \in DOMAIN f : f[k] \in Leaves
IsObject(f) ==
  /\ DOMAIN f \subseteq Names
  /\ \A k \in DOMAIN f : f[k] \in Leaves \/ (Has(f[k], "obj") /\ IsNested(f[k].obj))
IsText(t) ==
  \A name \in DOMAIN t :
    \/ t[name] \in [{"num"} -> Int] \cup Leaves
    \/ Has(t[name], "obj") /\ DOMAIN t[name] = {"obj"} /\ IsObject(t[name].obj)

FloatLeaf(v) == IF Has(v, "num") THEN [num |-> Float64(v.num)] ELSE v

FloatValue(v) ==
  IF Has(v, "obj")
  THEN [obj |-> [k \in DOMAIN v.obj |-> FloatLeaf(v.obj[k])]]
  ELSE FloatLeaf(v)

\* A map[string]interface{} as json.Unmarshal fills it, and as json.Marshal
\* writes it: the shortest digits that read back as the same float64.
FloatMap(f) == [k \in DOMAIN f |-> FloatValue(f[k])]

-----------------------------------------------------------------------------
(* json.Unmarshal into the struct, and json.Marshal of it.                  *)

\* A name that is missing and a null both leave the field as it is: zero.
Given(text, name) == name \in DOMAIN text /\ text[name] # Null

IsInt64(v) == Has(v, "num") /\ v.num \in -MaxInt64 - 1 .. MaxInt64

Unmarshals(text) ==
  /\ \A name \in {"event", "occurred_at"} :
       Given(text, name) => Has(text[name], "str")
  /\ \A name \in {"user_id", "batch_id"} :
       Given(text, name) => IsInt64(text[name])
  /\ \A name \in {"properties", "meta_data"} :
       Given(text, name) => Has(text[name], "obj")

\* The int64 fields take their numbers as they are.  A nil map and an empty one
\* behave alike in this program.
Unmarshal(text) ==
  LET Object(name) == IF Given(text, name) THEN FloatMap(text[name].obj) ELSE <<>>
  IN [event       |-> IF Given(text, "event") THEN text.event.str ELSE "",
      user_id     |-> IF Given(text, "user_id") THEN text.user_id.num ELSE 0,
      batch_id    |-> IF Given(text, "batch_id") THEN text.batch_id.num ELSE Null,
      properties  |-> Object("properties"),
      meta_data   |-> Object("meta_data"),
      occurred_at |-> IF Given(text, "occurred_at") THEN text.occurred_at.str ELSE Null]

\* The tags omitempty drop nil pointers and empty maps.
Marshal(dto) ==
  LET full == [event       |-> [str |-> dto.event],
               user_id     |-> [num |-> dto.user_id],
               batch_id    |-> [num |-> dto.batch_id],
               properties  |-> [obj |-> dto.properties],
               meta_data   |-> [obj |-> dto.meta_data],
               occurred_at |-> [str |-> dto.occurred_at]]
      kept == {"event", "user_id"}
                \cup {f \in {"batch_id", "occurred_at"} : dto[f] # Null}
                \cup {f \in {"properties", "meta_data"} : DOMAIN dto[f] # {}}
  IN  Restrict(full, kept)

\* The tags binding:"required" refuse zero values.
Required(dto) == dto.event # "" /\ dto.user_id # 0

-----------------------------------------------------------------------------
(* The handlers' part and the run's.                                        *)

FromServer(ip, agent) == [ip |-> [str |-> ip], user_agent |-> [str |-> agent]]

\* The members of f, and those of g that f does not have.
Over(f, g) ==
  [k \in DOMAIN f \cup DOMAIN g |-> IF k \in DOMAIN f THEN f[k] ELSE g[k]]

\* An enrichMetaData that only fills in what the client left out.
EnrichIfMissing(dto, ip, agent) ==
  [dto EXCEPT !.meta_data = Over(@, FromServer(ip, agent))]

\* enrichMetaData: the server's values replace the client's.
EnrichMetaData(dto, ip, agent) ==
  [dto EXCEPT !.meta_data = Over(FromServer(ip, agent), @)]

\* stripSensitiveFields: the top level of properties only.
StripSensitiveFields(dto) ==
  [dto EXCEPT !.properties = Restrict(@, DOMAIN @ \ Sensitive)]

\* transformEvents: without a time that parses, the event happens now.
TransformEvent(dto, now) ==
  [dto EXCEPT !.occurred_at = IF @ \in DOMAIN Dates THEN Dates[@] ELSE now]

\* The columns; JSONMap.Value writes a map as FloatMap describes, never a NULL.
TableTakes(row) == row.event \notin Oversized

\* PushDeadLetter's object, without the reason.
DeadLetter(dto) == [event |-> [obj |-> Marshal(dto)]]
=============================================================================
