----------------------------- MODULE RedisList -----------------------------
(***************************************************************************)
(* The Redis list commands the service sends (external: go-redis passes    *)
(* them to the server unchanged).  A list is a sequence whose head is the  *)
(* left end; RPUSH is Append and LLEN is Len.                              *)
(***************************************************************************)
EXTENDS Integers, Sequences

\* A negative index counts from the right end: -1 is the last element.
FromLeft(i, len) == IF i < 0 THEN len + i ELSE i

\* The elements between two indices, both inclusive and clamped to the list;
\* empty when they cross.
LRange(list, start, stop) ==
  LET len   == Len(list)
      first == IF FromLeft(start, len) < 0 THEN 0 ELSE FromLeft(start, len)
      last  == IF FromLeft(stop, len) < len THEN FromLeft(stop, len) ELSE len - 1
  IN  IF first > last THEN <<>> ELSE SubSeq(list, first + 1, last + 1)

\* LTRIM keeps exactly what LRANGE with the same indices returns.
LTrim(list, start, stop) == LRange(list, start, stop)
=============================================================================
