------------------------------- MODULE Values -------------------------------
(* The core's values and errors (value.rs, error.rs).                          *)
(*                                                                             *)
(* A value is a pair of its type and its content. A string is a sequence of    *)
(* symbols; a float is counted in halves; a table is a function on its keys,   *)
(* whose order is canonical. Points in time are counted in half-milliseconds.  *)
EXTENDS Integers, Sequences, SequencesExt, FiniteSetsExt, Functions, TLC

CONSTANT Day   \* half-milliseconds in a day

Error(code) == <<"error", code>>
Failed(v) == v[1] = "error"

\* The code's `?`: an error is passed on.
Then(v, Next(_)) == IF Failed(v) THEN v ELSE Next(v)

Text(s) == <<"string", s>>
Table(f) == <<"table", f>>
NoFields == <<>>
IsTable(v) == v[1] = "table"
IsArray(v) == v[1] = "array"

\* A table with one more field, or another value of it
Put(f, k, x) == [j \in DOMAIN f \cup {k} |-> IF j = k THEN x ELSE f[j]]

\* A field of a table, or Absent
Absent == <<"absent">>
Field(v, k) == IF IsTable(v) /\ k \in DOMAIN v[2] THEN v[2][k] ELSE Absent
With(v, k, x) == Table(Put(v[2], k, x))
WithoutKey(v, k) == Table(Restrict(v[2], DOMAIN v[2] \ {k}))

\* The first failure of its parts is the failure of the whole.
FirstFailure(items) == SelectInSeq(items, Failed)

All(tag, items, i) == IF i = 0 THEN <<tag, items>> ELSE items[i]

Batch(items) == All("batch", items, FirstFailure(items))
ArrayOf(items) == All("array", items, FirstFailure(items))

\* The parts by their names under a tag, unless one of them failed
Whole(tag, f) ==
    IF \E k \in DOMAIN f : Failed(f[k]) THEN f[CHOOSE k \in DOMAIN f : Failed(f[k])] ELSE <<tag, f>>

TableOf(f) == Whole("table", f)

Halves(v) == IF v[1] = "integer" THEN 2 * v[2] ELSE v[2]

----------------------------------------------------------------------------
(* Points in time: what the clock shows, and for an offset datetime the offset *)

Kind(v) == v[2].kind
Instant(v) == v[2].at - v[2].offset

\* The four kinds all become an instant, the local ones as if they were UTC; a
\* time of the day lies on the first day.
ToMillis(v) == Instant(v) \div 2

FromMillis(ms) == <<"datetime", [kind |-> "offset", at |-> 2 * ms, offset |-> 0]>>
=============================================================================
