-------------------------------- MODULE Hosts --------------------------------
(* How each binding carries a host language's values to the core and back (the *)
(* marshalling of gitsheets-napi and -py).                                     *)
(*                                                                             *)
(* JavaScript has null, boolean, number (in halves), bigint, string, date (in  *)
(* milliseconds), array and object; Python has None, bool, int, float, str,    *)
(* datetime (the clock and its offset), list, tuple, dict.                     *)
EXTENDS Values

CONSTANTS
    MaxSafe,   \* MAX_SAFE_INTEGER: JavaScript numbers are exact up to here
    MaxInt     \* the largest i64

ASSUME Scales == 0 < MaxSafe /\ MaxSafe < MaxInt /\ Day \in Nat \ {0}

IsNull(h) == h[1] \in {"null", "None"}

\* A key without a value is dropped, an element without one is an error.
Given(f) == RestrictValues(f, LAMBDA h : ~IsNull(h))

\* A mistake: an integral number stays a float.
NumberToCore_Float(n) == <<"float", n>>

NumberToCore(n) ==
    IF n % 2 = 0 /\ n \in -2 * MaxSafe .. 2 * MaxSafe THEN <<"integer", n \div 2>> ELSE <<"float", n>>

\* An invalid Date has no time value; the cast of its NaN gives zero.
DateToCore(h) == FromMillis(IF h[1] = "date" THEN h[2] ELSE 0)

RECURSIVE FromJs(_)
FromJs(h) ==
    CASE h[1] \in {"boolean", "string"} -> h
      [] h[1] = "number" -> NumberToCore(h[2])
      [] h[1] = "bigint" -> IF h[2] \in -MaxInt - 1 .. MaxInt THEN <<"integer", h[2]>> ELSE Error("InvalidArg")
      [] h[1] \in {"date", "invalid date"} -> DateToCore(h)
      [] h[1] = "array"  -> ArrayOf([i \in DOMAIN h[2] |-> FromJs(h[2][i])])
      [] h[1] = "object" -> TableOf([k \in DOMAIN Given(h[2]) |-> FromJs(h[2][k])])
      [] OTHER -> Error("InvalidArg")

RECURSIVE ToJs(_)
ToJs(v) ==
    CASE v[1] \in {"boolean", "string"} -> v
      [] v[1] = "float"    -> <<"number", v[2]>>
      [] v[1] = "integer"  -> IF v[2] \in -MaxSafe .. MaxSafe THEN <<"number", 2 * v[2]>> ELSE <<"bigint", v[2]>>
      [] v[1] = "datetime" -> <<"date", ToMillis(v)>>
      [] v[1] = "array"    -> <<"array", [i \in DOMAIN v[2] |-> ToJs(v[2][i])]>>
      [] v[1] = "table"    -> <<"object", [k \in DOMAIN v[2] |-> ToJs(v[2][k])]>>

\* An aware datetime is taken to UTC, a naive one is taken for UTC.
PyDatetimeToCore(t) == FromMillis((t.at - t.offset) \div 2)

CoreDatetimeToPy(v) == <<"datetime", [at |-> 2 * ToMillis(v), offset |-> 0]>>

RECURSIVE FromPy(_)
FromPy(h) ==
    CASE h[1] \in {"boolean", "string", "float"} -> h
      [] h[1] = "int"      -> IF h[2] \in -MaxInt - 1 .. MaxInt THEN <<"integer", h[2]>> ELSE Error("OverflowError")
      [] h[1] = "datetime" -> PyDatetimeToCore(h[2])
      [] h[1] \in {"list", "tuple"} -> ArrayOf([i \in DOMAIN h[2] |-> FromPy(h[2][i])])
      [] h[1] = "dict"     -> TableOf([k \in DOMAIN Given(h[2]) |-> FromPy(h[2][k])])
      [] IsNull(h)         -> Error("ValueError")
      [] OTHER             -> Error("TypeError")

RECURSIVE ToPy(_)
ToPy(v) ==
    CASE v[1] \in {"boolean", "string", "float"} -> v
      [] v[1] = "integer"  -> <<"int", v[2]>>
      [] v[1] = "datetime" -> CoreDatetimeToPy(v)
      [] v[1] = "array"    -> <<"list", [i \in DOMAIN v[2] |-> ToPy(v[2][i])]>>
      [] v[1] = "table"    -> <<"dict", [k \in DOMAIN v[2] |-> ToPy(v[2][k])]>>

\* A whole list of records crosses at once.
AllFromJs(hs) == Batch([i \in DOMAIN hs |-> FromJs(hs[i])])
AllFromPy(hs) == Batch([i \in DOMAIN hs |-> FromPy(hs[i])])

----------------------------------------------------------------------------
(* Merge patches: a null deletes, a table merges, the rest replaces. *)

Delete == <<"delete">>

Merge(f) == Whole("merge", f)

Replace(v) == IF Failed(v) THEN v ELSE <<"replace", v>>

RECURSIVE JsPatch(_)
JsPatch(h) ==
    CASE IsNull(h)       -> Delete
      [] h[1] = "object" -> Merge([k \in DOMAIN h[2] |-> JsPatch(h[2][k])])
      [] OTHER           -> Replace(FromJs(h))

RECURSIVE PyPatch(_)
PyPatch(h) ==
    CASE IsNull(h)     -> Delete
      [] h[1] = "dict" -> Merge([k \in DOMAIN h[2] |-> PyPatch(h[2][k])])
      [] OTHER         -> Replace(FromPy(h))
=============================================================================
