------------------------------ MODULE Filters -------------------------------
(* Filters as the bindings read them (parse_filter of gitsheets-napi and -py). *)
EXTENDS Query, Hosts

IsPredicate(h) == "$pred" \in DOMAIN h[2] /\ h[2]["$pred"][1] = "string"

ClauseOf(v) == IF Failed(v) THEN v ELSE <<"equals", v>>

FilterOf(f) == Whole("nested", f)

RECURSIVE JsClause(_)
JsClause(h) ==
    CASE h[1] = "object" /\ IsPredicate(h)  -> <<"pred", h[2]["$pred"][2]>>
      [] h[1] = "object" /\ ~IsPredicate(h) -> FilterOf([k \in DOMAIN h[2] |-> JsClause(h[2][k])])
      [] OTHER -> ClauseOf(FromJs(h))

RECURSIVE PyClause(_)
PyClause(h) ==
    CASE h[1] = "dict" /\ IsPredicate(h)  -> <<"pred", h[2]["$pred"][2]>>
      [] h[1] = "dict" /\ ~IsPredicate(h) -> FilterOf([k \in DOMAIN h[2] |-> PyClause(h[2][k])])
      [] OTHER -> ClauseOf(FromPy(h))
=============================================================================
