------------------------------ MODULE Pruning -------------------------------
(* What a query looks at: what its filter says of a record for certain, and    *)
(* the walk that the template plans with it (query.rs).                        *)
(*                                                                             *)
(* Paths are relative to the sheet's base: a file is a sequence of             *)
(* <<stem, extension>>, a record a sequence of stems. Names have no dots.      *)
EXTENDS Templates

CONSTANTS
    MatchesNested(_, _),   \* what Matches says again of the filter of a field
    ClauseOrder            \* the place a client gives each field among the clauses of a filter

Exact(stems)   == [i \in DOMAIN stems |-> <<stems[i], "">>]
FileOf(stems, ext) == Append(Front(Exact(stems)), <<Last(stems), ext>>)
StemsOf(file)  == [i \in DOMAIN file |-> file[i][1]]
IsRecordFile(file, ext) == Last(file)[2] = ext

----------------------------------------------------------------------------
(* Filters: a table of clauses, each <<"equals", value>>, <<"nested", filter>> *)
(* or <<"pred", name>> *)

\* The engine's predicates: one asks whether there is a value, one throws.
CallPredicate(name, v) ==
    IF name = <<"present">> THEN <<"holds", v # Absent>> ELSE Error("config_invalid")

\* What a clause says of a field's value
ClauseHolds(clause, v) ==
    CASE clause[1] = "equals" -> <<"holds", v[1] = clause[2][1] /\ v = clause[2]>>
      [] clause[1] = "nested" -> IF IsTable(v) THEN MatchesNested(clause, v) ELSE <<"holds", FALSE>>
      [] clause[1] = "pred"   -> CallPredicate(clause[2], v)

\* Every clause holds; the first one that does not is the last one looked at, and
\* if that one throws it is an error.
Matches(filter, record) ==
    LET says(k) == ClauseHolds(filter[2][k], Field(record, k))
        unmet   == {k \in DOMAIN filter[2] : says(k) # <<"holds", TRUE>>}
        first   == CHOOSE k \in unmet : \A j \in unmet : ClauseOrder[k] <= ClauseOrder[j]
    IN  CASE ~IsTable(record) -> <<"holds", filter[2] = NoFields>>
          [] IsTable(record) /\ unmet = {} -> <<"holds", TRUE>>
          [] OTHER -> IF says(first) = <<"holds", FALSE>> THEN <<"holds", FALSE>> ELSE Error("config_invalid")

\* What the filter says of the record for certain: the scalars it must equal.
PruneRecord(filter) ==
    LET known == {k \in DOMAIN filter[2] :
                    /\ filter[2][k][1] = "equals"
                    /\ filter[2][k][2][1] \in {"string", "integer", "float", "boolean", "datetime"}}
    IN  Table([k \in known |-> filter[2][k][2]])

----------------------------------------------------------------------------
(* The walk *)

Below(files, prefix) == {f \in DOMAIN files : IsStrictPrefix(Exact(prefix), f)}

Subtrees(files, prefix) ==
    {f[Len(prefix) + 1][1] : f \in {g \in Below(files, prefix) : Len(g) > Len(prefix) + 1}}

\* Blobs at any depth, those beneath a record left out: its attachments
RecordsBelow(files, prefix, ext) ==
    LET found == {StemsOf(f) : f \in {g \in Below(files, prefix) : IsRecordFile(g, ext)}}
    IN  {r \in found : ~\E s \in found : IsStrictPrefix(s, r)}

RecordsIn(files, prefix, ext) ==
    {StemsOf(f) : f \in {g \in Below(files, prefix) : Len(g) = Len(prefix) + 1 /\ IsRecordFile(g, ext)}}

\* A leaf that renders names one file.
NamedLeaf(files, prefix, text, ext) ==
    {r \in {prefix \o Names(text)} : FileOf(r, ext) \in DOMAIN files}

\* Where an inner component leads to from a directory
Onward(files, comp, prefix) ==
    IF comp.rendered # Absent THEN {prefix \o Names(comp.rendered[2])}
    ELSE {Append(prefix, s) : s \in Subtrees(files, prefix)}

\* The records that the last component leads to
Leaves(files, comp, prefix, ext) ==
    CASE comp.rendered # Absent -> NamedLeaf(files, prefix, comp.rendered[2], ext)
      [] comp.rendered = Absent /\ comp.recursive  -> RecordsBelow(files, prefix, ext)
      [] comp.rendered = Absent /\ ~comp.recursive -> RecordsIn(files, prefix, ext)

\* The directories that all components but the last lead to
Reached(files, plan) ==
    LET after[i \in 0 .. Len(plan) - 1] ==
            IF i = 0 THEN {<<>>} ELSE UNION {Onward(files, plan[i], d) : d \in after[i - 1]}
    IN  after[Len(plan) - 1]

Walk(files, plan, ext) ==
    UNION {Leaves(files, Last(plan), d, ext) : d \in Reached(files, plan)}

\* The candidates that the known fields leave
CandidatePaths(files, template, query, ext) ==
    Then(PlanQuery(template, query), LAMBDA plan : <<"paths", Walk(files, plan[2], ext)>>)
=============================================================================
